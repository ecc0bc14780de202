------------------------- MODULE Assignments_proofs -------------------------
(***************************************************************************)
(* Proofs about the assignment component, for any number of requests in    *)
(* progress, items and assignments; and, first, what the handlers of the   *)
(* asset item and of the assignment do to rows and requests whatever other *)
(* requests (the set R has them all) are served beside them.  The proofs   *)
(* about the components that share the item and the assignment with them   *)
(* cite these lemmas.                                                      *)
(***************************************************************************)
EXTENDS Assignments, TLAPS

-----------------------------------------------------------------------------
(* R has the requests the handlers of the asset item start, and they carry *)
(* what they should. *)
ItemRequestsIn(R) ==
    /\ Idle \in R
    /\ [op: {"UpdateItem"}, item: Items, functional: FunctionalStatus,
        status: ItemStatus \cup {Keep}, assignment: AssignmentEdits,
        active: ActiveEdits] \subseteq R
    /\ [op: {"RemoveItem"}, item: Items, loaded: ItemRow] \subseteq R
    /\ \A r \in R :
          /\ r.op = "UpdateItem" =>
                /\ r.item \in Items /\ r.functional \in FunctionalStatus
                /\ r.status \in ItemStatus \cup {Keep}
                /\ r.assignment \in AssignmentStatus \cup {Keep}
                /\ r.active \in BOOLEAN \cup {Keep}
          /\ r.op = "RemoveItem" => r.item \in Items /\ r.loaded \in ItemRow

(* Starting and ending a request keep req well-formed. *)
LEMMA EndsTyped ==
    ASSUME NEW R, ItemRequestsIn(R), NEW w \in Workers, req \in [Workers -> R], Ends(w)
    PROVE  req' \in [Workers -> R]
  BY DEF Ends, ItemRequestsIn

(* The request that starts is one of those there are. *)
LEMMA StartsTyped ==
    ASSUME NEW R, NEW w \in Workers, NEW r \in R, req \in [Workers -> R], Starts(w, r)
    PROVE  req' \in [Workers -> R]
  BY DEF Starts

(* A PUT body leaves a field or gives it a value of its kind. *)
LEMMA EditedTyped ==
    ASSUME NEW S, NEW old \in S, NEW new \in S \cup {Keep}
    PROVE  Edited(old, new) \in S
  BY DEF Edited

(* The two handlers of the asset item keep rows and requests well-formed. *)
LEMMA ItemHandlersTyped ==
    ASSUME NEW R, ItemRequestsIn(R), item \in [Items -> ItemRow], req \in [Workers -> R],
           NEW w \in Workers, ItemStep(w)
    PROVE  item' \in [Items -> ItemRow] /\ req' \in [Workers -> R]
<1>r. req[w] \in R
  OBVIOUS
<1>1. ASSUME NEW i \in Items, NEW s \in StatusEdits, NEW f \in FunctionalEdits,
             NEW a \in AssignmentEdits, NEW act \in ActiveEdits,
             UpdateItemRead(w, i, s, f, a, act)
      PROVE  item' \in [Items -> ItemRow] /\ req' \in [Workers -> R]
  <2> DEFINE f2 == IF f = Keep THEN item[i].functional ELSE f
             candidate == IF s = Keep THEN item[i].status ELSE s
             s2 == IF s = Keep /\ ~CombinationOk(candidate, f2)
                     THEN DefaultStatus[f2] ELSE candidate
             st == IF s = Keep /\ s2 = item[i].status THEN Keep ELSE s2
             r == [op |-> "UpdateItem", item |-> i, functional |-> f2, status |-> st,
                   assignment |-> a, active |-> act]
  <2>1. f2 \in FunctionalStatus
    BY ItemConstants DEF ItemRow
  <2>2. DefaultStatus[f2] \in ItemStatus
    BY <2>1 DEF DefaultStatus, FunctionalStatus, ItemStatus
  <2>3. candidate \in ItemStatus
    BY ItemConstants DEF ItemRow
  <2>4. st \in ItemStatus \cup {Keep}
    BY <2>2, <2>3
  <2>5. r \in R
    BY <2>1, <2>4 DEF ItemRequestsIn
  <2>6. Starts(w, r) /\ UNCHANGED item
    BY <1>1 DEF UpdateItemRead
  <2> QED
    BY <2>5, <2>6 DEF Starts
<1>2. CASE UpdateItemWrite(w)
  <2> DEFINE i == req[w].item
             row == EditedRow(item[i], req[w])
  <2>1. /\ i \in Items /\ req[w].functional \in FunctionalStatus
        /\ req[w].status \in ItemStatus \cup {Keep}
        /\ req[w].assignment \in AssignmentStatus \cup {Keep}
        /\ req[w].active \in BOOLEAN \cup {Keep}
    BY <1>2, <1>r DEF ItemRequestsIn, UpdateItemWrite, Serving
  <2>2. item[i] \in ItemRow
    BY <2>1
  <2>3. /\ Edited(item[i].status, req[w].status) \in ItemStatus
        /\ Edited(item[i].assignment, req[w].assignment) \in AssignmentStatus
        /\ Edited(item[i].active, req[w].active) \in BOOLEAN
    BY <2>1, <2>2, EditedTyped DEF ItemRow
  <2>4. row \in ItemRow
    BY <2>1, <2>2, <2>3 DEF ItemRow, EditedRow
  <2>5. item' = [item EXCEPT ![i] = row] /\ Ends(w)
    BY <1>2 DEF UpdateItemWrite
  <2> QED
    BY <2>1, <2>4, <2>5 DEF Ends, ItemRequestsIn
<1>3. ASSUME NEW i \in Retirements, RemoveItemRead(w, i)
      PROVE  item' \in [Items -> ItemRow] /\ req' \in [Workers -> R]
  <2>1. [op |-> "RemoveItem", item |-> i, loaded |-> item[i]] \in R
    BY ItemConstants DEF ItemRequestsIn
  <2> QED
    BY <1>3, <2>1 DEF RemoveItemRead, Starts
<1>4. CASE RemoveItemWrite(w)
  <2> DEFINE i == req[w].item
             row == RetiredRow(item[i], req[w].loaded)
  <2>1. i \in Items /\ item[i] \in ItemRow
    BY <1>4, <1>r DEF ItemRequestsIn, RemoveItemWrite, Serving
  <2>2. row \in ItemRow
    BY <2>1 DEF ItemRow, RetiredRow, Saved, AssignmentStatus, ItemStatus
  <2>3. item' = [item EXCEPT ![i] = row] /\ Ends(w)
    BY <1>4 DEF RemoveItemWrite
  <2> QED
    BY <2>1, <2>2, <2>3 DEF Ends, ItemRequestsIn
<1> QED
  BY <1>1, <1>2, <1>3, <1>4 DEF ItemStep

(* A step of worker w changes no other request. *)
LEMMA ItemStepOfOneWorker ==
    ASSUME NEW R, req \in [Workers -> R], NEW w \in Workers, ItemStep(w) \/ Fail(w)
    PROVE  \A v \in Workers \ {w} : req'[v] = req[v]
<1>1. ASSUME Ends(w) \/ \E r : Starts(w, r)
      PROVE  \A v \in Workers \ {w} : req'[v] = req[v]
  BY <1>1 DEF Ends, Starts
<1>2. ASSUME NEW i, NEW s, NEW f, NEW a, NEW act, UpdateItemRead(w, i, s, f, a, act)
      PROVE  \E r : Starts(w, r)
  BY <1>2 DEF UpdateItemRead
<1>3. ASSUME NEW i, RemoveItemRead(w, i)
      PROVE  \E r : Starts(w, r)
  BY <1>3 DEF RemoveItemRead
<1> QED
  BY <1>1, <1>2, <1>3 DEF ItemStep, UpdateItemWrite, RemoveItemWrite, Fail

-----------------------------------------------------------------------------
(* The same of the handlers of the assignment: a request they start is in  *)
(* R, within the bounds on edits.                                          *)
AssignmentRequestsIn(R) ==
    /\ ItemRequestsIn(R)
    /\ [op: {"CreateAssignment"}, item: Items, who: Assignees] \subseteq R
    /\ [op: {"Handover"}, asg: Assignments, item: Items] \subseteq R
    /\ [op: {"RequestReturn", "RemoveAssignment"}, asg: Assignments] \subseteq R
    /\ [op: {"SignedReturn"}, asg: Assignments, item: Items,
        next: {"Maintenance", "Available"}] \subseteq R
    /\ [op: {"UpdateAssignment"}, asg: Assignments, item: ItemEdits, who: EmployeeEdits,
        active: IsActiveEdits, returned: ReturnedEdits] \subseteq R
    /\ \A r \in R :
          /\ r.op = "CreateAssignment" => r.item \in Items /\ r.who \in Assignees
          /\ r.op = "Handover" => r.asg \in Assignments /\ r.item \in Items
          /\ r.op \in {"RequestReturn", "RemoveAssignment"} => r.asg \in Assignments
          /\ r.op = "SignedReturn" => /\ r.asg \in Assignments /\ r.item \in Items
                                      /\ r.next \in {"Maintenance", "Available"}
          /\ r.op = "UpdateAssignment" => /\ r.asg \in Assignments
                                          /\ r.item \in Items \cup {Keep}
                                          /\ r.who \in Assignees \cup {Keep}
                                          /\ r.active \in BOOLEAN \cup {Keep}
                                          /\ r.returned \in BOOLEAN \cup {Keep}

(* Documents and requests have their fields. *)
WellFormed(R) ==
    /\ item \in [Items -> ItemRow]
    /\ req \in [Workers -> R]
    /\ asg \in [Assignments -> AssignmentRow \cup {Unwritten}]
    /\ \A w \in Workers : NamesWritten(w)

(* A written assignment is a full row. *)
LEMMA WrittenRow ==
    ASSUME asg \in [Assignments -> AssignmentRow \cup {Unwritten}], NEW a \in Assignments
    PROVE  /\ Written(a) => asg[a] \in AssignmentRow
           /\ asg[a].status # "NONE" <=> Written(a)
  BY DEF Written, AssignmentRow, Unwritten, Open, Closed

(* Every step that changes an assignment writes exactly one row, a row     *)
(* both indexes allow: of a new draft, of a status that follows in the     *)
(* lifecycle, or of what a PUT body in R says.                             *)
Opened(a, row) == asg[a].status = "NONE" /\ row.status = "DRAFT"

Moved(a, row) == /\ <<asg[a].status, row.status>> \in Lifecycle
                 /\ row.item = asg[a].item /\ row.to = asg[a].to
                 /\ row.status \in Closed => row.returned

EditedBy(r, a, row) ==
    /\ r.op = "UpdateAssignment"
    /\ row = [asg[a] EXCEPT !.item = Edited(@, r.item), !.who = Edited(@, r.who),
                            !.active = Edited(@, r.active),
                            !.returned = Edited(@, r.returned)]

RowWritten(R, a, row) ==
    /\ asg' = [asg EXCEPT ![a] = row]
    /\ IndexAllows(a, row)
    /\ Opened(a, row) \/ Moved(a, row) \/ \E r \in R : EditedBy(r, a, row)

WritesOneRow(R) == \E a \in Assignments : \E row \in AssignmentRow : RowWritten(R, a, row)

(* One step of a request writes at most one such row. *)
LEMMA OneRowAtATime ==
    ASSUME NEW R, AssignmentRequestsIn(R), WellFormed(R), NEW w \in Workers, AssignmentStep(w)
    PROVE  asg' = asg \/ WritesOneRow(R)
<1> USE DEF WellFormed
<1>r. req[w] \in R /\ NamesWritten(w)
  OBVIOUS
<1>1. ASSUME NEW i \in Items, NEW e \in Targets, CreateRead(w, i, e)
      PROVE  asg' = asg
  BY <1>1 DEF CreateRead
<1>2. ASSUME NEW a \in Assignments,
             \/ \E e \in Employees : ReassignRead(w, a, e)
             \/ HandoverRead(w, a) \/ RequestReturnRead(w, a)
             \/ SignedReturnRead(w, a) \/ RemoveAssignmentRead(w, a)
      PROVE  asg' = asg
  BY <1>2 DEF ReassignRead, HandoverRead, RequestReturnRead, SignedReturnRead,
              RemoveAssignmentRead
<1>3. ASSUME NEW a \in Assignments, NEW i \in ItemEdits, NEW e \in EmployeeEdits,
             NEW act \in IsActiveEdits, NEW ret \in ReturnedEdits,
             UpdateAssignmentRead(w, a, i, e, act, ret)
      PROVE  asg' = asg
  BY <1>3 DEF UpdateAssignmentRead
<1>4. ASSUME NEW a \in Assignments, CreateCommit(w, a)
      PROVE  WritesOneRow(R)
  <2> DEFINE row == Draft(req[w].item, req[w].who)
  <2>1. req[w].item \in Items /\ req[w].who \in Assignees
    BY <1>4, <1>r DEF AssignmentRequestsIn, CreateCommit, Serving
  <2>2. row \in AssignmentRow
    BY <2>1 DEF Draft, AssignmentRow, Open
  <2>3. asg[a].status = "NONE" /\ row.status = "DRAFT"
    BY <1>4 DEF CreateCommit, Written, Unwritten, Draft
  <2>4. RowWritten(R, a, row)
    BY <1>4, <2>3 DEF CreateCommit, WriteAssignment, RowWritten, Opened
  <2> QED
    BY <2>2, <2>4 DEF WritesOneRow
<1>5. CASE HandoverCommit(w)
  <2> DEFINE a == req[w].asg
             row == [asg[a] EXCEPT !.status = "ISSUED", !.active = TRUE]
  <2>1. a \in Assignments /\ asg[a].status = "DRAFT"
    BY <1>5, <1>r DEF AssignmentRequestsIn, HandoverCommit, Serving
  <2>2. asg[a] \in AssignmentRow
    BY <2>1, WrittenRow
  <2>3. row \in AssignmentRow /\ Moved(a, row)
    BY <2>1, <2>2 DEF AssignmentRow, Open, Moved, Lifecycle, Closed
  <2>4. RowWritten(R, a, row)
    BY <1>5, <2>3 DEF HandoverCommit, WriteAssignment, RowWritten
  <2> QED
    BY <2>1, <2>3, <2>4 DEF WritesOneRow
<1>6. CASE RequestReturnWrite(w)
  <2> DEFINE a == req[w].asg
             row == [asg[a] EXCEPT !.status = "RETURN_REQUESTED", !.active = TRUE]
  <2>1. a \in Assignments /\ asg[a].status = "ISSUED"
    BY <1>6, <1>r DEF AssignmentRequestsIn, RequestReturnWrite, Serving
  <2>2. asg[a] \in AssignmentRow
    BY <2>1, WrittenRow
  <2>3. row \in AssignmentRow /\ Moved(a, row)
    BY <2>1, <2>2 DEF AssignmentRow, Open, Moved, Lifecycle, Closed
  <2>4. RowWritten(R, a, row)
    BY <1>6, <2>3 DEF RequestReturnWrite, WriteAssignment, RowWritten
  <2> QED
    BY <2>1, <2>3, <2>4 DEF WritesOneRow
<1>7. CASE SignedReturnCommit(w)
  <2> DEFINE a == req[w].asg
             row == [asg[a] EXCEPT !.status = "RETURNED", !.active = FALSE, !.returned = TRUE]
  <2>1. a \in Assignments /\ asg[a].status \in {"ISSUED", "RETURN_REQUESTED"}
    BY <1>7, <1>r DEF AssignmentRequestsIn, SignedReturnCommit, Serving
  <2>2. asg[a] \in AssignmentRow
    BY <2>1, WrittenRow
  <2>3. row \in AssignmentRow /\ Moved(a, row)
    BY <2>1, <2>2 DEF AssignmentRow, Closed, Moved, Lifecycle
  <2>4. RowWritten(R, a, row)
    BY <1>7, <2>3 DEF SignedReturnCommit, WriteAssignment, RowWritten
  <2> QED
    BY <2>1, <2>3, <2>4 DEF WritesOneRow
<1>8. CASE UpdateAssignmentWrite(w)
  <2> DEFINE a == req[w].asg
             row == [asg[a] EXCEPT !.item = Edited(@, req[w].item),
                                   !.who = Edited(@, req[w].who),
                                   !.active = Edited(@, req[w].active),
                                   !.returned = Edited(@, req[w].returned)]
  <2>1. a \in Assignments /\ asg[a] \in AssignmentRow
    BY <1>8, <1>r, WrittenRow DEF AssignmentRequestsIn, UpdateAssignmentWrite, Serving, NamesWritten
  <2>2. /\ Edited(asg[a].item, req[w].item) \in Items
        /\ Edited(asg[a].who, req[w].who) \in Assignees
        /\ Edited(asg[a].active, req[w].active) \in BOOLEAN
        /\ Edited(asg[a].returned, req[w].returned) \in BOOLEAN
    BY <1>8, <1>r, <2>1 DEF AssignmentRequestsIn, UpdateAssignmentWrite, Serving, Edited,
                            AssignmentRow
  <2>3. row \in AssignmentRow
    BY <2>1, <2>2 DEF AssignmentRow
  <2>4. RowWritten(R, a, row)
    BY <1>8, <1>r DEF UpdateAssignmentWrite, Serving, WriteAssignment, RowWritten, EditedBy
  <2> QED
    BY <2>1, <2>3, <2>4 DEF WritesOneRow
<1>9. CASE RemoveAssignmentWrite(w)
  <2> DEFINE a == req[w].asg
             row == [asg[a] EXCEPT !.status = "CANCELLED", !.active = FALSE, !.returned = TRUE]
  <2>1. a \in Assignments /\ asg[a] \in AssignmentRow
    BY <1>9, <1>r, WrittenRow DEF AssignmentRequestsIn, RemoveAssignmentWrite, Serving, NamesWritten
  <2>2. row \in AssignmentRow /\ Moved(a, row)
    BY <2>1 DEF AssignmentRow, Closed, Moved, Lifecycle
  <2>3. RowWritten(R, a, row)
    BY <1>9, <2>2 DEF RemoveAssignmentWrite, WriteAssignment, RowWritten
  <2> QED
    BY <2>1, <2>2, <2>3 DEF WritesOneRow
<1> QED
  BY <1>1, <1>2, <1>3, <1>4, <1>5, <1>6, <1>7, <1>8, <1>9 DEF AssignmentStep

(* The handlers of the assignment keep items and requests well-formed. *)
LEMMA AssignmentHandlersTyped ==
    ASSUME NEW R, AssignmentRequestsIn(R), WellFormed(R), NEW w \in Workers, AssignmentStep(w)
    PROVE  item' \in [Items -> ItemRow] /\ req' \in [Workers -> R]
<1> DEFINE Kept == item' \in [Items -> ItemRow] /\ req' \in [Workers -> R]
<1>t. /\ item \in [Items -> ItemRow] /\ req \in [Workers -> R] /\ req[w] \in R
      /\ asg \in [Assignments -> AssignmentRow \cup {Unwritten}]
      /\ ItemRequestsIn(R)
  BY DEF WellFormed, AssignmentRequestsIn
<1>1. ASSUME NEW i \in Items, NEW e \in Targets, CreateRead(w, i, e)
      PROVE  Kept
  <2>1. [op |-> "CreateAssignment", item |-> i, who |-> e] \in R
    BY AssignmentConstants DEF AssignmentRequestsIn
  <2> QED
    BY <1>1, <1>t, <2>1, StartsTyped DEF CreateRead
<1>2. ASSUME NEW a \in Assignments, NEW e \in Employees, ReassignRead(w, a, e)
      PROVE  Kept
  <2>1. asg[a].item \in Items
    BY <1>2, <1>t, WrittenRow DEF ReassignRead, AssignmentRow
  <2>2. [op |-> "CreateAssignment", item |-> asg[a].item, who |-> e] \in R
    BY <2>1 DEF AssignmentRequestsIn, Assignees
  <2> QED
    BY <1>2, <1>t, <2>2, StartsTyped DEF ReassignRead
<1>3. ASSUME NEW a \in Assignments, HandoverRead(w, a)
      PROVE  Kept
  <2>1. asg[a].item \in Items
    BY <1>3, <1>t, WrittenRow DEF HandoverRead, InScope, AssignmentRow
  <2>2. [op |-> "Handover", asg |-> a, item |-> asg[a].item] \in R
    BY <2>1 DEF AssignmentRequestsIn
  <2> QED
    BY <1>3, <1>t, <2>2, StartsTyped DEF HandoverRead
<1>4. ASSUME NEW a \in Assignments, RequestReturnRead(w, a) \/ RemoveAssignmentRead(w, a)
      PROVE  Kept
  <2>1. \A op \in {"RequestReturn", "RemoveAssignment"} : [op |-> op, asg |-> a] \in R
    BY DEF AssignmentRequestsIn
  <2> QED
    BY <1>4, <1>t, <2>1, StartsTyped DEF RequestReturnRead, RemoveAssignmentRead
<1>5. ASSUME NEW a \in Assignments, SignedReturnRead(w, a)
      PROVE  Kept
  <2> DEFINE next == IF item[asg[a].item].status = "Maintenance"
                       THEN "Maintenance" ELSE "Available"
  <2>1. asg[a].item \in Items
    BY <1>5, <1>t, WrittenRow DEF SignedReturnRead, InScope, AssignmentRow
  <2>2. [op |-> "SignedReturn", asg |-> a, item |-> asg[a].item, next |-> next] \in R
    BY <2>1 DEF AssignmentRequestsIn
  <2> QED
    BY <1>5, <1>t, <2>2, StartsTyped DEF SignedReturnRead
<1>6. ASSUME NEW a \in Assignments, NEW i \in ItemEdits, NEW e \in EmployeeEdits,
             NEW act \in IsActiveEdits, NEW ret \in ReturnedEdits,
             UpdateAssignmentRead(w, a, i, e, act, ret)
      PROVE  Kept
  <2>1. [op |-> "UpdateAssignment", asg |-> a, item |-> i, who |-> e, active |-> act,
         returned |-> ret] \in R
    BY DEF AssignmentRequestsIn
  <2> QED
    BY <1>6, <1>t, <2>1, StartsTyped DEF UpdateAssignmentRead
<1>7. ASSUME NEW a \in Assignments, CreateCommit(w, a)
      PROVE  Kept
  BY <1>7, <1>t, EndsTyped DEF CreateCommit
<1>8. CASE HandoverCommit(w)
  <2> DEFINE i == req[w].item
             row == [item[i] EXCEPT !.assignment = "Assigned", !.status = "Assigned"]
  <2>1. i \in Items /\ item[i] \in ItemRow
    BY <1>8, <1>t DEF AssignmentRequestsIn, HandoverCommit, Serving
  <2>2. row \in ItemRow
    BY <2>1 DEF ItemRow, AssignmentStatus, ItemStatus
  <2>3. item' = [item EXCEPT ![i] = row] /\ Ends(w)
    BY <1>8 DEF HandoverCommit
  <2> QED
    BY <1>t, <2>1, <2>2, <2>3, EndsTyped
<1>9. CASE SignedReturnCommit(w)
  <2> DEFINE i == req[w].item
             row == [item[i] EXCEPT !.assignment = "Unassigned", !.status = req[w].next]
  <2>1. i \in Items /\ item[i] \in ItemRow /\ req[w].next \in {"Maintenance", "Available"}
    BY <1>9, <1>t DEF AssignmentRequestsIn, SignedReturnCommit, Serving
  <2>2. row \in ItemRow
    BY <2>1 DEF ItemRow, AssignmentStatus, ItemStatus
  <2>3. item' = [item EXCEPT ![i] = row] /\ Ends(w)
    BY <1>9 DEF SignedReturnCommit
  <2> QED
    BY <1>t, <2>1, <2>2, <2>3, EndsTyped
<1>10. CASE RequestReturnWrite(w) \/ UpdateAssignmentWrite(w) \/ RemoveAssignmentWrite(w)
  BY <1>10, <1>t, EndsTyped
     DEF RequestReturnWrite, UpdateAssignmentWrite, RemoveAssignmentWrite
<1> QED
  BY <1>1, <1>2, <1>3, <1>4, <1>5, <1>6, <1>7, <1>8, <1>9, <1>10 DEF AssignmentStep

(* What became of the assignments: rows stay rows, so that none is deleted. *)
AssignmentsStay ==
    /\ asg' \in [Assignments -> AssignmentRow \cup {Unwritten}]
    /\ \A a \in Assignments : Written(a) => Written(a)'

LEMMA WrittenStays ==
    ASSUME NEW R, WellFormed(R), asg' = asg \/ WritesOneRow(R)
    PROVE  AssignmentsStay
<1> USE DEF WellFormed
<1>1. CASE asg' = asg
  BY <1>1 DEF Written, AssignmentsStay
<1>2. ASSUME NEW b \in Assignments, NEW row \in AssignmentRow, RowWritten(R, b, row)
      PROVE  AssignmentsStay
  <2>1. row # Unwritten
    BY DEF AssignmentRow, Unwritten, Open, Closed
  <2>2. \A a \in Assignments : asg'[a] = IF a = b THEN row ELSE asg[a]
    BY <1>2 DEF RowWritten
  <2>3. asg' \in [Assignments -> AssignmentRow \cup {Unwritten}]
    BY <1>2 DEF RowWritten
  <2> QED
    BY <2>1, <2>2, <2>3 DEF Written, AssignmentsStay
<1> QED
  BY <1>1, <1>2 DEF WritesOneRow

(* The operations whose requests name an assignment. *)
Naming == {"Handover", "RequestReturn", "RemoveAssignment", "SignedReturn", "UpdateAssignment"}

(* A step of one request keeps the form of the whole when the request it   *)
(* becomes names no assignment, or a written one.                          *)
LEMMA FormKept ==
    ASSUME NEW R, AssignmentRequestsIn(R), WellFormed(R), NEW w \in Workers,
           item' \in [Items -> ItemRow], req' \in [Workers -> R], AssignmentsStay,
           \A v \in Workers \ {w} : req'[v] = req[v],
           NamesWritten(w)'
    PROVE  WellFormed(R)'
<1>1. ASSUME NEW v \in Workers \ {w}
      PROVE  NamesWritten(v)'
  <2>1. req'[v] = req[v] /\ NamesWritten(v) /\ req[v] \in R
    BY DEF WellFormed
  <2>2. req[v].op \in Naming => req[v].asg \in Assignments
    BY <2>1 DEF AssignmentRequestsIn, Naming
  <2> QED
    BY <2>1, <2>2 DEF NamesWritten, AssignmentsStay, Naming
<1> QED
  BY <1>1 DEF WellFormed, AssignmentsStay

(* Nor does a step of an assignment handler. *)
LEMMA OthersKept ==
    ASSUME NEW R, WellFormed(R), NEW w \in Workers,
           AssignmentStep(w) \/ ItemStep(w) \/ Fail(w)
    PROVE  \A v \in Workers \ {w} : req'[v] = req[v]
<1>1. ASSUME Ends(w) \/ \E r : Starts(w, r)
      PROVE  \A v \in Workers \ {w} : req'[v] = req[v]
  BY <1>1 DEF WellFormed, Ends, Starts
<1>2. CASE AssignmentStep(w)
  <2>1. CASE \/ \E i \in Items, e \in Targets : CreateRead(w, i, e)
             \/ \E a \in Assignments :
                   \/ \E e \in Employees : ReassignRead(w, a, e)
                   \/ HandoverRead(w, a) \/ RequestReturnRead(w, a)
                   \/ SignedReturnRead(w, a) \/ RemoveAssignmentRead(w, a)
                   \/ \E i \in ItemEdits, e \in EmployeeEdits, act \in IsActiveEdits, ret \in ReturnedEdits :
                         UpdateAssignmentRead(w, a, i, e, act, ret)
    BY <1>1, <2>1
       DEF CreateRead, ReassignRead, HandoverRead, RequestReturnRead, SignedReturnRead,
           RemoveAssignmentRead, UpdateAssignmentRead
  <2>2. CASE \/ \E a \in Assignments : CreateCommit(w, a)
             \/ HandoverCommit(w) \/ RequestReturnWrite(w) \/ SignedReturnCommit(w)
             \/ UpdateAssignmentWrite(w) \/ RemoveAssignmentWrite(w)
    BY <1>1, <2>2
       DEF CreateCommit, HandoverCommit, RequestReturnWrite, SignedReturnCommit,
           UpdateAssignmentWrite, RemoveAssignmentWrite
  <2> QED
    BY <1>2, <2>1, <2>2 DEF AssignmentStep
<1> QED
  BY <1>2, ItemStepOfOneWorker DEF WellFormed

(* The handlers of the two components, and failures, keep the form. *)
LEMMA AssignmentsKeepForm ==
    ASSUME NEW R, AssignmentRequestsIn(R), WellFormed(R), NEW w \in Workers,
           \/ AssignmentStep(w)
           \/ ItemStep(w) /\ UNCHANGED asg
           \/ Fail(w) /\ UNCHANGED <<item, asg>>
    PROVE  WellFormed(R)'
<1>1. \A v \in Workers \ {w} : req'[v] = req[v]
  BY OthersKept
<1>2. /\ item \in [Items -> ItemRow] /\ req \in [Workers -> R] /\ ItemRequestsIn(R)
  BY DEF WellFormed, AssignmentRequestsIn
<1>3. asg' = asg \/ WritesOneRow(R)
  BY OneRowAtATime
<1>4. AssignmentsStay
  BY <1>3, WrittenStays
<1>5. item' \in [Items -> ItemRow] /\ req' \in [Workers -> R]
  BY <1>2, AssignmentHandlersTyped, ItemHandlersTyped, EndsTyped DEF Fail
<1>6. NamesWritten(w)'
  <2>e. ASSUME req'[w] = Idle PROVE NamesWritten(w)'
    BY <2>e DEF Idle, NamesWritten
  <2>n. ASSUME req'[w].op \notin Naming PROVE NamesWritten(w)'
    BY <2>n DEF NamesWritten, Naming
  <2>w. ASSUME NEW a \in Assignments, Written(a), req'[w].asg = a PROVE NamesWritten(w)'
    BY <1>4, <2>w DEF NamesWritten, AssignmentsStay
  <2>1. CASE \/ \E i \in Items, e \in Targets : CreateRead(w, i, e)
             \/ \E a \in Assignments, e \in Employees : ReassignRead(w, a, e)
    BY <1>2, <2>1, <2>n DEF CreateRead, ReassignRead, Starts, Naming
  <2>2. CASE \E a \in Assignments :
                 \/ HandoverRead(w, a) \/ RequestReturnRead(w, a)
                 \/ SignedReturnRead(w, a) \/ RemoveAssignmentRead(w, a)
                 \/ \E i \in ItemEdits, e \in EmployeeEdits, act \in IsActiveEdits, ret \in ReturnedEdits :
                       UpdateAssignmentRead(w, a, i, e, act, ret)
    BY <1>2, <2>2, <2>w
       DEF HandoverRead, RequestReturnRead, SignedReturnRead, RemoveAssignmentRead,
           UpdateAssignmentRead, InScope, Starts
  <2>3. CASE \/ \E a \in Assignments : CreateCommit(w, a)
             \/ HandoverCommit(w) \/ RequestReturnWrite(w) \/ SignedReturnCommit(w)
             \/ UpdateAssignmentWrite(w) \/ RemoveAssignmentWrite(w)
             \/ UpdateItemWrite(w) \/ RemoveItemWrite(w) \/ Fail(w)
    BY <1>2, <2>e, <2>3
       DEF CreateCommit, HandoverCommit, RequestReturnWrite, SignedReturnCommit,
           UpdateAssignmentWrite, RemoveAssignmentWrite, UpdateItemWrite, RemoveItemWrite,
           Fail, Ends
  <2>4. CASE \/ \E i \in Items, s \in StatusEdits, f \in FunctionalEdits,
                   a \in AssignmentEdits, act \in ActiveEdits : UpdateItemRead(w, i, s, f, a, act)
             \/ \E i \in Retirements : RemoveItemRead(w, i)
    BY <1>2, <2>4, <2>n DEF UpdateItemRead, RemoveItemRead, Starts, Naming
  <2> QED
    BY <2>1, <2>2, <2>3, <2>4 DEF AssignmentStep, ItemStep
<1> QED
  BY <1>1, <1>4, <1>5, <1>6, FormKept

(* "Only one active assignment per asset item": the two unique indexes,    *)
(* checked on every write, are all it takes, for any interleaving.         *)
LEMMA OneTenantKept ==
    ASSUME NEW R, WellFormed(R), OneTenant, asg' = asg \/ WritesOneRow(R)
    PROVE  OneTenant'
<1>1. CASE asg' = asg
  BY <1>1 DEF OneTenant, IsOpen
<1>2. ASSUME NEW c \in Assignments, NEW row \in AssignmentRow, RowWritten(R, c, row)
      PROVE  OneTenant'
  <2> SUFFICES ASSUME NEW a \in Assignments, NEW b \in Assignments,
                      a # b, asg'[a].item = asg'[b].item
               PROVE  /\ ~(asg'[a].active /\ asg'[b].active)
                      /\ ~(asg'[a].status \in Open /\ asg'[b].status \in Open)
    BY DEF OneTenant, IsOpen
  <2>1. \A x \in Assignments : asg'[x] = IF x = c THEN row ELSE asg[x]
    BY <1>2 DEF WellFormed, RowWritten
  <2>2. CASE a = c
    BY <1>2, <2>1, <2>2 DEF RowWritten, IndexAllows, IsOpen
  <2>3. CASE b = c
    BY <1>2, <2>1, <2>3 DEF RowWritten, IndexAllows, IsOpen
  <2>4. CASE a # c /\ b # c
    BY <2>1, <2>4 DEF OneTenant, IsOpen
  <2> QED
    BY <2>2, <2>3, <2>4
<1> QED
  BY <1>1, <1>2 DEF WritesOneRow

-----------------------------------------------------------------------------
(* The assignment component by itself: its requests ... *)
OwnRequests == {Idle} \cup ItemRequest \cup AssignmentRequest

LEMMA OwnRequestsKnown == AssignmentRequestsIn(OwnRequests)
<1>1. ASSUME NEW r \in OwnRequests
      PROVE  /\ r.op = "UpdateItem" =>
                  /\ r.item \in Items /\ r.functional \in FunctionalStatus
                  /\ r.status \in ItemStatus \cup {Keep}
                  /\ r.assignment \in AssignmentStatus \cup {Keep}
                  /\ r.active \in BOOLEAN \cup {Keep}
             /\ r.op = "RemoveItem" => r.item \in Items /\ r.loaded \in ItemRow
             /\ r.op = "CreateAssignment" => r.item \in Items /\ r.who \in Assignees
             /\ r.op = "Handover" => r.asg \in Assignments /\ r.item \in Items
             /\ r.op \in {"RequestReturn", "RemoveAssignment"} => r.asg \in Assignments
             /\ r.op = "SignedReturn" => /\ r.asg \in Assignments /\ r.item \in Items
                                         /\ r.next \in {"Maintenance", "Available"}
             /\ r.op = "UpdateAssignment" =>
                  /\ r.asg \in Assignments
                  /\ r.item \in Items \cup {Keep}
                  /\ r.who \in Assignees \cup {Keep}
                  /\ r.active \in BOOLEAN \cup {Keep}
                  /\ r.returned \in BOOLEAN \cup {Keep}
  <2>1. CASE r = Idle
    BY <2>1 DEF Idle
  <2>2. CASE r \in [op: {"UpdateItem"}, item: Items, functional: FunctionalStatus,
                    status: ItemStatus \cup {Keep}, assignment: AssignmentStatus \cup {Keep},
                    active: BOOLEAN \cup {Keep}]
    BY <2>2
  <2>3. CASE r \in [op: {"RemoveItem"}, item: Items, loaded: ItemRow]
    BY <2>3
  <2>4. CASE r \in [op: {"CreateAssignment"}, item: Items, who: Assignees]
    BY <2>4
  <2>5. CASE r \in [op: {"Handover"}, asg: Assignments, item: Items]
    BY <2>5
  <2>6. CASE r \in [op: {"RequestReturn", "RemoveAssignment"}, asg: Assignments]
    BY <2>6
  <2>7. CASE r \in [op: {"SignedReturn"}, asg: Assignments, item: Items,
                    next: {"Maintenance", "Available"}]
    BY <2>7
  <2>8. CASE r \in [op: {"UpdateAssignment"}, asg: Assignments,
                    item: Items \cup {Keep}, who: Assignees \cup {Keep},
                    active: BOOLEAN \cup {Keep}, returned: BOOLEAN \cup {Keep}]
    BY <2>8
  <2> QED
    BY <2>1, <2>2, <2>3, <2>4, <2>5, <2>6, <2>7, <2>8
       DEF OwnRequests, ItemRequest, AssignmentRequest
<1>2. ItemRequestsIn(OwnRequests)
  BY <1>1, ItemConstants DEF ItemRequestsIn, OwnRequests, ItemRequest
<1> QED
  BY <1>1, <1>2, AssignmentConstants DEF AssignmentRequestsIn, OwnRequests, AssignmentRequest

LEMMA TypesAreForm == AssignmentTypeOK <=> WellFormed(OwnRequests)
  BY DEF AssignmentTypeOK, WellFormed, OwnRequests

-----------------------------------------------------------------------------
(* Type correctness: in every reachable state documents and requests have  *)
(* their fields and a request in progress names a document that exists.    *)
LEMMA FormInit ==
    ASSUME NEW R, Idle \in R, AInit
    PROVE  WellFormed(R) /\ OneTenant
<1>1. \A o \in Offices : InOffice(o) \in Holders
  BY DEF InOffice, Holders, Places
<1>2. \A h \in Holders : \A x \in Creatable : NewItem(h, x) \in ItemRow
  BY ItemConstants DEF NewItem, Creatable, ItemRow
<1>3. item \in [Items -> ItemRow]
  BY <1>1, <1>2 DEF AInit, ItemsInit, InStore, Holders, Places
<1>4. WellFormed(R)
  BY <1>3 DEF AInit, ItemsInit, AssignmentsInit, WellFormed, NamesWritten, Idle
<1>5. OneTenant
  BY DEF AInit, AssignmentsInit, OneTenant, IsOpen, Unwritten, Open
<1> QED
  BY <1>4, <1>5

LEMMA TypeInit == AInit => AssignmentTypeOK
  BY FormInit, TypesAreForm DEF OwnRequests

(* Every step, of either kind of handler or a failure, keeps the types. *)
LEMMA TypeStep == AssignmentTypeOK /\ [ANext]_avars => AssignmentTypeOK'
<1> DEFINE R == OwnRequests
<1>0. AssignmentTypeOK' <=> WellFormed(R)'
  BY TypesAreForm, PTL
<1>1. ASSUME WellFormed(R), ANext PROVE WellFormed(R)'
  BY <1>1, OwnRequestsKnown, AssignmentsKeepForm DEF ANext
<1>2. ASSUME WellFormed(R), UNCHANGED avars PROVE WellFormed(R)'
  BY <1>2 DEF avars, WellFormed, NamesWritten, Written
<1> QED
  BY <1>0, <1>1, <1>2, TypesAreForm

(* The type invariant holds of every behaviour of the component. *)
THEOREM TypeCorrect == ASpec => []AssignmentTypeOK
  BY TypeInit, TypeStep, PTL DEF ASpec

(* What a step of the whole component does to the assignments. *)
LEMMA StepWritesOneRow ==
    ASSUME AssignmentTypeOK, [ANext]_avars
    PROVE  asg' = asg \/ WritesOneRow(OwnRequests)
<1>1. WellFormed(OwnRequests) /\ AssignmentRequestsIn(OwnRequests)
  BY TypesAreForm, OwnRequestsKnown
<1> QED
  BY <1>1, OneRowAtATime DEF ANext, avars

-----------------------------------------------------------------------------
(* No item is ever given out twice, however requests interleave. *)
LEMMA OneTenantStep ==
    ASSUME AssignmentTypeOK, OneTenant, [ANext]_avars
    PROVE  OneTenant'
  BY StepWritesOneRow, TypesAreForm, OneTenantKept

THEOREM OneTenantAlways == ASpec => []OneTenant
<1>1. AInit => OneTenant
  BY FormInit DEF OwnRequests
<1> QED
  BY <1>1, OneTenantStep, TypeCorrect, PTL DEF ASpec

(* What a row written says of the status. *)
LEMMA RowFollows ==
    ASSUME AssignmentTypeOK, NEW a \in Assignments, NEW row \in AssignmentRow,
           RowWritten(OwnRequests, a, row)
    PROVE  /\ row.status = asg[a].status \/ <<asg[a].status, row.status>> \in Lifecycle
           /\ \/ asg[a].status = "NONE" \/ row.item = asg[a].item
              \/ row.status = asg[a].status
<1>1. CASE Opened(a, row)
  BY <1>1 DEF Opened, Lifecycle
<1>2. CASE Moved(a, row)
  BY <1>2 DEF Moved
<1>3. ASSUME NEW r \in OwnRequests, EditedBy(r, a, row)
      PROVE  row.status = asg[a].status
  BY <1>3 DEF EditedBy, AssignmentTypeOK, AssignmentRow, Unwritten
<1> QED
  BY <1>1, <1>2, <1>3 DEF RowWritten

(* Every status change follows the lifecycle. *)
THEOREM LifecycleFollowed == ASpec => FollowsLifecycle
<1>1. ASSUME AssignmentTypeOK, [ANext]_avars
      PROVE  [\A a \in Assignments : asg'[a].status # asg[a].status
                => <<asg[a].status, asg'[a].status>> \in Lifecycle]_avars
  BY <1>1, StepWritesOneRow, RowFollows DEF AssignmentTypeOK, WritesOneRow, RowWritten
<1> QED
  BY <1>1, TypeCorrect, PTL DEF ASpec, FollowsLifecycle

-----------------------------------------------------------------------------
(* The assignment component implements the abstract tenancies. *)
LEMMA TenancyInit == AInit => Tenancies!Init
  BY DEF AInit, AssignmentsInit, Tenancies!Init, IsOpen, Unwritten, Open, Closed

(* A new row begins a tenancy, a closed one ends it, an edit of the item   *)
(* moves it, and every other write is invisible.                           *)
LEMMA TenancyStep ==
    ASSUME AssignmentTypeOK, OneTenant, [ANext]_avars
    PROVE  [Tenancies!Next]_(Tenancies!vars)
<1> DEFINE Ten == {p \in Items \X Assignments : IsOpen(p[2]) /\ asg[p[2]].item = p[1]}
           Over == {x \in Assignments : asg[x].status \in Closed}
<1>s. ASSUME Ten' = Ten, Over' = Over
      PROVE  [Tenancies!Next]_(Tenancies!vars)
  BY <1>s DEF Tenancies!vars
<1>1. CASE asg' = asg
  <2>1. Ten' = Ten /\ Over' = Over
    BY <1>1 DEF IsOpen
  <2> QED
    BY <1>s, <2>1
<1>2. ASSUME NEW a \in Assignments, NEW row \in AssignmentRow, RowWritten(OwnRequests, a, row)
      PROVE  [Tenancies!Next]_(Tenancies!vars)
  <2> DEFINE old == asg[a]
  <2>1. \A x \in Assignments : asg'[x] = IF x = a THEN row ELSE asg[x]
    BY <1>2 DEF AssignmentTypeOK, RowWritten
  <2>2. /\ row.item \in Items /\ row.status \in Open \cup Closed
        /\ Open \cap Closed = {} /\ "NONE" \notin Open \cup Closed
        /\ \A x \in Assignments : asg[x].item \in Items \/ asg[x].status = "NONE"
    BY DEF AssignmentTypeOK, AssignmentRow, Open, Closed, Unwritten
  <2>3. \A i \in Items, x \in Assignments :
           /\ <<i, x>> \in Ten <=> asg[x].status \in Open /\ asg[x].item = i
           /\ <<i, x>> \in Ten' <=> asg'[x].status \in Open /\ asg'[x].item = i
    BY DEF IsOpen
  <2>4. ASSUME row.status \in Open, old.status \notin Open \/ row.item # old.item
        PROVE  Tenancies!Free(row.item)
    BY <1>2, <2>2, <2>3, <2>4 DEF RowWritten, IndexAllows, IsOpen, Tenancies!Free
  <2>5. CASE old.status = "NONE"
    <3>1. row.status = "DRAFT"
      BY <1>2, <2>2, <2>5, RowFollows DEF Lifecycle
    <3>2. row.status \in Open /\ old.status \notin Open \cup Closed
      BY <2>2, <2>5, <3>1 DEF Open
    <3>3. Tenancies!Unused(a)
      BY <2>3, <3>2 DEF Tenancies!Unused
    <3>4. Ten' = Ten \cup {<<row.item, a>>} /\ Over' = Over
      BY <2>1, <2>2, <3>2 DEF IsOpen
    <3>5. Tenancies!Begin(row.item, a)
      BY <2>4, <3>2, <3>3, <3>4 DEF Tenancies!Begin
    <3> QED
      BY <2>2, <3>5 DEF Tenancies!Next
  <2>6. CASE old.status \in Open /\ row.status \in Closed
    <3>1. row.item = old.item /\ old.item \in Items
      BY <1>2, <2>2, <2>6, RowFollows
    <3>2. /\ <<old.item, a>> \in Ten
          /\ Ten' = Ten \ {<<old.item, a>>}
          /\ Over' = Over \cup {a}
      BY <2>1, <2>2, <2>6, <3>1 DEF IsOpen
    <3>3. Tenancies!End(old.item, a)
      BY <3>2 DEF Tenancies!End
    <3> QED
      BY <3>1, <3>3 DEF Tenancies!Next
  <2>7. CASE old.status \in Open /\ row.status \in Open /\ row.item # old.item
    <3>1. old.item \in Items
      BY <2>2, <2>7
    <3>2. /\ <<old.item, a>> \in Ten
          /\ Ten' = (Ten \ {<<old.item, a>>}) \cup {<<row.item, a>>}
          /\ Over' = Over
      BY <2>1, <2>2, <2>7, <3>1 DEF IsOpen
    <3>3. Tenancies!Move(old.item, row.item, a)
      BY <2>4, <2>7, <3>2 DEF Tenancies!Move
    <3> QED
      BY <2>2, <3>1, <3>3 DEF Tenancies!Next
  <2>8. CASE old.status \in Open /\ row.status \in Open /\ row.item = old.item
    <3>1. Ten' = Ten /\ Over' = Over
      BY <2>1, <2>2, <2>8 DEF IsOpen
    <3> QED
      BY <1>s, <3>1
  <2>9. CASE old.status \in Closed
    <3>1. row.status \in Closed
      BY <1>2, <2>9, RowFollows DEF Lifecycle, Closed
    <3>2. Ten' = Ten /\ Over' = Over
      BY <2>1, <2>2, <2>9, <3>1 DEF IsOpen
    <3> QED
      BY <1>s, <3>2
  <2>10. old.status \in {"NONE"} \cup Open \cup Closed
    BY DEF AssignmentTypeOK, AssignmentRow, Unwritten
  <2> QED
    BY <2>2, <2>5, <2>6, <2>7, <2>8, <2>9, <2>10
<1> QED
  BY <1>1, <1>2, StepWritesOneRow DEF WritesOneRow

(* Refinement: under the mapping that forgets everything but which open    *)
(* assignment names which item, every behaviour of the handlers is one of  *)
(* the abstract tenancies.                                                 *)
THEOREM ImplementsTenancy == ASpec => KeepsTenancy
<1>1. AssignmentTypeOK /\ OneTenant /\ [ANext]_avars => [Tenancies!Next]_(Tenancies!vars)
  BY TenancyStep
<1> QED
  BY <1>1, TenancyInit, TypeCorrect, OneTenantAlways, PTL
     DEF ASpec, KeepsTenancy, Tenancies!Spec

-----------------------------------------------------------------------------
(* Items that need repair.  What a handler writes to an item it decided on *)
(* the item as it read it, so the promise rests on no two requests being   *)
(* about to write the same item; requests about different items overlap as *)
(* they like, and so do those that write assignments only.                 *)
ItemWriters == {"Handover", "SignedReturn", "UpdateItem", "RemoveItem"}

OneWriterPerItem ==
    \A v, w \in Workers : /\ req[v].op \in ItemWriters /\ req[w].op \in ItemWriters
                          /\ req[v].item = req[w].item
                          => v = w

(* Edits and new items have no status that goes with every functional one; *)
(* with one of these PUT, and then a signed return slip, breaks the promise. *)
NoLooseStatuses ==
    /\ StatusEdits \cap {"Transferred", "InTransit", "Damaged"} = {}
    /\ \A x \in NewStates : x.status \notin {"Transferred", "InTransit", "Damaged"}

(* The statuses left to items then *)
Settled == {"Available", "Assigned", "Maintenance", "Retired"}

SettledRow(x) == /\ x.status \in Settled
                 /\ x.active /\ x.functional = "Needs Repair" => x.status = "Maintenance"

(* What the request r was decided on is still so of its item x. *)
Decided(r, x) ==
    /\ r.op = "Handover" => x.functional = "Functional"
    /\ r.op = "SignedReturn" => (x.status = "Maintenance" => r.next = "Maintenance")
    /\ r.op = "UpdateItem" => Edited(x.status, r.status) \in AllowedStatuses[r.functional]
    /\ r.op = "RemoveItem" => r.loaded = x

CustodyInv ==
    /\ \A i \in Items : SettledRow(item[i])
    /\ \A w \in Workers : req[w].op \in ItemWriters => Decided(req[w], item[req[w].item])

LEMMA ItemWriterFields ==
    ASSUME NEW R, AssignmentRequestsIn(R), NEW r \in R, r.op \in ItemWriters
    PROVE  r.item \in Items
  BY DEF AssignmentRequestsIn, ItemRequestsIn, ItemWriters

(* Each item write makes a settled row of a settled row, if what its       *)
(* request was decided on is still so.                                     *)
WrittenBy(r, x) ==
    CASE r.op = "Handover" -> [x EXCEPT !.assignment = "Assigned", !.status = "Assigned"]
      [] r.op = "SignedReturn" -> [x EXCEPT !.assignment = "Unassigned", !.status = r.next]
      [] r.op = "UpdateItem" -> EditedRow(x, r)
      [] r.op = "RemoveItem" -> RetiredRow(x, r.loaded)

LEMMA WritesSettledRow ==
    ASSUME NEW r \in OwnRequests, r.op \in ItemWriters, NEW x \in ItemRow,
           SettledRow(x), Decided(r, x)
    PROVE  SettledRow(WrittenBy(r, x))
<1>k. AssignmentRequestsIn(OwnRequests)
  BY OwnRequestsKnown
<1>1. CASE r.op = "Handover"
  BY <1>1 DEF WrittenBy, SettledRow, Settled, Decided, ItemRow
<1>2. CASE r.op = "SignedReturn"
  BY <1>2, <1>k DEF WrittenBy, SettledRow, Settled, Decided, ItemRow, AssignmentRequestsIn
<1>3. CASE r.op = "UpdateItem"
  <2>1. /\ WrittenBy(r, x).functional = r.functional /\ r.functional \in FunctionalStatus
        /\ WrittenBy(r, x).status = Edited(x.status, r.status)
    BY <1>3, <1>k DEF WrittenBy, EditedRow, ItemRow, AssignmentRequestsIn, ItemRequestsIn
  <2>2. WrittenBy(r, x).status \in AllowedStatuses[r.functional]
    BY <1>3, <2>1 DEF Decided
  <2> QED
    BY <2>1, <2>2 DEF SettledRow, Settled, AllowedStatuses, FunctionalStatus
<1>4. CASE r.op = "RemoveItem"
  <2>1. WrittenBy(r, x) = RetiredRow(x, x)
    BY <1>4 DEF WrittenBy, Decided
  <2>2. ~RetiredRow(x, x).active /\ RetiredRow(x, x).status \in Settled
    BY DEF RetiredRow, Saved, ItemRow, SettledRow, Settled
  <2> QED
    BY <2>1, <2>2 DEF SettledRow
<1> QED
  BY <1>1, <1>2, <1>3, <1>4 DEF ItemWriters

(* A step writes no item, or the one the request that ends is about. *)
LEMMA ItemWrite ==
    ASSUME NEW R, AssignmentRequestsIn(R), WellFormed(R), NEW w \in Workers,
           AssignmentStep(w) \/ ItemStep(w)
    PROVE  \/ item' = item
           \/ /\ req[w].op \in ItemWriters /\ req' = [req EXCEPT ![w] = Idle]
              /\ item' = [item EXCEPT ![req[w].item] = WrittenBy(req[w], item[req[w].item])]
<1>t. item \in [Items -> ItemRow] /\ req \in [Workers -> R] /\ req[w] \in R
  BY DEF WellFormed
<1>1. CASE \/ \E i \in Items, e \in Targets : CreateRead(w, i, e)
           \/ \E a \in Assignments :
                 \/ \E e \in Employees : ReassignRead(w, a, e)
                 \/ CreateCommit(w, a) \/ HandoverRead(w, a) \/ RequestReturnRead(w, a)
                 \/ SignedReturnRead(w, a) \/ RemoveAssignmentRead(w, a)
                 \/ \E i \in ItemEdits, e \in EmployeeEdits, act \in IsActiveEdits, ret \in ReturnedEdits :
                       UpdateAssignmentRead(w, a, i, e, act, ret)
           \/ RequestReturnWrite(w) \/ UpdateAssignmentWrite(w) \/ RemoveAssignmentWrite(w)
  BY <1>1 DEF CreateRead, ReassignRead, CreateCommit, HandoverRead, RequestReturnRead,
              SignedReturnRead, RemoveAssignmentRead, UpdateAssignmentRead, RequestReturnWrite,
              UpdateAssignmentWrite, RemoveAssignmentWrite
<1>2. CASE HandoverCommit(w) \/ SignedReturnCommit(w) \/ UpdateItemWrite(w) \/ RemoveItemWrite(w)
  <2>1. req[w].op \in ItemWriters /\ Ends(w)
    BY <1>2 DEF HandoverCommit, SignedReturnCommit, UpdateItemWrite, RemoveItemWrite, Serving,
                ItemWriters
  <2>2. req[w].item \in Items
    BY <1>t, <2>1, ItemWriterFields
  <2>3. item' = [item EXCEPT ![req[w].item] = WrittenBy(req[w], item[req[w].item])]
    BY <1>2, <1>t, <2>2 DEF HandoverCommit, SignedReturnCommit, UpdateItemWrite, RemoveItemWrite,
                            Serving, WrittenBy
  <2> QED
    BY <2>1, <2>3 DEF Ends
<1>3. ASSUME NEW i, NEW s, NEW f, NEW a, NEW act, UpdateItemRead(w, i, s, f, a, act)
      PROVE  item' = item
  BY <1>3 DEF UpdateItemRead
<1>4. ASSUME NEW i, RemoveItemRead(w, i)
      PROVE  item' = item
  BY <1>4 DEF RemoveItemRead
<1> QED
  BY <1>1, <1>2, <1>3, <1>4 DEF AssignmentStep, ItemStep

(* A request that starts is decided on its item as it is. *)
LEMMA DecidedAtStart ==
    ASSUME AssignmentTypeOK, CustodyInv, NEW w \in Workers,
           NoLooseStatuses,
           AssignmentStep(w) \/ ItemStep(w), item' = item
    PROVE  req'[w].op \in ItemWriters => Decided(req'[w], item[req'[w].item])
<1>t. /\ item \in [Items -> ItemRow] /\ req \in [Workers -> OwnRequests] /\ req[w] \in OwnRequests
      /\ asg \in [Assignments -> AssignmentRow \cup {Unwritten}]
  BY TypesAreForm DEF WellFormed
<1> DEFINE Goal == req'[w].op \in ItemWriters => Decided(req'[w], item[req'[w].item])
<1>1. CASE \/ \E i \in Items, e \in Targets : CreateRead(w, i, e)
           \/ \E a \in Assignments :
                 \/ \E e \in Employees : ReassignRead(w, a, e)
                 \/ RequestReturnRead(w, a) \/ RemoveAssignmentRead(w, a)
                 \/ \E i \in ItemEdits, e \in EmployeeEdits, act \in IsActiveEdits, ret \in ReturnedEdits :
                       UpdateAssignmentRead(w, a, i, e, act, ret)
  BY <1>1, <1>t DEF CreateRead, ReassignRead, RequestReturnRead, RemoveAssignmentRead,
                    UpdateAssignmentRead, Starts, ItemWriters
<1>2. ASSUME Ends(w) PROVE Goal
  BY <1>2, <1>t DEF Ends, Idle, ItemWriters
<1>3. ASSUME NEW a \in Assignments, HandoverRead(w, a)
      PROVE  Goal
  BY <1>3, <1>t DEF HandoverRead, Assignable, Starts, Decided
<1>4. ASSUME NEW a \in Assignments, SignedReturnRead(w, a)
      PROVE  Goal
  BY <1>4, <1>t DEF SignedReturnRead, Starts, Decided
<1>5. ASSUME NEW i \in Items, NEW s \in StatusEdits, NEW f \in FunctionalEdits,
             NEW a \in AssignmentEdits, NEW act \in ActiveEdits,
             UpdateItemRead(w, i, s, f, a, act)
      PROVE  Goal
  <2> DEFINE f2 == IF f = Keep THEN item[i].functional ELSE f
             candidate == IF s = Keep THEN item[i].status ELSE s
             s2 == IF s = Keep /\ ~CombinationOk(candidate, f2)
                     THEN DefaultStatus[f2] ELSE candidate
             st == IF s = Keep /\ s2 = item[i].status THEN Keep ELSE s2
             r == [op |-> "UpdateItem", item |-> i, functional |-> f2, status |-> st,
                   assignment |-> a, active |-> act]
  <2>1. f2 \in FunctionalStatus
    BY <1>t, ItemConstants DEF ItemRow
  <2>2. CombinationOk(s2, f2) /\ Starts(w, r)
    BY <1>5 DEF UpdateItemRead
  <2>3. candidate \notin {"Transferred", "InTransit", "Damaged"}
    BY DEF NoLooseStatuses, CustodyInv, SettledRow, Settled
  <2>4. DefaultStatus[f2] \notin {"Transferred", "InTransit", "Damaged"}
    BY <2>1 DEF DefaultStatus, FunctionalStatus
  <2>5. s2 \in AllowedStatuses[f2]
    BY <2>2, <2>3, <2>4 DEF CombinationOk
  <2>6. Edited(item[i].status, st) = s2
    BY ItemConstants, <2>1, <2>2, <2>5 DEF Edited, AllowedStatuses, FunctionalStatus, ItemStatus
  <2>7. req'[w] = r
    BY <1>t, <2>2 DEF Starts
  <2>8. Decided(r, item[i])
    BY <2>5, <2>6 DEF Decided
  <2> QED
    BY <2>7, <2>8
<1>6. ASSUME NEW i \in Retirements, RemoveItemRead(w, i)
      PROVE  Goal
  BY <1>6, <1>t DEF RemoveItemRead, Starts, Decided
<1> QED
  BY <1>1, <1>2, <1>3, <1>4, <1>5, <1>6
     DEF AssignmentStep, ItemStep, CreateCommit, HandoverCommit, RequestReturnWrite,
         SignedReturnCommit, UpdateAssignmentWrite, RemoveAssignmentWrite, UpdateItemWrite,
         RemoveItemWrite

LEMMA CustodyStep ==
    ASSUME AssignmentTypeOK, CustodyInv, OneWriterPerItem, [ANext]_avars,
           NoLooseStatuses
    PROVE  CustodyInv'
<1>t. /\ item \in [Items -> ItemRow] /\ req \in [Workers -> OwnRequests]
      /\ WellFormed(OwnRequests) /\ AssignmentRequestsIn(OwnRequests)
  BY TypesAreForm, OwnRequestsKnown DEF WellFormed
<1>1. CASE UNCHANGED avars
  BY <1>1 DEF avars, CustodyInv
<1>2. ASSUME NEW w \in Workers, AssignmentStep(w) \/ ItemStep(w) \/ (Fail(w) /\ item' = item)
      PROVE  CustodyInv'
  <2>o. \A v \in Workers \ {w} : req'[v] = req[v]
    BY <1>2, <1>t, OthersKept
  <2>1. CASE item' = item
    <3>1. req'[w].op \in ItemWriters => Decided(req'[w], item[req'[w].item])
      BY <1>2, <1>t, <2>1, DecidedAtStart DEF Fail, Ends, Idle, ItemWriters
    <3> QED
      BY <2>1, <2>o, <3>1 DEF CustodyInv
  <2>2. CASE /\ req[w].op \in ItemWriters /\ req' = [req EXCEPT ![w] = Idle]
             /\ item' = [item EXCEPT ![req[w].item] = WrittenBy(req[w], item[req[w].item])]
    <3> DEFINE i == req[w].item
    <3>1. i \in Items /\ req[w] \in OwnRequests
      BY <1>t, <2>2, ItemWriterFields
    <3>2. \A j \in Items : item'[j] = IF j = i THEN WrittenBy(req[w], item[i]) ELSE item[j]
      BY <1>t, <2>2, <3>1
    <3>3. SettledRow(WrittenBy(req[w], item[i]))
      BY <1>t, <2>2, <3>1, WritesSettledRow DEF CustodyInv
    <3>4. \A j \in Items : SettledRow(item'[j])
      BY <3>2, <3>3 DEF CustodyInv
    <3>5. ASSUME NEW v \in Workers, req'[v].op \in ItemWriters
          PROVE  Decided(req'[v], item'[req'[v].item])
      <4>1. v # w /\ req'[v] = req[v]
        BY <1>t, <2>2, <3>5 DEF Idle, ItemWriters
      <4>2. req[v].item \in Items /\ req[v].item # i
        BY <1>t, <2>2, <3>5, <4>1, ItemWriterFields DEF OneWriterPerItem
      <4> QED
        BY <3>2, <3>5, <4>1, <4>2 DEF CustodyInv
    <3> QED
      BY <3>4, <3>5 DEF CustodyInv
  <2> QED
    BY <1>2, <1>t, <2>1, <2>2, ItemWrite
<1> QED
  BY <1>1, <1>2 DEF ANext

(* An item in use that needs repair stays out through any sequence of      *)
(* handovers, returns, retirements, revivals and edits, if no two requests *)
(* are about to write the same item (which the code does not rule out) and *)
(* no edit or new item says transferred, in transit or damaged (which the  *)
(* code accepts together with "Needs Repair").                             *)
THEOREM BrokenIsOut ==
    ASSUME NoLooseStatuses
    PROVE  ASpec /\ []OneWriterPerItem => []BrokenStaysOut
<1>1. AInit => CustodyInv
  <2>1. ASSUME AInit
        PROVE  /\ \A i \in Items : \E x \in Creatable : /\ item[i].status = x.status
                                                        /\ item[i].functional = x.functional
               /\ \A w \in Workers : req[w] = Idle
    BY <2>1 DEF AInit, ItemsInit, NewItem
  <2>2. Idle.op \notin ItemWriters
    BY DEF Idle, ItemWriters
  <2>3. ASSUME NEW x \in Creatable
        PROVE  x.status \in Settled /\ (x.functional = "Needs Repair" => x.status = "Maintenance")
    BY ItemConstants
       DEF Creatable, NoLooseStatuses, CombinationOk, AllowedStatuses, FunctionalStatus,
           ItemStatus, Settled
  <2>4. ASSUME AInit PROVE \A i \in Items : SettledRow(item[i])
    BY <2>1, <2>3, <2>4 DEF SettledRow
  <2> QED
    BY <2>1, <2>2, <2>4 DEF CustodyInv
<1>2. CustodyInv => BrokenStaysOut
  BY DEF CustodyInv, SettledRow, BrokenStaysOut
<1> QED
  BY <1>1, <1>2, CustodyStep, TypeCorrect, PTL DEF ASpec

(* So it is when one request is served at a time. *)
COROLLARY BrokenIsOutSerially ==
    ASSUME NoLooseStatuses, \A v, w \in Workers : v = w
    PROVE  ASpec => []BrokenStaysOut
<1>1. OneWriterPerItem
  BY DEF OneWriterPerItem
<1> QED
  BY <1>1, BrokenIsOut, PTL
=============================================================================
