---------------------------- MODULE Custody_proofs ----------------------------
(***************************************************************************)
(* Proofs about the two other components that write items and their        *)
(* assignments: the return requests and the maintenance records, each      *)
(* beside the handlers of the assignment and of the item, whose lemmas     *)
(* they use.                                                               *)
(***************************************************************************)
EXTENDS ReturnRequests, Maintenance, Assignments_proofs, FiniteSetTheorems

-----------------------------------------------------------------------------
(* The requests the assignment handlers start carry what the bounds on the *)
(* bodies let through, and the handlers keep to that.                      *)
BoundedRequests ==
    {r \in OwnRequests :
        /\ r.op = "UpdateItem" => r.assignment \in AssignmentEdits /\ r.active \in ActiveEdits
        /\ r.op = "UpdateAssignment" => /\ r.item \in ItemEdits /\ r.who \in EmployeeEdits
                                        /\ r.active \in IsActiveEdits
                                        /\ r.returned \in ReturnedEdits}

LEMMA BoundedRequestsKnown == AssignmentRequestsIn(BoundedRequests)
<1>k. AssignmentRequestsIn(OwnRequests)
  BY OwnRequestsKnown
<1>1. Idle \in BoundedRequests
  BY <1>k DEF AssignmentRequestsIn, ItemRequestsIn, BoundedRequests, Idle
<1>2. [op: {"UpdateItem"}, item: Items, functional: FunctionalStatus,
       status: ItemStatus \cup {Keep}, assignment: AssignmentEdits,
       active: ActiveEdits] \subseteq BoundedRequests
  BY <1>k DEF AssignmentRequestsIn, ItemRequestsIn, BoundedRequests
<1>3. [op: {"UpdateAssignment"}, asg: Assignments, item: ItemEdits, who: EmployeeEdits,
       active: IsActiveEdits, returned: ReturnedEdits] \subseteq BoundedRequests
  BY <1>k DEF AssignmentRequestsIn, BoundedRequests
<1>4. \A r \in OwnRequests : r.op \notin {"UpdateItem", "UpdateAssignment"} => r \in BoundedRequests
  BY DEF BoundedRequests
<1>5. /\ [op: {"RemoveItem"}, item: Items, loaded: ItemRow] \subseteq BoundedRequests
      /\ [op: {"CreateAssignment"}, item: Items, who: Assignees] \subseteq BoundedRequests
      /\ [op: {"Handover"}, asg: Assignments, item: Items] \subseteq BoundedRequests
      /\ [op: {"RequestReturn", "RemoveAssignment"}, asg: Assignments] \subseteq BoundedRequests
      /\ [op: {"SignedReturn"}, asg: Assignments, item: Items,
          next: {"Maintenance", "Available"}] \subseteq BoundedRequests
  BY <1>4 DEF OwnRequests, ItemRequest, AssignmentRequest
<1>6. BoundedRequests \subseteq OwnRequests
  BY DEF BoundedRequests
<1> QED
  BY <1>k, <1>1, <1>2, <1>3, <1>5, <1>6 DEF AssignmentRequestsIn, ItemRequestsIn

(* Requests of another component, by operations of their own, can be       *)
(* served beside them.                                                     *)
AssignmentOps == {"CreateAssignment"} \cup Naming \cup {"UpdateItem", "RemoveItem"}

LEMMA OtherRequestsToo ==
    ASSUME NEW R, NEW X, AssignmentRequestsIn(R), \A x \in X : x.op \notin AssignmentOps
    PROVE  AssignmentRequestsIn(R \cup X)
<1> DEFINE RX == R \cup X
<1>1. ItemRequestsIn(RX)
  BY DEF AssignmentRequestsIn, ItemRequestsIn, AssignmentOps
<1>2. \A r \in RX :
         /\ r.op = "CreateAssignment" => r.item \in Items /\ r.who \in Assignees
         /\ r.op = "Handover" => r.asg \in Assignments /\ r.item \in Items
         /\ r.op \in {"RequestReturn", "RemoveAssignment"} => r.asg \in Assignments
         /\ r.op = "SignedReturn" => /\ r.asg \in Assignments /\ r.item \in Items
                                     /\ r.next \in {"Maintenance", "Available"}
         /\ r.op = "UpdateAssignment" => /\ r.asg \in Assignments
                                         /\ r.item \in Items \cup {Keep}
                                         /\ r.who \in Assignees \cup {Keep}
                                         /\ r.active \in BOOLEAN \cup {Keep}
                                         /\ r.returned \in BOOLEAN \cup {Keep}
  BY DEF AssignmentRequestsIn, AssignmentOps, Naming
<1> QED
  BY <1>1, <1>2 DEF AssignmentRequestsIn

(* A step of these handlers serves one of their own requests, and starts   *)
(* no request of another component.                                        *)
LEMMA StartsInOwn ==
    ASSUME NEW R, req \in [Workers -> R], NEW w \in Workers,
           AssignmentStep(w) \/ ItemStep(w) \/ Fail(w)
    PROVE  req'[w].op \in AssignmentOps \cup {"Idle"}
<1>1. ASSUME Ends(w)
      PROVE  req'[w].op = "Idle"
  BY <1>1 DEF Ends, Idle
<1>2. CASE \/ \E i \in Items, e \in Targets : CreateRead(w, i, e)
           \/ \E a \in Assignments :
                 \/ \E e \in Employees : ReassignRead(w, a, e)
                 \/ HandoverRead(w, a) \/ RequestReturnRead(w, a)
                 \/ SignedReturnRead(w, a) \/ RemoveAssignmentRead(w, a)
                 \/ \E i \in ItemEdits, e \in EmployeeEdits, act \in IsActiveEdits, ret \in ReturnedEdits :
                       UpdateAssignmentRead(w, a, i, e, act, ret)
  BY <1>2 DEF CreateRead, ReassignRead, HandoverRead, RequestReturnRead, SignedReturnRead,
              RemoveAssignmentRead, UpdateAssignmentRead, Starts, AssignmentOps, Naming
<1>3. ASSUME NEW i, NEW s, NEW f, NEW a, NEW act, UpdateItemRead(w, i, s, f, a, act)
      PROVE  req'[w].op = "UpdateItem"
  BY <1>3 DEF UpdateItemRead, Starts
<1>4. ASSUME NEW i, RemoveItemRead(w, i)
      PROVE  req'[w].op = "RemoveItem"
  BY <1>4 DEF RemoveItemRead, Starts
<1> QED
  BY <1>1, <1>2, <1>3, <1>4
     DEF AssignmentStep, ItemStep, Fail, CreateCommit, HandoverCommit, RequestReturnWrite,
         SignedReturnCommit, UpdateAssignmentWrite, RemoveAssignmentWrite, UpdateItemWrite,
         RemoveItemWrite, AssignmentOps

-----------------------------------------------------------------------------
(* Return requests: type correctness.                                      *)
ReturnsServed == BoundedRequests \cup CreateReturnRequest

LEMMA ReturnsServedKnown ==
    /\ AssignmentRequestsIn(ReturnsServed)
    /\ \A r \in ReturnsServed : r.op = "CreateReturn" =>
          r.who \in Employees /\ r.office \in Offices /\ r.lines \subseteq Items
<1>1. \A r \in CreateReturnRequest : r.op = "CreateReturn"
  BY DEF CreateReturnRequest
<1>2. AssignmentRequestsIn(ReturnsServed)
  BY <1>1, BoundedRequestsKnown, OtherRequestsToo DEF ReturnsServed, AssignmentOps, Naming
<1>3. \A r \in BoundedRequests : r.op # "CreateReturn"
  BY DEF BoundedRequests, OwnRequests, Idle, ItemRequest, AssignmentRequest
<1> QED
  BY <1>2, <1>3 DEF ReturnsServed, CreateReturnRequest

ReturnsForm ==
    /\ WellFormed(ReturnsServed)
    /\ rrq \in [Requests -> ReturnRow \cup {NoRequest}]
    /\ \A r \in Requests : rrq[r].status \notin {"RECEIVED_CONFIRMED", "REJECTED"}

(* A return request that exists is a full row. *)
LEMMA ExistingReturn ==
    ASSUME ReturnsForm, NEW r \in Requests, rrq[r].status # "NONE"
    PROVE  rrq[r] \in ReturnRow /\ rrq[r].lines \subseteq Items /\ rrq[r].who \in Employees
  BY DEF ReturnsForm, NoRequest, ReturnRow

(* The receipt closes assignments and frees items of its lines.            *)
LEMMA ReceiptRows ==
    ASSUME ReturnsForm, NEW r \in Requests, rrq[r].status # "NONE", Receipt(r)
    PROVE  /\ item' \in [Items -> ItemRow] /\ AssignmentsStay
           /\ \A a \in Assignments : a \in Returnable(rrq[r].who, rrq[r].lines) =>
                 /\ asg[a] \in AssignmentRow /\ asg'[a].status = "RETURNED"
                 /\ ~asg'[a].active /\ asg'[a].returned
                 /\ asg'[a].item = asg[a].item /\ asg'[a].to = asg[a].to
                 /\ asg[a].to = rrq[r].who
           /\ \A a \in Assignments \ Returnable(rrq[r].who, rrq[r].lines) : asg'[a] = asg[a]
<1> USE DEF ReturnsForm, WellFormed
<1> DEFINE closing == Returnable(rrq[r].who, rrq[r].lines)
           closed(a) == [asg[a] EXCEPT !.status = "RETURNED", !.active = FALSE, !.returned = TRUE]
<1>1. \A a \in Assignments : asg'[a] = IF a \in closing THEN closed(a) ELSE asg[a]
  BY DEF Receipt
<1>2. \A a \in closing : asg[a] \in AssignmentRow
  BY DEF Returnable, Unwritten
<1>3. \A a \in closing : /\ closed(a) \in AssignmentRow /\ closed(a).status = "RETURNED"
                          /\ ~closed(a).active /\ closed(a).returned
                          /\ closed(a).item = asg[a].item /\ closed(a).to = asg[a].to
  BY <1>2 DEF AssignmentRow, Closed
<1>4. asg' \in [Assignments -> AssignmentRow \cup {Unwritten}]
  BY <1>1, <1>3 DEF Receipt
<1>5. \A a \in Assignments : Written(a) => Written(a)'
  <2>1. \A a \in Assignments : asg'[a] = asg[a] \/ asg'[a].status = "RETURNED"
    <3> HIDE DEF closed
    <3> QED
      BY <1>1, <1>3
  <2> QED
    BY <2>1 DEF Written, Unwritten
<1>6. item' \in [Items -> ItemRow]
  <2> DEFINE freed(i) == [item[i] EXCEPT !.assignment = "Unassigned",
                              !.status = IF @ = "Maintenance" THEN @ ELSE "Available"]
  <2>1. \A i \in Items : freed(i) \in ItemRow
    BY DEF ItemRow, AssignmentStatus, ItemStatus
  <2>2. item' = [i \in Items |-> IF i \in rrq[r].lines THEN freed(i) ELSE item[i]]
    BY DEF Receipt
  <2> HIDE DEF freed
  <2> QED
    BY <2>1, <2>2
<1>7. \A a \in closing : asg[a].to = rrq[r].who
  BY DEF Receipt, Valid, Returnable
<1> HIDE DEF closed
<1> QED
  BY <1>1, <1>2, <1>3, <1>4, <1>5, <1>6, <1>7 DEF AssignmentsStay, Returnable

(* The effect of a step of the return handlers on the request documents. *)
LEMMA ReturnStepForm ==
    ASSUME ReturnsForm, ReturnStep
    PROVE  ReturnsForm' /\ AssignmentsStay
<1> DEFINE R == ReturnsServed
<1>k. AssignmentRequestsIn(R) /\ ItemRequestsIn(R)
  BY ReturnsServedKnown DEF AssignmentRequestsIn
<1>t. /\ item \in [Items -> ItemRow] /\ req \in [Workers -> R]
      /\ asg \in [Assignments -> AssignmentRow \cup {Unwritten}]
      /\ \A w \in Workers : NamesWritten(w)
      /\ rrq \in [Requests -> ReturnRow \cup {NoRequest}]
      /\ \A r \in Requests : rrq[r].status \notin {"RECEIVED_CONFIRMED", "REJECTED"}
  BY DEF ReturnsForm, WellFormed
<1>s. asg' = asg => AssignmentsStay
  BY <1>t DEF AssignmentsStay, Written
<1>1. ASSUME NEW w \in Workers, NEW e \in Employees, NEW o \in Offices, NEW lines \in ReturnLines,
             CreateReturnRead(w, e, o, lines)
      PROVE  ReturnsForm' /\ AssignmentsStay
  <2> DEFINE c == [op |-> "CreateReturn", who |-> e, office |-> o, lines |-> lines]
  <2>1. c \in R
    BY ReturnConstants DEF ReturnsServed, CreateReturnRequest
  <2>2. Starts(w, c) /\ UNCHANGED <<item, asg, rrq>>
    BY <1>1 DEF CreateReturnRead
  <2>3. req' \in [Workers -> R] /\ \A v \in Workers \ {w} : req'[v] = req[v]
    BY <1>t, <2>1, <2>2, StartsTyped DEF Starts
  <2>4. NamesWritten(w)'
    BY <1>t, <2>2 DEF Starts, NamesWritten
  <2>5. WellFormed(R)'
    BY <1>k, <1>s, <1>t, <2>2, <2>3, <2>4, FormKept DEF ReturnsForm
  <2> QED
    BY <1>s, <1>t, <2>2, <2>5 DEF ReturnsForm
<1>2. ASSUME NEW w \in Workers, NEW r \in Requests, CreateReturnWrite(w, r)
      PROVE  ReturnsForm' /\ AssignmentsStay
  <2> DEFINE row == [status |-> "SUBMITTED", who |-> req[w].who,
                     office |-> req[w].office, lines |-> req[w].lines]
  <2>1. row \in ReturnRow
    BY <1>2, <1>t, ReturnsServedKnown DEF CreateReturnWrite, Serving, ReturnRow, ReturnStatus
  <2>2. Ends(w) /\ UNCHANGED <<item, asg>> /\ rrq' = [rrq EXCEPT ![r] = row]
    BY <1>2 DEF CreateReturnWrite
  <2>3. req' \in [Workers -> R] /\ \A v \in Workers \ {w} : req'[v] = req[v]
    BY <1>k, <1>t, <2>2, EndsTyped DEF Ends
  <2>4. NamesWritten(w)'
    BY <1>t, <2>2 DEF Ends, Idle, NamesWritten
  <2>5. WellFormed(R)'
    BY <1>k, <1>s, <1>t, <2>2, <2>3, <2>4, FormKept DEF ReturnsForm
  <2>6. rrq' \in [Requests -> ReturnRow \cup {NoRequest}]
    BY <1>t, <2>1, <2>2
  <2>7. \A q \in Requests : rrq'[q].status \notin {"RECEIVED_CONFIRMED", "REJECTED"}
    BY <1>t, <2>2
  <2> QED
    BY <1>s, <2>2, <2>5, <2>6, <2>7 DEF ReturnsForm
<1>r. ASSUME NEW r \in Requests, NEW s \in {"CLOSED_PENDING_SIGNATURE", "CLOSED"},
             rrq[r] \in ReturnRow, rrq' = [rrq EXCEPT ![r].status = s]
      PROVE  /\ rrq' \in [Requests -> ReturnRow \cup {NoRequest}]
             /\ \A q \in Requests : rrq'[q].status \notin {"RECEIVED_CONFIRMED", "REJECTED"}
  <2>1. [rrq[r] EXCEPT !.status = s] \in ReturnRow /\ [rrq[r] EXCEPT !.status = s].status = s
    BY <1>r DEF ReturnRow, ReturnStatus
  <2>2. rrq' = [rrq EXCEPT ![r] = [rrq[r] EXCEPT !.status = s]]
    BY <1>r
  <2> QED
    BY <1>t, <2>1, <2>2
<1>3. ASSUME NEW r \in Requests, Receive(r)
      PROVE  ReturnsForm' /\ AssignmentsStay
  <2>1. rrq[r].status # "NONE" /\ Receipt(r) /\ rrq[r] \in ReturnRow
    BY <1>3, ExistingReturn DEF Receive, ReceiveAllowed
  <2>2. item' \in [Items -> ItemRow] /\ AssignmentsStay /\ UNCHANGED req
    BY <2>1, ReceiptRows DEF Receipt
  <2>3. \A w \in Workers : NamesWritten(w)'
    <3> SUFFICES ASSUME NEW w \in Workers PROVE NamesWritten(w)'
      OBVIOUS
    <3>1. req[w] \in R /\ NamesWritten(w)
      BY <1>t
    <3> QED
      BY <1>k, <2>2, <3>1 DEF NamesWritten, AssignmentsStay, AssignmentRequestsIn
  <2>4. /\ rrq' \in [Requests -> ReturnRow \cup {NoRequest}]
        /\ \A q \in Requests : rrq'[q].status \notin {"RECEIVED_CONFIRMED", "REJECTED"}
    BY <1>r, <2>1 DEF Receipt
  <2> QED
    BY <1>t, <2>2, <2>3, <2>4 DEF ReturnsForm, WellFormed, AssignmentsStay
<1>4. ASSUME NEW r \in Requests, UploadSignedReturn(r)
      PROVE  ReturnsForm' /\ AssignmentsStay
  <2>1. rrq[r] \in ReturnRow /\ UNCHANGED <<item, req, asg>>
    BY <1>4, ExistingReturn DEF UploadSignedReturn, SignedUploadAllowed
  <2>2. /\ rrq' \in [Requests -> ReturnRow \cup {NoRequest}]
        /\ \A q \in Requests : rrq'[q].status \notin {"RECEIVED_CONFIRMED", "REJECTED"}
    BY <1>4, <1>r, <2>1 DEF UploadSignedReturn
  <2> QED
    BY <1>s, <1>t, <2>1, <2>2 DEF ReturnsForm, WellFormed, NamesWritten, Written
<1> QED
  BY <1>1, <1>2, <1>3, <1>4 DEF ReturnStep

LEMMA ReturnFormStep ==
    ASSUME ReturnsForm, [RNext]_rvars
    PROVE  ReturnsForm'
<1>1. ASSUME ANext, UNCHANGED rrq
      PROVE  ReturnsForm'
  BY <1>1, ReturnsServedKnown, AssignmentsKeepForm DEF ReturnsForm, ANext
<1>2. CASE UNCHANGED rvars
  BY <1>2 DEF rvars, ReturnsForm, WellFormed, NamesWritten, Written
<1> QED
  BY <1>1, <1>2, ReturnStepForm DEF RNext

LEMMA ReturnFormInit == RInit => ReturnsForm
<1>1. Idle \in ReturnsServed
  BY ReturnsServedKnown DEF AssignmentRequestsIn, ItemRequestsIn
<1> QED
  BY <1>1, FormInit DEF RInit, ReturnsInit, ReturnsForm, NoRequest

LEMMA ReturnFormHolds == RSpec => []ReturnsForm
  BY ReturnFormInit, ReturnFormStep, PTL DEF RSpec

(* Documents and requests keep their shape, and no handler writes one of   *)
(* the two statuses of the schema that nothing serves.                     *)
THEOREM ReturnTypesHold == RSpec => []ReturnTypeOK
<1>1. ReturnsForm => ReturnTypeOK
  BY DEF ReturnsForm, WellFormed, ReturnTypeOK, ReturnsServed, BoundedRequests, OwnRequests
<1> QED
  BY <1>1, ReturnFormHolds, PTL

-----------------------------------------------------------------------------
(* Receiving.  The handler compares two counts: of the assignments it is   *)
(* about to close and of the lines.  That they agree line by line follows  *)
(* because no two active assignments name the same item.                   *)
LEMMA EveryLineCloses ==
    ASSUME IsFiniteSet(Items), ReturnsForm, OneTenant, NEW r \in Requests, Receive(r),
           NEW i \in rrq[r].lines
    PROVE  \E a \in Returnable(rrq[r].who, rrq[r].lines) : asg[a].item = i
<1> DEFINE lines == rrq[r].lines
           closing == Returnable(rrq[r].who, lines)
           named == [a \in closing |-> asg[a].item]
<1>1. lines \subseteq Items /\ IsFiniteSet(lines)
  BY ExistingReturn, FS_Subset DEF Receive, ReceiveAllowed
<1>2. named \in [closing -> lines]
  BY DEF Returnable
<1>3. \A a, b \in closing : named[a] = named[b] => a = b
  BY DEF Returnable, OneTenant
<1>4. named \in Injection(closing, lines)
  BY <1>2, <1>3 DEF Injection, IsInjective
<1>5. Cardinality(closing) = Cardinality(lines)
  BY DEF Receive
<1>6. named \in Surjection(closing, lines)
  BY <1>1, <1>4, <1>5, FS_Injection
<1> QED
  BY <1>6 DEF Surjection

(* When PUT never moves an assignment nor takes its returned_date away, a  *)
(* closed assignment has one, so that no receipt counts it again.          *)
NoReopeningEdits == ItemEdits \subseteq {Keep} /\ FALSE \notin ReturnedEdits

ClosedIsReturned == \A a \in Assignments : asg[a].status \in Closed => asg[a].returned

(* What no step takes back: item, assignee and closure of an assignment. *)
AssignmentsGoOn ==
    /\ \A a \in Assignments : Written(a) =>
          asg'[a].item = asg[a].item /\ asg'[a].to = asg[a].to
    /\ \A a \in Assignments : asg[a].status \in Closed => asg'[a].status \in Closed

LEMMA EditOfBounded ==
    ASSUME NoReopeningEdits, WellFormed(ReturnsServed), NEW q \in ReturnsServed,
           NEW a \in Assignments, NEW row, EditedBy(q, a, row), Written(a)
    PROVE  /\ row.item = asg[a].item /\ row.to = asg[a].to /\ row.status = asg[a].status
           /\ asg[a].returned => row.returned
<1>1. asg[a] \in AssignmentRow
  BY WrittenRow DEF WellFormed
<1>2. q.item = Keep /\ q.returned # FALSE /\ q.returned \in BOOLEAN \cup {Keep}
  BY ReturnsServedKnown
     DEF NoReopeningEdits, EditedBy, ReturnsServed, BoundedRequests, CreateReturnRequest,
         AssignmentRequestsIn
<1>3. /\ row.item = Edited(asg[a].item, q.item) /\ row.to = asg[a].to
      /\ row.status = asg[a].status /\ row.returned = Edited(asg[a].returned, q.returned)
  BY <1>1 DEF EditedBy, AssignmentRow
<1> QED
  BY <1>2, <1>3 DEF Edited

LEMMA RowGoesOn ==
    ASSUME NoReopeningEdits, WellFormed(ReturnsServed), ClosedIsReturned,
           NEW a \in Assignments, NEW row \in AssignmentRow, RowWritten(ReturnsServed, a, row)
    PROVE  /\ Written(a) => row.item = asg[a].item /\ row.to = asg[a].to
           /\ asg[a].status \in Closed => row.status \in Closed
           /\ row.status \in Closed => row.returned
<1>w. asg[a].status \in Closed \/ asg[a].status \in Open \/ ~Written(a)
  BY WrittenRow DEF WellFormed, AssignmentRow
<1>u. Written(a) <=> asg[a].status # "NONE"
  BY WrittenRow DEF WellFormed
<1>1. CASE Opened(a, row)
  BY <1>1, <1>u DEF Opened, Closed
<1>2. CASE Moved(a, row)
  BY <1>2, <1>u DEF Moved, Lifecycle, Closed
<1>3. ASSUME NEW q \in ReturnsServed, EditedBy(q, a, row), Written(a)
      PROVE  /\ row.item = asg[a].item /\ row.to = asg[a].to
             /\ asg[a].status \in Closed => row.status \in Closed
             /\ row.status \in Closed => row.returned
  BY <1>3, EditOfBounded DEF ClosedIsReturned
<1>4. ASSUME NEW q \in ReturnsServed, EditedBy(q, a, row), ~Written(a)
      PROVE  FALSE
  <2>1. row.status = "NONE"
    BY <1>4 DEF EditedBy, Written, Unwritten
  <2> QED
    BY <2>1 DEF AssignmentRow, Open, Closed
<1> QED
  BY <1>1, <1>2, <1>3, <1>4 DEF RowWritten

LEMMA AnyStepGoesOn ==
    ASSUME NoReopeningEdits, ReturnsForm, ClosedIsReturned, [RNext]_rvars
    PROVE  AssignmentsGoOn /\ ClosedIsReturned'
<1>t. WellFormed(ReturnsServed) /\ asg \in [Assignments -> AssignmentRow \cup {Unwritten}]
  BY DEF ReturnsForm, WellFormed
<1>s. CASE asg' = asg
  BY <1>s DEF AssignmentsGoOn, ClosedIsReturned
<1>1. CASE WritesOneRow(ReturnsServed)
  <2> PICK a \in Assignments, row \in AssignmentRow : RowWritten(ReturnsServed, a, row)
    BY <1>1 DEF WritesOneRow
  <2>1. \A b \in Assignments : asg'[b] = IF b = a THEN row ELSE asg[b]
    BY <1>t DEF RowWritten
  <2>2. /\ Written(a) => row.item = asg[a].item /\ row.to = asg[a].to
        /\ asg[a].status \in Closed => row.status \in Closed
        /\ row.status \in Closed => row.returned
    BY <1>t, RowGoesOn
  <2> QED
    BY <2>1, <2>2 DEF AssignmentsGoOn, ClosedIsReturned
<1>2. ASSUME NEW r \in Requests, Receive(r)
      PROVE  AssignmentsGoOn /\ ClosedIsReturned'
  <2>1. rrq[r].status # "NONE" /\ Receipt(r)
    BY <1>2 DEF Receive, ReceiveAllowed
  <2>2. \A a \in Assignments :
           \/ asg'[a] = asg[a]
           \/ /\ asg'[a].status = "RETURNED" /\ asg'[a].returned
              /\ asg'[a].item = asg[a].item /\ asg'[a].to = asg[a].to
    BY <2>1, ReceiptRows
  <2> QED
    BY <2>2 DEF AssignmentsGoOn, ClosedIsReturned, Closed
<1>3. ASSUME ANext
      PROVE  asg' = asg \/ WritesOneRow(ReturnsServed)
  BY <1>t, <1>3, ReturnsServedKnown, OneRowAtATime DEF ANext
<1>4. ReturnStep => asg' = asg \/ \E r \in Requests : Receive(r)
  BY DEF ReturnStep, CreateReturnRead, CreateReturnWrite, UploadSignedReturn
<1> QED
  BY <1>s, <1>1, <1>2, <1>3, <1>4 DEF RNext, rvars

(* A receipt only ends tenancies, so items keep one tenant at most. *)
LEMMA ReturnsOneTenantStep ==
    ASSUME ReturnsForm, OneTenant, [RNext]_rvars
    PROVE  OneTenant'
<1>t. WellFormed(ReturnsServed)
  BY DEF ReturnsForm
<1>1. ASSUME ANext
      PROVE  OneTenant'
  BY <1>t, <1>1, ReturnsServedKnown, OneRowAtATime, OneTenantKept DEF ANext
<1>2. ASSUME NEW r \in Requests, Receive(r)
      PROVE  OneTenant'
  <2>1. rrq[r].status # "NONE" /\ Receipt(r)
    BY <1>2 DEF Receive, ReceiveAllowed
  <2>2. \A a \in Assignments :
           \/ asg'[a] = asg[a]
           \/ asg'[a].status = "RETURNED" /\ ~asg'[a].active /\ asg'[a].item = asg[a].item
    BY <2>1, ReceiptRows
  <2> QED
    BY <2>2 DEF OneTenant, IsOpen, Open
<1>3. ReturnStep => asg' = asg \/ \E r \in Requests : Receive(r)
  BY DEF ReturnStep, CreateReturnRead, CreateReturnWrite, UploadSignedReturn
<1>4. ASSUME asg' = asg
      PROVE  OneTenant'
  BY <1>4 DEF OneTenant, IsOpen
<1> QED
  BY <1>1, <1>2, <1>3, <1>4 DEF RNext, rvars

-----------------------------------------------------------------------------
(* An item is received back once per assignment: the receipts of i from e, *)
(* and the assignments of i to e that are over.                            *)
ReceivedOf(i, e) == {r \in Requests : Received(r) /\ i \in rrq[r].lines /\ rrq[r].who = e}
ClosedOf(i, e) ==
    {a \in Assignments : asg[a].status \in Closed /\ asg[a].item = i /\ asg[a].to = e}

LEMMA OnceByCounts ==
    EachReturnOnce <=> \A i \in Items, e \in Employees :
                          Cardinality(ReceivedOf(i, e)) <= Cardinality(ClosedOf(i, e))
  BY DEF EachReturnOnce, ReceivedOf, ClosedOf

(* Only the receipt of a request makes it received. *)
LEMMA OnlyReceiveReceives ==
    ASSUME ReturnsForm, [RNext]_rvars, NEW i, NEW e
    PROVE  \/ ReceivedOf(i, e)' \subseteq ReceivedOf(i, e)
           \/ \E r \in Requests : /\ Receive(r) /\ i \in rrq[r].lines /\ rrq[r].who = e
                                   /\ ReceivedOf(i, e)' \subseteq ReceivedOf(i, e) \cup {r}
<1>t. rrq \in [Requests -> ReturnRow \cup {NoRequest}]
  BY DEF ReturnsForm
<1>1. CASE rrq' = rrq
  BY <1>1 DEF ReceivedOf, Received
<1>2. ASSUME NEW w, NEW r \in Requests, CreateReturnWrite(w, r)
      PROVE  ReceivedOf(i, e)' \subseteq ReceivedOf(i, e)
  BY <1>2, <1>t DEF CreateReturnWrite, ReceivedOf, Received
<1>r. ASSUME NEW r \in Requests, NEW s, rrq[r] \in ReturnRow, rrq' = [rrq EXCEPT ![r].status = s]
      PROVE  \A q \in Requests : /\ q # r => rrq'[q] = rrq[q]
                                 /\ rrq'[q].lines = rrq[q].lines /\ rrq'[q].who = rrq[q].who
  BY <1>r, <1>t DEF ReturnRow
<1>3. ASSUME NEW r \in Requests, Receive(r)
      PROVE  \/ ReceivedOf(i, e)' \subseteq ReceivedOf(i, e)
             \/ /\ i \in rrq[r].lines /\ rrq[r].who = e
                /\ ReceivedOf(i, e)' \subseteq ReceivedOf(i, e) \cup {r}
  <2>1. rrq[r] \in ReturnRow /\ rrq' = [rrq EXCEPT ![r].status = "CLOSED_PENDING_SIGNATURE"]
    BY <1>3, ExistingReturn DEF Receive, ReceiveAllowed, Receipt
  <2> QED
    BY <1>r, <2>1 DEF ReceivedOf, Received
<1>4. ASSUME NEW r \in Requests, UploadSignedReturn(r)
      PROVE  ReceivedOf(i, e)' \subseteq ReceivedOf(i, e)
  <2>1. rrq[r] \in ReturnRow /\ rrq' = [rrq EXCEPT ![r].status = "CLOSED"] /\ Received(r)
    BY <1>4, ExistingReturn DEF UploadSignedReturn, SignedUploadAllowed, Received
  <2> QED
    BY <1>r, <2>1 DEF ReceivedOf, Received
<1>5. \/ rrq' = rrq
      \/ \E w \in Workers, r \in Requests : CreateReturnWrite(w, r)
      \/ \E r \in Requests : Receive(r) \/ UploadSignedReturn(r)
  BY DEF RNext, rvars, ReturnStep, CreateReturnRead
<1> QED
  BY <1>1, <1>2, <1>3, <1>4, <1>5

ReturnsFinite == IsFiniteSet(Items) /\ IsFiniteSet(Assignments) /\ IsFiniteSet(Requests)

LEMMA EachReturnOnceStep ==
    ASSUME ReturnsFinite, NoReopeningEdits, ReturnsForm, OneTenant, ClosedIsReturned,
           EachReturnOnce, [RNext]_rvars
    PROVE  EachReturnOnce'
<1> USE DEF ReturnsFinite
<1>g. AssignmentsGoOn
  BY AnyStepGoesOn
<1> SUFFICES ASSUME NEW i \in Items, NEW e \in Employees
             PROVE  Cardinality(ReceivedOf(i, e)') <= Cardinality(ClosedOf(i, e)')
  BY DEF EachReturnOnce, ReceivedOf, ClosedOf
<1> DEFINE Rs == ReceivedOf(i, e)
           Cs == ClosedOf(i, e)
           RsNow == ReceivedOf(i, e)'
           CsNow == ClosedOf(i, e)'
<1>1. IsFiniteSet(Rs) /\ IsFiniteSet(Cs) /\ IsFiniteSet(RsNow) /\ IsFiniteSet(CsNow)
  <2>1. Rs \subseteq Requests /\ RsNow \subseteq Requests
    BY DEF ReceivedOf
  <2>2. Cs \subseteq Assignments /\ CsNow \subseteq Assignments
    BY DEF ClosedOf
  <2> QED
    BY <2>1, <2>2, FS_Subset
<1>2. /\ Cardinality(Rs) \in Nat /\ Cardinality(Cs) \in Nat
      /\ Cardinality(RsNow) \in Nat /\ Cardinality(CsNow) \in Nat
  BY <1>1, FS_CardinalityType
<1>3. Cardinality(Rs) <= Cardinality(Cs)
  BY OnceByCounts
<1>4. Cs \subseteq CsNow
  <2>1. ASSUME NEW a \in Assignments, asg[a].status \in Closed
        PROVE  Written(a)
    BY <2>1 DEF Written, Unwritten, Closed
  <2> QED
    BY <1>g, <2>1 DEF ClosedOf, AssignmentsGoOn
<1>5. Cardinality(Cs) <= Cardinality(CsNow)
  BY <1>1, <1>4, FS_Subset
<1>6. CASE RsNow \subseteq Rs
  <2>1. Cardinality(RsNow) <= Cardinality(Rs)
    BY <1>1, <1>6, FS_Subset
  <2> QED
    BY <1>2, <1>3, <1>5, <2>1
<1>7. ASSUME NEW r \in Requests, Receive(r), i \in rrq[r].lines, rrq[r].who = e,
             RsNow \subseteq Rs \cup {r}
      PROVE  Cardinality(RsNow) <= Cardinality(CsNow)
  <2>1. PICK a \in Returnable(e, rrq[r].lines) : asg[a].item = i
    BY <1>7, EveryLineCloses
  <2>2. a \in Assignments /\ ~asg[a].returned
    BY <2>1 DEF Returnable
  <2>3. a \notin Cs
    BY <2>2 DEF ClosedIsReturned, ClosedOf
  <2>4. a \in CsNow
    <3>1. rrq[r].status # "NONE" /\ Receipt(r)
      BY <1>7 DEF Receive, ReceiveAllowed
    <3>2. asg'[a].status = "RETURNED" /\ asg'[a].item = i /\ asg'[a].to = e
      BY <1>7, <2>1, <2>2, <3>1, ReceiptRows
    <3> QED
      BY <2>2, <3>2 DEF ClosedOf, Closed
  <2>5. Cardinality(Cs \cup {a}) = Cardinality(Cs) + 1 /\ IsFiniteSet(Cs \cup {a})
    BY <1>1, <2>3, FS_AddElement
  <2>6. Cardinality(Cs \cup {a}) <= Cardinality(CsNow)
    BY <1>1, <1>4, <2>4, FS_Subset
  <2>7. Cardinality(Rs \cup {r}) <= Cardinality(Rs) + 1 /\ IsFiniteSet(Rs \cup {r})
    <3>1. /\ IsFiniteSet(Rs \cup {r})
          /\ Cardinality(Rs \cup {r}) = IF r \in Rs THEN Cardinality(Rs) ELSE Cardinality(Rs) + 1
      BY <1>1, FS_AddElement
    <3> HIDE DEF Rs
    <3> QED
      BY <1>2, <3>1
  <2>8. Cardinality(RsNow) <= Cardinality(Rs \cup {r})
    BY <1>7, <2>7, FS_Subset
  <2>9. Cardinality(Rs \cup {r}) \in Nat
    BY <2>7, FS_CardinalityType
  <2> QED
    BY <1>2, <1>3, <2>5, <2>6, <2>7, <2>8, <2>9
<1> QED
  BY <1>6, <1>7, OnlyReceiveReceives

(* However many requests are submitted for an item, and whichever of the   *)
(* two return paths comes first, it is received back from an employee at   *)
(* most once per assignment of it to them, if no PUT moves an assignment   *)
(* to another item or takes back its returned_date; is_active may be set   *)
(* at will.                                                                *)
THEOREM EachReturnCounted ==
    ASSUME ReturnsFinite, NoReopeningEdits
    PROVE  RSpec => []EachReturnOnce
<1> DEFINE Inv == ReturnsForm /\ OneTenant /\ ClosedIsReturned /\ EachReturnOnce
<1>1. RInit => Inv
  <2> SUFFICES ASSUME RInit PROVE Inv
    OBVIOUS
  <2>1. OneTenant
    BY FormInit DEF RInit, OwnRequests
  <2>2. ClosedIsReturned
    BY DEF RInit, AInit, AssignmentsInit, ClosedIsReturned, Unwritten, Closed
  <2>3. \A i \in Items, e \in Employees : ReceivedOf(i, e) = {}
    BY DEF RInit, ReturnsInit, ReceivedOf, Received, NoRequest
  <2>4. \A i \in Items, e \in Employees : Cardinality(ClosedOf(i, e)) \in Nat
    <3>1. \A i \in Items, e \in Employees : ClosedOf(i, e) \in SUBSET Assignments
      BY DEF ClosedOf
    <3> QED
      BY <3>1, FS_Subset, FS_CardinalityType DEF ReturnsFinite
  <2>5. EachReturnOnce
    BY <2>3, <2>4, FS_EmptySet, OnceByCounts
  <2> QED
    BY <2>1, <2>2, <2>5, ReturnFormInit
<1>2. Inv /\ [RNext]_rvars => Inv'
  BY ReturnFormStep, ReturnsOneTenantStep, AnyStepGoesOn, EachReturnOnceStep
<1> QED
  BY <1>1, <1>2, PTL DEF RSpec
-----------------------------------------------------------------------------
(* What a handler keeps from its reads when it starts, whichever requests  *)
(* R are served: the slip names the item of the assignment it returns, the *)
(* retirement has the item as it is.                                       *)
LEMMA StartsAsRead ==
    ASSUME NEW R, WellFormed(R), NEW w \in Workers,
           AssignmentStep(w) \/ ItemStep(w) \/ Fail(w)
    PROVE  /\ req'[w].op = "SignedReturn" => /\ item' = item /\ asg' = asg
                                             /\ Written(req'[w].asg)
                                             /\ req'[w].item = asg[req'[w].asg].item
           /\ req'[w].op = "RemoveItem" => /\ item' = item
                                           /\ req'[w].loaded = item[req'[w].item]
<1>t. req \in [Workers -> R]
  BY DEF WellFormed
<1> DEFINE Goal == /\ req'[w].op = "SignedReturn" => /\ item' = item /\ asg' = asg
                                                     /\ Written(req'[w].asg)
                                                     /\ req'[w].item = asg[req'[w].asg].item
                   /\ req'[w].op = "RemoveItem" => /\ item' = item
                                                   /\ req'[w].loaded = item[req'[w].item]
<1>1. ASSUME Ends(w) PROVE Goal
  BY <1>1, <1>t DEF Ends, Idle
<1>2. CASE \/ \E i \in Items, e \in Targets : CreateRead(w, i, e)
           \/ \E a \in Assignments :
                 \/ \E e \in Employees : ReassignRead(w, a, e)
                 \/ HandoverRead(w, a) \/ RequestReturnRead(w, a) \/ RemoveAssignmentRead(w, a)
                 \/ \E i \in ItemEdits, e \in EmployeeEdits, act \in IsActiveEdits, ret \in ReturnedEdits :
                       UpdateAssignmentRead(w, a, i, e, act, ret)
  BY <1>2, <1>t DEF CreateRead, ReassignRead, HandoverRead, RequestReturnRead,
                    RemoveAssignmentRead, UpdateAssignmentRead, Starts
<1>3. ASSUME NEW a \in Assignments, SignedReturnRead(w, a)
      PROVE  Goal
  BY <1>3, <1>t DEF SignedReturnRead, InScope, Starts
<1>4. ASSUME NEW i, NEW s, NEW f, NEW a, NEW act, UpdateItemRead(w, i, s, f, a, act)
      PROVE  Goal
  BY <1>4, <1>t DEF UpdateItemRead, Starts
<1>5. ASSUME NEW i, RemoveItemRead(w, i)
      PROVE  Goal
  BY <1>5, <1>t DEF RemoveItemRead, Starts
<1> QED
  BY <1>1, <1>2, <1>3, <1>4, <1>5
     DEF AssignmentStep, ItemStep, Fail, CreateCommit, HandoverCommit, RequestReturnWrite,
         SignedReturnCommit, UpdateAssignmentWrite, RemoveAssignmentWrite, UpdateItemWrite,
         RemoveItemWrite

(* Freeing an item.  What a slip or a retirement keeps from its reads is   *)
(* still so of the assignment and the item when it writes, if besides the  *)
(* edits above none frees the item by itself or takes a retired item into  *)
(* use again.                                                              *)
NoFreeingEdits == AssignmentEdits \subseteq {Keep, "Assigned"} /\ TRUE \notin ActiveEdits

FollowsRead(w) ==
    /\ Serving(w, "SignedReturn") => req[w].item = asg[req[w].asg].item
    /\ Serving(w, "RemoveItem") => (~req[w].loaded.active => ~item[req[w].item].active)

ItemsStayRetired == \A i \in Items : ~item[i].active => ~item'[i].active

(* One request's write of an item, as to the two fields in question. *)
LEMMA WriteOfBounded ==
    ASSUME NoFreeingEdits, NEW q \in ReturnsServed, q.op \in ItemWriters, NEW x \in ItemRow
    PROVE  /\ ~x.active => ~WrittenBy(q, x).active
           /\ \/ q.op = "SignedReturn"
              \/ q.op = "RemoveItem" /\ (q.loaded.active => ~WrittenBy(q, x).active)
              \/ x.assignment = "Assigned" => WrittenBy(q, x).assignment = "Assigned"
<1>1. CASE q.op = "Handover" \/ q.op = "SignedReturn"
  BY <1>1 DEF WrittenBy, ItemRow
<1>2. CASE q.op = "UpdateItem"
  <2>1. /\ q.assignment \in AssignmentEdits /\ q.active \in ActiveEdits
        /\ q.active \in BOOLEAN \cup {Keep}
    BY <1>2, ReturnsServedKnown
       DEF ReturnsServed, BoundedRequests, CreateReturnRequest, AssignmentRequestsIn, ItemRequestsIn
  <2>2. /\ WrittenBy(q, x).assignment = Edited(x.assignment, q.assignment)
        /\ WrittenBy(q, x).active = Edited(x.active, q.active)
    BY <1>2 DEF WrittenBy, EditedRow, ItemRow
  <2> QED
    BY <2>1, <2>2 DEF Edited, NoFreeingEdits
<1>3. CASE q.op = "RemoveItem"
  <2>1. /\ WrittenBy(q, x).active = Saved(x.active, q.loaded.active, FALSE)
        /\ q.loaded.active \in BOOLEAN
    BY <1>3, ReturnsServedKnown
       DEF WrittenBy, RetiredRow, ItemRow, AssignmentRequestsIn, ItemRequestsIn
  <2> QED
    BY <1>3, <2>1 DEF Saved
<1> QED
  BY <1>1, <1>2, <1>3 DEF ItemWriters

(* The writes of a step: of the item of one request, or of a receipt. *)
LEMMA ReturnStepWrites ==
    ASSUME ReturnsForm, [RNext]_rvars
    PROVE  \/ item' = item
           \/ \E w \in Workers :
                 /\ req[w].op \in ItemWriters /\ req[w].item \in Items
                 /\ item' = [item EXCEPT ![req[w].item] = WrittenBy(req[w], item[req[w].item])]
                 /\ AssignmentStep(w) \/ ItemStep(w)
           \/ \E r \in Requests : Receive(r)
<1>1. ASSUME ANext
      PROVE  \/ item' = item
             \/ \E w \in Workers :
                   /\ req[w].op \in ItemWriters /\ req[w].item \in Items
                   /\ item' = [item EXCEPT ![req[w].item] = WrittenBy(req[w], item[req[w].item])]
                   /\ AssignmentStep(w) \/ ItemStep(w)
  <2>1. PICK w \in Workers : AssignmentStep(w) \/ ItemStep(w) \/ item' = item
    BY <1>1 DEF ANext
  <2>2. WellFormed(ReturnsServed) /\ AssignmentRequestsIn(ReturnsServed) /\ req[w] \in ReturnsServed
    BY ReturnsServedKnown DEF ReturnsForm, WellFormed
  <2> QED
    BY <2>1, <2>2, ItemWrite, ItemWriterFields
<1> QED
  BY <1>1 DEF RNext, rvars, ReturnStep, CreateReturnRead, CreateReturnWrite, UploadSignedReturn

LEMMA RetiredStays ==
    ASSUME NoFreeingEdits, ReturnsForm, [RNext]_rvars
    PROVE  ItemsStayRetired
<1>t. item \in [Items -> ItemRow] /\ req \in [Workers -> ReturnsServed]
  BY DEF ReturnsForm, WellFormed
<1>1. CASE item' = item
  BY <1>1 DEF ItemsStayRetired
<1>2. ASSUME NEW w \in Workers, req[w].op \in ItemWriters, req[w].item \in Items,
             item' = [item EXCEPT ![req[w].item] = WrittenBy(req[w], item[req[w].item])]
      PROVE  ItemsStayRetired
  BY <1>2, <1>t, WriteOfBounded DEF ItemsStayRetired
<1>3. ASSUME NEW r \in Requests, Receive(r)
      PROVE  ItemsStayRetired
  <2>1. \A i \in Items : item'[i].active = item[i].active
    BY <1>3, <1>t DEF Receive, Receipt, ItemRow
  <2> QED
    BY <2>1 DEF ItemsStayRetired
<1> QED
  BY <1>1, <1>2, <1>3, ReturnStepWrites

LEMMA FollowsReadStep ==
    ASSUME NoReopeningEdits, NoFreeingEdits, ReturnsForm, ClosedIsReturned,
           \A w \in Workers : FollowsRead(w), [RNext]_rvars
    PROVE  \A v \in Workers : FollowsRead(v)'
<1>t. /\ req \in [Workers -> ReturnsServed] /\ WellFormed(ReturnsServed)
      /\ \A w \in Workers : NamesWritten(w)
  BY DEF ReturnsForm, WellFormed
<1>g. AssignmentsGoOn /\ ItemsStayRetired
  BY AnyStepGoesOn, RetiredStays
<1>1. ASSUME NEW v \in Workers, req'[v] = req[v]
      PROVE  FollowsRead(v)'
  <2>1. /\ Serving(v, "SignedReturn") => req[v].asg \in Assignments /\ Written(req[v].asg)
        /\ Serving(v, "RemoveItem") => req[v].item \in Items
    BY <1>t, ReturnsServedKnown DEF AssignmentRequestsIn, ItemRequestsIn, NamesWritten, Serving
  <2> QED
    BY <1>1, <1>g, <2>1 DEF FollowsRead, Serving, AssignmentsGoOn, ItemsStayRetired
<1>2. ASSUME NEW v \in Workers, req'[v].op \notin {"SignedReturn", "RemoveItem"}
      PROVE  FollowsRead(v)'
  BY <1>2 DEF FollowsRead, Serving
<1>3. ASSUME NEW w \in Workers, AssignmentStep(w) \/ ItemStep(w) \/ Fail(w), NEW v \in Workers
      PROVE  FollowsRead(v)'
  <2>1. CASE v # w
    BY <1>1, <1>3, <1>t, <2>1, OthersKept
  <2>2. CASE v = w
    <3>1. /\ req'[w].op = "SignedReturn" => /\ item' = item /\ asg' = asg
                                            /\ req'[w].item = asg[req'[w].asg].item
          /\ req'[w].op = "RemoveItem" => /\ item' = item
                                          /\ req'[w].loaded = item[req'[w].item]
      BY <1>3, <1>t, StartsAsRead
    <3> QED
      BY <2>2, <3>1 DEF FollowsRead, Serving
  <2> QED
    BY <2>1, <2>2
<1>4. ASSUME NEW v \in Workers, ReturnStep
      PROVE  req'[v] = req[v] \/ req'[v].op \notin {"SignedReturn", "RemoveItem"}
  <2>1. ASSUME NEW w \in Workers, Ends(w) \/ \E c : c.op = "CreateReturn" /\ Starts(w, c)
        PROVE  req'[v] = req[v] \/ req'[v].op \notin {"SignedReturn", "RemoveItem"}
    BY <1>t, <2>1 DEF Starts, Ends, Idle
  <2>2. ASSUME NEW w \in Workers, NEW e, NEW o, NEW lines, CreateReturnRead(w, e, o, lines)
        PROVE  \E c : c.op = "CreateReturn" /\ Starts(w, c)
    BY <2>2 DEF CreateReturnRead
  <2>3. \/ req' = req
        \/ \E w \in Workers : Ends(w) \/ \E c : c.op = "CreateReturn" /\ Starts(w, c)
    BY <1>4, <2>2 DEF ReturnStep, CreateReturnWrite, Receive, Receipt, UploadSignedReturn
  <2> QED
    BY <2>1, <2>3
<1> QED
  BY <1>1, <1>2, <1>3, <1>4 DEF RNext, ANext, rvars

(* The slip writes the assignment in the transaction that writes the item. *)
LEMMA SlipWrites ==
    ASSUME NEW w \in Workers, AssignmentStep(w) \/ ItemStep(w), item' # item,
           req[w].op = "SignedReturn"
    PROVE  SignedReturnCommit(w)
<1>1. ASSUME NEW i, NEW s, NEW f, NEW a, NEW act, UpdateItemRead(w, i, s, f, a, act)
      PROVE  item' = item
  BY <1>1 DEF UpdateItemRead
<1>2. ~ItemStep(w)
  BY <1>1 DEF ItemStep, UpdateItemWrite, RemoveItemRead, RemoveItemWrite, Serving
<1>3. \/ \E i \in Items, e \in Targets : CreateRead(w, i, e)
      \/ \E a \in Assignments :
            \/ \E e \in Employees : ReassignRead(w, a, e)
            \/ CreateCommit(w, a) \/ HandoverRead(w, a) \/ RequestReturnRead(w, a)
            \/ SignedReturnRead(w, a) \/ RemoveAssignmentRead(w, a)
            \/ \E i \in ItemEdits, e \in EmployeeEdits, act \in IsActiveEdits, ret \in ReturnedEdits :
                  UpdateAssignmentRead(w, a, i, e, act, ret)
      \/ RequestReturnWrite(w) \/ UpdateAssignmentWrite(w) \/ RemoveAssignmentWrite(w)
      => item' = item
  BY DEF CreateRead, ReassignRead, CreateCommit, HandoverRead, RequestReturnRead,
         SignedReturnRead, RemoveAssignmentRead, UpdateAssignmentRead, RequestReturnWrite,
         UpdateAssignmentWrite, RemoveAssignmentWrite
<1>4. ~HandoverCommit(w)
  BY DEF HandoverCommit, Serving
<1> QED
  BY <1>2, <1>3, <1>4 DEF AssignmentStep

(* The step that frees an item from under an issued assignment. *)
LEMMA FreeingStep ==
    ASSUME IsFiniteSet(Items), NoFreeingEdits, ReturnsForm, OneTenant, ClosedIsReturned,
           \A w \in Workers : FollowsRead(w), [RNext]_rvars, NEW a \in Assignments,
           asg[a].status \in {"ISSUED", "RETURN_REQUESTED"},
           item[asg[a].item].assignment = "Assigned", item'[asg[a].item].assignment # "Assigned"
    PROVE  asg'[a].status = "RETURNED" \/ ~item'[asg[a].item].active
<1> DEFINE i == asg[a].item
<1>t. /\ item \in [Items -> ItemRow] /\ req \in [Workers -> ReturnsServed]
      /\ asg \in [Assignments -> AssignmentRow \cup {Unwritten}]
  BY DEF ReturnsForm, WellFormed
<1>i. i \in Items
  BY <1>t DEF AssignmentRow, Unwritten
<1>o. \A b \in Assignments : asg[b].item = i /\ IsOpen(b) => b = a
  BY DEF OneTenant, IsOpen, Open
<1>1. ASSUME NEW w \in Workers, req[w].op \in ItemWriters, req[w].item \in Items,
             item' = [item EXCEPT ![req[w].item] = WrittenBy(req[w], item[req[w].item])],
             AssignmentStep(w) \/ ItemStep(w)
      PROVE  asg'[a].status = "RETURNED" \/ ~item'[i].active
  <2>1. req[w].item = i /\ item'[i] = WrittenBy(req[w], item[i])
    BY <1>1, <1>i, <1>t
  <2>2. /\ req[w] \in ReturnsServed /\ item[i] \in ItemRow
        /\ ~item[i].active => ~item'[i].active
        /\ \/ req[w].op = "SignedReturn"
           \/ req[w].op = "RemoveItem" /\ (req[w].loaded.active => ~item'[i].active)
    BY <1>1, <1>i, <1>t, <2>1, WriteOfBounded
  <2>3. CASE req[w].op = "RemoveItem"
    BY <2>1, <2>2, <2>3 DEF FollowsRead, Serving
  <2>4. CASE req[w].op = "SignedReturn"
    <3>1. SignedReturnCommit(w)
      BY <1>1, <2>4, SlipWrites
    <3>2. req[w].asg \in Assignments /\ asg[req[w].asg].status \in {"ISSUED", "RETURN_REQUESTED"}
      BY <1>t, <2>4, <3>1, ReturnsServedKnown DEF AssignmentRequestsIn, SignedReturnCommit
    <3>3. req[w].asg = a
      BY <1>o, <2>1, <2>4, <3>2 DEF FollowsRead, Serving, IsOpen, Open
    <3>4. asg' = [asg EXCEPT ![a] = [asg[a] EXCEPT !.status = "RETURNED", !.active = FALSE,
                                                   !.returned = TRUE]]
      BY <3>1, <3>3 DEF SignedReturnCommit, WriteAssignment
    <3>5. asg[a] \in AssignmentRow
      BY <1>t DEF Unwritten
    <3> QED
      BY <1>t, <3>4, <3>5 DEF AssignmentRow
  <2> QED
    BY <2>2, <2>3, <2>4
<1>2. ASSUME NEW r \in Requests, Receive(r)
      PROVE  asg'[a].status = "RETURNED"
  <2>1. i \in rrq[r].lines
    BY <1>2, <1>i, <1>t DEF Receive, Receipt
  <2>2. PICK b \in Returnable(rrq[r].who, rrq[r].lines) : asg[b].item = i
    BY <1>2, <2>1, EveryLineCloses
  <2>3. b \in Assignments /\ asg[b].active /\ ~asg[b].returned
    BY <2>2 DEF Returnable
  <2>4. IsOpen(b)
    <3>1. asg[b] # Unwritten
      BY <2>3 DEF Unwritten
    <3> QED
      BY <1>t, <2>3, <3>1 DEF ClosedIsReturned, AssignmentRow, IsOpen
  <2>5. b = a
    BY <1>o, <2>2, <2>3, <2>4
  <2>6. rrq[r].status # "NONE" /\ Receipt(r)
    BY <1>2 DEF Receive, ReceiveAllowed
  <2> QED
    BY <2>2, <2>5, <2>6, ReceiptRows
<1> QED
  BY <1>1, <1>2, ReturnStepWrites

(* An item that is given out becomes free only with the assignment it is   *)
(* given out under, or by being retired: a return slip, a receipt or a     *)
(* retirement that read the item under an earlier tenant frees it from     *)
(* under no later one.  This supposes that no PUT frees the item by itself, *)
(* revives a retired one, moves an assignment or takes back its            *)
(* returned_date.                                                          *)
THEOREM FreedOnlyByReturn ==
    ASSUME IsFiniteSet(Items), NoReopeningEdits, NoFreeingEdits
    PROVE  RSpec => FreedByItsReturn
<1> DEFINE Inv == /\ ReturnsForm /\ OneTenant /\ ClosedIsReturned
                  /\ \A w \in Workers : FollowsRead(w)
<1>1. RInit => Inv
  <2> SUFFICES ASSUME RInit PROVE Inv
    OBVIOUS
  <2>1. OneTenant
    BY FormInit DEF RInit, OwnRequests
  <2>2. ClosedIsReturned
    BY DEF RInit, AInit, AssignmentsInit, ClosedIsReturned, Unwritten, Closed
  <2>3. \A w \in Workers : FollowsRead(w)
    BY DEF RInit, AInit, ItemsInit, FollowsRead, Serving, Idle
  <2> QED
    BY <2>1, <2>2, <2>3, ReturnFormInit
<1>2. Inv /\ [RNext]_rvars => Inv'
  BY ReturnFormStep, ReturnsOneTenantStep, AnyStepGoesOn, FollowsReadStep
<1>3. Inv /\ [RNext]_rvars =>
          [\A a \in Assignments :
              LET i == asg[a].item IN
                asg[a].status \in {"ISSUED", "RETURN_REQUESTED"}
                /\ item[i].assignment = "Assigned" /\ item'[i].assignment # "Assigned"
                   => asg'[a].status = "RETURNED" \/ ~item'[i].active]_rvars
  BY FreeingStep
<1> QED
  BY <1>1, <1>2, <1>3, PTL DEF RSpec, FreedByItsReturn
(* Beside return requests, too, an item has one tenant at most. *)
THEOREM OneTenantWithReturns == RSpec => []OneTenant
<1>1. RInit => OneTenant
  BY FormInit DEF RInit, OwnRequests
<1> QED
  BY <1>1, ReturnsOneTenantStep, ReturnFormHolds, PTL DEF RSpec

-----------------------------------------------------------------------------
(* Maintenance: type correctness. *)
MaintenanceServed == OwnRequests \cup MaintenanceRequest

OnRecord == {"CompleteMaintenance", "RemoveMaintenance", "UpdateMaintenance"}

LEMMA MaintenanceServedKnown ==
    /\ AssignmentRequestsIn(MaintenanceServed)
    /\ \A r \in MaintenanceServed :
          /\ r.op = "CreateMaintenance" => r.item \in Items /\ r.open \in BOOLEAN
          /\ r.op \in OnRecord => r.mnt \in Records /\ r.loaded \in MaintenanceRow
          /\ r.op = "UpdateMaintenance" => r.item \in Items \cup {Keep} /\ r.open \in BOOLEAN \cup {Keep}
          /\ r.op = "Force" => r.item \in Items /\ r.then \in Items \cup {NoItem}
          /\ r.op \in {"SyncRecords", "SyncItem"} => r.item \in Items
          /\ r.op = "Settle" => r.item \in Items /\ r.status \in ItemStatus
<1> DEFINE ops == {"CreateMaintenance", "Force", "SyncRecords", "SyncItem", "Settle"} \cup OnRecord
<1>1. \A r \in MaintenanceRequest : r.op \in ops
  BY DEF MaintenanceRequest, OnRecord
<1>2. ops \cap AssignmentOps = {}
  BY DEF OnRecord, AssignmentOps, Naming
<1>3. AssignmentRequestsIn(MaintenanceServed)
  BY <1>1, <1>2, OwnRequestsKnown, OtherRequestsToo DEF MaintenanceServed
<1>4. \A r \in OwnRequests : r.op \notin ops
  BY DEF OwnRequests, Idle, ItemRequest, AssignmentRequest, OnRecord
<1>5. \A r \in MaintenanceRequest :
          /\ r.op = "CreateMaintenance" => r.item \in Items /\ r.open \in BOOLEAN
          /\ r.op \in OnRecord => r.mnt \in Records /\ r.loaded \in MaintenanceRow
          /\ r.op = "UpdateMaintenance" => r.item \in Items \cup {Keep} /\ r.open \in BOOLEAN \cup {Keep}
          /\ r.op = "Force" => r.item \in Items /\ r.then \in Items \cup {NoItem}
          /\ r.op \in {"SyncRecords", "SyncItem"} => r.item \in Items
          /\ r.op = "Settle" => r.item \in Items /\ r.status \in ItemStatus
  <2> SUFFICES ASSUME NEW r \in MaintenanceRequest
               PROVE  /\ r.op = "CreateMaintenance" => r.item \in Items /\ r.open \in BOOLEAN
                      /\ r.op \in OnRecord => r.mnt \in Records /\ r.loaded \in MaintenanceRow
                      /\ r.op = "UpdateMaintenance" =>
                            r.item \in Items \cup {Keep} /\ r.open \in BOOLEAN \cup {Keep}
                      /\ r.op = "Force" => r.item \in Items /\ r.then \in Items \cup {NoItem}
                      /\ r.op \in {"SyncRecords", "SyncItem"} => r.item \in Items
                      /\ r.op = "Settle" => r.item \in Items /\ r.status \in ItemStatus
    OBVIOUS
  <2>1. CASE r \in [op: {"CreateMaintenance"}, item: Items, open: BOOLEAN]
    BY <2>1 DEF OnRecord
  <2>2. CASE r \in [op: {"CompleteMaintenance", "RemoveMaintenance"}, mnt: Records,
                    loaded: MaintenanceRow]
    BY <2>2 DEF OnRecord
  <2>3. CASE r \in [op: {"UpdateMaintenance"}, mnt: Records, loaded: MaintenanceRow,
                    item: Items \cup {Keep}, open: BOOLEAN \cup {Keep}]
    BY <2>3 DEF OnRecord
  <2>4. CASE r \in [op: {"Force"}, item: Items, then: Items \cup {NoItem}]
    BY <2>4 DEF OnRecord
  <2>5. CASE r \in [op: {"SyncRecords", "SyncItem"}, item: Items]
    BY <2>5 DEF OnRecord
  <2>6. CASE r \in [op: {"Settle"}, item: Items, status: ItemStatus]
    BY <2>6 DEF OnRecord
  <2> QED
    BY <2>1, <2>2, <2>3, <2>4, <2>5, <2>6 DEF MaintenanceRequest
<1>6. ASSUME NEW r \in OwnRequests
      PROVE  /\ r.op \notin OnRecord
             /\ r.op \notin {"CreateMaintenance", "Force", "SyncRecords", "SyncItem", "Settle"}
             /\ r.op # "UpdateMaintenance"
  BY <1>4 DEF OnRecord
<1> HIDE DEF ops
<1> QED
  BY <1>3, <1>5, <1>6 DEF MaintenanceServed

(* A request names a record that exists: none is ever deleted. *)
NamesRecord(w) == req[w].op \in OnRecord => Recorded(req[w].mnt)

RecordsForm ==
    /\ WellFormed(MaintenanceServed)
    /\ mnt \in [Records -> MaintenanceRow \cup {NoRecord}]
    /\ \A w \in Workers : NamesRecord(w)

LEMMA RecordedRow ==
    ASSUME mnt \in [Records -> MaintenanceRow \cup {NoRecord}], NEW m \in Records
    PROVE  Recorded(m) <=> mnt[m] \in MaintenanceRow
  BY AssignmentConstants DEF Recorded, NoRecord, MaintenanceRow

(* What a step does to the records: none, or one row is written. *)
RecordWritten(m, row) == /\ row \in MaintenanceRow
                         /\ mnt' = [mnt EXCEPT ![m] = row]

(* A step of the maintenance handlers: the request that takes its place    *)
(* and the item and record it writes, all of their kinds.                  *)
LEMMA WithStatusTyped ==
    ASSUME item \in [Items -> ItemRow], NEW i \in Items, NEW s \in ItemStatus, WithStatus(i, s)
    PROVE  /\ item' \in [Items -> ItemRow]
           /\ \A j \in Items : j # i => item'[j] = item[j]
           /\ item'[i].status = s
        /\ item'[i].active = item[i].active /\ item'[i].functional = item[i].functional
  BY DEF WithStatus, ItemRow

LEMMA FreeStatusKnown == \A i \in Items : FreeStatus(i) \in ItemStatus
  BY DEF FreeStatus, ItemStatus

LEMMA RecordFields ==
    ASSUME RecordsForm, NEW w \in Workers, req[w].op \in OnRecord
    PROVE  /\ req[w].mnt \in Records /\ req[w].loaded \in MaintenanceRow
           /\ mnt[req[w].mnt] \in MaintenanceRow
<1>1. req[w] \in MaintenanceServed /\ NamesRecord(w)
  BY DEF RecordsForm, WellFormed
<1>2. req[w].mnt \in Records /\ req[w].loaded \in MaintenanceRow
  BY <1>1, MaintenanceServedKnown
<1> QED
  BY <1>1, <1>2, RecordedRow DEF RecordsForm, NamesRecord
(* One request becomes r, the records stay records. *)
LEMMA RecordsFormKept ==
    ASSUME RecordsForm, NEW w \in Workers, NEW r \in MaintenanceServed,
           req' = [req EXCEPT ![w] = r], r.op \notin Naming,
           r.op \in OnRecord => Recorded(r.mnt),
           item' \in [Items -> ItemRow], asg' = asg,
           mnt' \in [Records -> MaintenanceRow \cup {NoRecord}],
           \A m \in Records : Recorded(m) => Recorded(m)'
    PROVE  RecordsForm'
<1>t. /\ req \in [Workers -> MaintenanceServed]
      /\ asg \in [Assignments -> AssignmentRow \cup {Unwritten}]
      /\ \A v \in Workers : NamesWritten(v) /\ NamesRecord(v)
  BY DEF RecordsForm, WellFormed
<1>1. req' \in [Workers -> MaintenanceServed]
  BY <1>t
<1>2. \A v \in Workers : req'[v] = IF v = w THEN r ELSE req[v]
  BY <1>t
<1>3. \A v \in Workers : NamesWritten(v)'
  BY <1>t, <1>2 DEF NamesWritten, Naming, Written
<1>4. \A v \in Workers : NamesRecord(v)'
  <2>1. ASSUME NEW v \in Workers, req'[v].op \in OnRecord
        PROVE  req'[v].mnt \in Records /\ Recorded(req'[v].mnt)
    BY <1>1, <1>2, <1>t, <2>1, MaintenanceServedKnown DEF NamesRecord
  <2> QED
    BY <2>1 DEF NamesRecord, Recorded
<1> QED
  BY <1>1, <1>3, <1>4, <1>t DEF RecordsForm, WellFormed

LEMMA RecordWrittenTyped ==
    ASSUME mnt \in [Records -> MaintenanceRow \cup {NoRecord}], NEW m \in Records, NEW row,
           RecordWritten(m, row)
    PROVE  /\ mnt' \in [Records -> MaintenanceRow \cup {NoRecord}]
           /\ \A n \in Records : Recorded(n) => Recorded(n)'
           /\ \A n \in Records : mnt'[n] = IF n = m THEN row ELSE mnt[n]
<1>1. \A n \in Records : mnt'[n] = IF n = m THEN row ELSE mnt[n]
  BY DEF RecordWritten
<1>2. row # NoRecord
  BY AssignmentConstants DEF RecordWritten, NoRecord, MaintenanceRow
<1> QED
  BY <1>1, <1>2 DEF RecordWritten, Recorded

(* The handlers one by one: what each writes. *)
LEMMA CreateWrites ==
    ASSUME RecordsForm, NEW w \in Workers, NEW m \in Records, CreateMaintenanceCommit(w, m)
    PROVE  /\ req[w].item \in Items /\ item' \in [Items -> ItemRow]
           /\ RecordWritten(m, [item |-> req[w].item, open |-> req[w].open,
                                active |-> TRUE, registered |-> FALSE])
<1>1. req[w] \in MaintenanceServed /\ item \in [Items -> ItemRow]
  BY DEF RecordsForm, WellFormed
<1>2. req[w].item \in Items /\ req[w].open \in BOOLEAN
  BY <1>1, MaintenanceServedKnown DEF CreateMaintenanceCommit, Serving
<1>3. item' \in [Items -> ItemRow]
  BY <1>1, <1>2, WithStatusTyped DEF CreateMaintenanceCommit, ItemStatus
<1> QED
  BY <1>2, <1>3 DEF CreateMaintenanceCommit, RecordWritten, MaintenanceRow

(* Record m is completed (or left open, for a stale copy) and item i shows *)
(* what records are left open on it.                                       *)
Completed(m, i, open) ==
    /\ open => mnt[m].open
    /\ RecordWritten(m, [mnt[m] EXCEPT !.open = open, !.registered = TRUE])
    /\ item' \in [Items -> ItemRow]
    /\ WithStatus(i, IF OpenRecords(i) \ {m} # {} \/ (open /\ m \in OpenRecords(i))
                        THEN "Maintenance" ELSE FreeStatus(i))

LEMMA CompleteWrites ==
    ASSUME RecordsForm, NEW w \in Workers, CompleteMaintenanceCommit(w)
    PROVE  \E open \in BOOLEAN : Completed(req[w].mnt, req[w].loaded.item, open)
<1> DEFINE m == req[w].mnt
           i == req[w].loaded.item
           stays == Saved(mnt[m].open, req[w].loaded.open, FALSE)
           others == OpenRecords(i) \ {m}
           itself == {m} \cap {n \in OpenRecords(i) : stays}
           s == IF others # {} \/ (stays /\ m \in OpenRecords(i)) THEN "Maintenance" ELSE FreeStatus(i)
<1>1. m \in Records /\ mnt[m] \in MaintenanceRow /\ i \in Items /\ item \in [Items -> ItemRow]
  BY RecordFields DEF CompleteMaintenanceCommit, Serving, OnRecord, MaintenanceRow, RecordsForm, WellFormed
<1>2. stays \in BOOLEAN /\ (stays => mnt[m].open)
  BY <1>1 DEF Saved, MaintenanceRow
<1>3. others \cup itself # {} <=> others # {} \/ (stays /\ m \in OpenRecords(i))
  <2> HIDE DEF stays
  <2>1. CASE stays /\ m \in OpenRecords(i)
    <3>1. m \in itself
      BY <2>1
    <3> QED
      BY <2>1, <3>1
  <2>2. CASE ~(stays /\ m \in OpenRecords(i))
    <3>1. itself = {}
      BY <2>2
    <3>2. others \cup itself # {} <=> others # {}
      BY <3>1
    <3> HIDE DEF itself, others
    <3> QED
      BY <2>2, <3>2
  <2> QED
    BY <2>1, <2>2
<1>4. WithStatus(i, s)
  <2>1. WithStatus(i, IF others \cup itself # {} THEN "Maintenance" ELSE FreeStatus(i))
    BY DEF CompleteMaintenanceCommit
  <2> QED
    BY <1>3, <2>1
<1>5. s \in ItemStatus
  BY <1>1, FreeStatusKnown DEF ItemStatus
<1>6. item' \in [Items -> ItemRow]
  BY <1>1, <1>4, <1>5, WithStatusTyped
<1>7. [mnt[m] EXCEPT !.open = stays, !.registered = TRUE] \in MaintenanceRow
  BY <1>1, <1>2 DEF MaintenanceRow
<1>8. mnt' = [mnt EXCEPT ![m] = [mnt[m] EXCEPT !.open = stays, !.registered = TRUE]]
  <2>1. mnt' = [mnt EXCEPT ![m].open = stays, ![m].registered = TRUE]
    BY DEF CompleteMaintenanceCommit
  <2>2. mnt \in [Records -> MaintenanceRow \cup {NoRecord}]
    BY DEF RecordsForm
  <2> QED
    BY <1>1, <2>1, <2>2
<1> HIDE DEF stays, s
<1>9. RecordWritten(m, [mnt[m] EXCEPT !.open = stays, !.registered = TRUE])
  BY <1>7, <1>8 DEF RecordWritten
<1>10. Completed(m, i, stays)
  BY <1>2, <1>4, <1>6, <1>9 DEF Completed, s
<1> QED
  BY <1>2, <1>10

LEMMA UpdateWrites ==
    ASSUME RecordsForm, NEW w \in Workers, UpdateMaintenanceSave(w)
    PROVE  LET m == req[w].mnt
               loaded == req[w].loaded
               i == Edited(loaded.item, req[w].item)
               open == Edited(loaded.open, req[w].open)
           IN  /\ i \in Items /\ open \in BOOLEAN
               /\ RecordWritten(m, [mnt[m] EXCEPT !.item = Saved(@, loaded.item, i),
                                                  !.open = Saved(@, loaded.open, open)])
<1> DEFINE m == req[w].mnt
           loaded == req[w].loaded
           i == Edited(loaded.item, req[w].item)
           open == Edited(loaded.open, req[w].open)
           row == [mnt[m] EXCEPT !.item = Saved(@, loaded.item, i),
                                 !.open = Saved(@, loaded.open, open)]
<1>1. /\ req[w] \in MaintenanceServed /\ req[w].op = "UpdateMaintenance"
      /\ mnt \in [Records -> MaintenanceRow \cup {NoRecord}]
  BY DEF RecordsForm, WellFormed, UpdateMaintenanceSave, Serving
<1>2. m \in Records /\ mnt[m] \in MaintenanceRow /\ loaded \in MaintenanceRow
  BY <1>1, RecordFields DEF OnRecord
<1>3. i \in Items /\ open \in BOOLEAN
  BY <1>1, <1>2, MaintenanceServedKnown, EditedTyped DEF MaintenanceRow
<1> HIDE DEF i, open
<1>4. row \in MaintenanceRow
  BY <1>2, <1>3 DEF MaintenanceRow, Saved
<1>5. mnt' = [mnt EXCEPT ![m] = row]
  <2>1. mnt' = [mnt EXCEPT ![m].item = Saved(@, loaded.item, i),
                           ![m].open = Saved(@, loaded.open, open)]
    BY DEF UpdateMaintenanceSave, i, open
  <2> QED
    BY <1>1, <1>2, <2>1 DEF MaintenanceRow
<1> QED
  BY <1>3, <1>4, <1>5 DEF RecordWritten, i, open

LEMMA RemoveWrites ==
    ASSUME RecordsForm, NEW w \in Workers, RemoveMaintenanceSave(w)
    PROVE  RecordWritten(req[w].mnt, [mnt[req[w].mnt] EXCEPT
                                         !.active = Saved(@, req[w].loaded.active, FALSE)])
<1> DEFINE m == req[w].mnt
           loaded == req[w].loaded
           row == [mnt[m] EXCEPT !.active = Saved(@, loaded.active, FALSE)]
<1>2. /\ m \in Records /\ mnt[m] \in MaintenanceRow /\ loaded \in MaintenanceRow
      /\ mnt \in [Records -> MaintenanceRow \cup {NoRecord}]
  BY RecordFields DEF OnRecord, RemoveMaintenanceSave, Serving, RecordsForm
<1>3. row \in MaintenanceRow
  BY <1>2 DEF MaintenanceRow, Saved
<1>4. mnt' = [mnt EXCEPT ![m] = row]
  BY <1>2 DEF RemoveMaintenanceSave, MaintenanceRow
<1> QED
  BY <1>3, <1>4 DEF RecordWritten
(* Every step of the maintenance handlers keeps the form. *)
LEMMA MaintenanceStepForm ==
    ASSUME RecordsForm, NEW w \in Workers, MaintenanceStep(w)
    PROVE  RecordsForm'
<1> DEFINE R == MaintenanceServed
           M == MaintenanceRow \cup {NoRecord}
<1>t. /\ item \in [Items -> ItemRow] /\ req \in [Workers -> R] /\ req[w] \in R
      /\ mnt \in [Records -> M]
  BY DEF RecordsForm, WellFormed
<1>k. Idle \in R /\ Idle.op \notin Naming \cup OnRecord
  BY MaintenanceServedKnown DEF AssignmentRequestsIn, ItemRequestsIn, Idle, Naming, OnRecord
<1>n. {"CreateMaintenance", "Force", "SyncRecords", "SyncItem", "Settle"} \cap (Naming \cup OnRecord) = {}
      /\ OnRecord \cap Naming = {}
  BY DEF Naming, OnRecord
<1>s. mnt' = mnt => mnt' \in [Records -> M] /\ \A m \in Records : Recorded(m) => Recorded(m)'
  BY <1>t DEF Recorded
<1>1. ASSUME NEW i \in Items, NEW open \in MaintenanceOpens, CreateMaintenanceRead(w, i, open)
      PROVE  RecordsForm'
  <2> DEFINE r == [op |-> "CreateMaintenance", item |-> i, open |-> (open # FALSE)]
  <2>1. r \in R
    BY DEF MaintenanceServed, MaintenanceRequest
  <2>2. req' = [req EXCEPT ![w] = r] /\ UNCHANGED <<item, asg, mnt>>
    BY <1>1 DEF CreateMaintenanceRead, Starts
  <2> QED
    BY <1>n, <1>s, <1>t, <2>1, <2>2, RecordsFormKept
<1>2. ASSUME NEW m \in Records, CreateMaintenanceCommit(w, m)
      PROVE  RecordsForm'
  BY <1>2, <1>k, <1>t, CreateWrites, RecordWrittenTyped, RecordsFormKept
     DEF CreateMaintenanceCommit, Ends
<1>3. ASSUME NEW m \in Records, NEW r \in R, Recorded(m), Starts(w, r), r.op \in OnRecord,
             r.mnt = m, UNCHANGED <<item, asg, mnt>>
      PROVE  RecordsForm'
  BY <1>3, <1>n, <1>s, <1>t, RecordsFormKept DEF Starts
<1>4. ASSUME NEW m \in Records, CompleteMaintenanceRead(w, m)
      PROVE  RecordsForm'
  <2>1. mnt[m] \in MaintenanceRow
    BY <1>4, <1>t, RecordedRow DEF CompleteMaintenanceRead
  <2>2. [op |-> "CompleteMaintenance", mnt |-> m, loaded |-> mnt[m]] \in R
    BY <2>1 DEF MaintenanceServed, MaintenanceRequest
  <2> QED
    BY <1>3, <1>4, <2>2 DEF CompleteMaintenanceRead, OnRecord
<1>5. ASSUME NEW m \in Records, NEW i \in MaintenanceItems, NEW open \in MaintenanceOpens,
             UpdateMaintenanceRead(w, m, i, open)
      PROVE  RecordsForm'
  <2>1. mnt[m] \in MaintenanceRow
    BY <1>5, <1>t, RecordedRow DEF UpdateMaintenanceRead
  <2>2. [op |-> "UpdateMaintenance", mnt |-> m, loaded |-> mnt[m], item |-> i, open |-> open] \in R
    BY <2>1, MaintenanceConstants DEF MaintenanceServed, MaintenanceRequest
  <2> QED
    BY <1>3, <1>5, <2>2 DEF UpdateMaintenanceRead, OnRecord
<1>6. ASSUME NEW m \in Removals, RemoveMaintenanceRead(w, m)
      PROVE  RecordsForm'
  <2>1. m \in Records /\ mnt[m] \in MaintenanceRow
    BY <1>6, <1>t, MaintenanceConstants, RecordedRow DEF RemoveMaintenanceRead
  <2>2. [op |-> "RemoveMaintenance", mnt |-> m, loaded |-> mnt[m]] \in R
    BY <2>1 DEF MaintenanceServed, MaintenanceRequest
  <2> QED
    BY <1>3, <1>6, <2>1, <2>2 DEF RemoveMaintenanceRead, OnRecord
<1>7. CASE CompleteMaintenanceCommit(w)
  <2>1. req[w].mnt \in Records
    BY <1>7, RecordFields DEF CompleteMaintenanceCommit, Serving, OnRecord
  <2>2. /\ item' \in [Items -> ItemRow] /\ mnt' \in [Records -> M]
        /\ \A m \in Records : Recorded(m) => Recorded(m)'
    BY <1>7, <1>t, <2>1, CompleteWrites, RecordWrittenTyped DEF Completed
  <2> QED
    BY <1>7, <1>k, <2>2, RecordsFormKept DEF CompleteMaintenanceCommit, Ends
<1>8. CASE UpdateMaintenanceSave(w)
  <2> DEFINE loaded == req[w].loaded
             i == Edited(loaded.item, req[w].item)
             open == Edited(loaded.open, req[w].open)
             r == IF i # loaded.item THEN [op |-> "Force", item |-> i, then |-> loaded.item]
                  ELSE IF open THEN [op |-> "Force", item |-> i, then |-> NoItem]
                  ELSE Idle
  <2>1. req[w].mnt \in Records /\ loaded \in MaintenanceRow
    BY <1>8, RecordFields DEF UpdateMaintenanceSave, Serving, OnRecord
  <2>2. /\ i \in Items /\ mnt' \in [Records -> M]
        /\ \A m \in Records : Recorded(m) => Recorded(m)'
    BY <1>8, <1>t, <2>1, UpdateWrites, RecordWrittenTyped
  <2>3. loaded.item \in Items
    BY <2>1 DEF MaintenanceRow
  <2>4. req' = [req EXCEPT ![w] = r] /\ UNCHANGED <<item, asg>>
    BY <1>8 DEF UpdateMaintenanceSave
  <2> HIDE DEF i, open
  <2>5. r \in R /\ r.op \notin Naming \cup OnRecord
    BY <1>k, <1>n, <2>2, <2>3 DEF MaintenanceServed, MaintenanceRequest
  <2> HIDE DEF r
  <2> QED
    BY <1>t, <2>2, <2>4, <2>5, RecordsFormKept
<1>9. CASE RemoveMaintenanceSave(w)
  <2> DEFINE r == [op |-> "SyncRecords", item |-> req[w].loaded.item]
  <2>1. req[w].mnt \in Records /\ req[w].loaded \in MaintenanceRow
    BY <1>9, RecordFields DEF RemoveMaintenanceSave, Serving, OnRecord
  <2>2. /\ mnt' \in [Records -> M]
        /\ \A m \in Records : Recorded(m) => Recorded(m)'
    BY <1>9, <1>t, <2>1, RemoveWrites, RecordWrittenTyped
  <2>3. r \in R
    BY <2>1 DEF MaintenanceServed, MaintenanceRequest, MaintenanceRow
  <2>4. req' = [req EXCEPT ![w] = r] /\ UNCHANGED <<item, asg>>
    BY <1>9 DEF RemoveMaintenanceSave
  <2> QED
    BY <1>n, <1>t, <2>2, <2>3, <2>4, RecordsFormKept
<1>10. CASE ForceItem(w)
  <2> DEFINE r == IF req[w].then = NoItem THEN Idle
                  ELSE [op |-> "SyncRecords", item |-> req[w].then]
  <2>1. req[w].item \in Items /\ req[w].then \in Items \cup {NoItem}
    BY <1>10, <1>t, MaintenanceServedKnown DEF ForceItem, Serving
  <2>2. item' \in [Items -> ItemRow]
    BY <1>10, <1>t, <2>1, WithStatusTyped DEF ForceItem, ItemStatus
  <2>3. r \in R /\ r.op \notin Naming \cup OnRecord
    BY <1>k, <1>n, <2>1 DEF MaintenanceServed, MaintenanceRequest
  <2>4. req' = [req EXCEPT ![w] = r] /\ UNCHANGED <<asg, mnt>>
    BY <1>10 DEF ForceItem
  <2> HIDE DEF r
  <2> QED
    BY <1>s, <1>t, <2>2, <2>3, <2>4, RecordsFormKept
<1>11. CASE SyncRecords(w)
  <2> DEFINE r == IF OpenRecords(req[w].item) # {}
                    THEN [op |-> "Settle", item |-> req[w].item, status |-> "Maintenance"]
                    ELSE [op |-> "SyncItem", item |-> req[w].item]
  <2>1. req[w].item \in Items
    BY <1>11, <1>t, MaintenanceServedKnown DEF SyncRecords, Serving
  <2>3. r \in R /\ r.op \notin Naming \cup OnRecord
    BY <1>n, <2>1 DEF MaintenanceServed, MaintenanceRequest, ItemStatus
  <2>4. req' = [req EXCEPT ![w] = r] /\ UNCHANGED <<item, asg, mnt>>
    BY <1>11 DEF SyncRecords
  <2> HIDE DEF r
  <2> QED
    BY <1>s, <1>t, <2>3, <2>4, RecordsFormKept
<1>12. CASE SyncItem(w)
  <2> DEFINE r == [op |-> "Settle", item |-> req[w].item, status |-> FreeStatus(req[w].item)]
  <2>1. req[w].item \in Items
    BY <1>12, <1>t, MaintenanceServedKnown DEF SyncItem, Serving
  <2>3. r \in R
    BY <2>1, FreeStatusKnown DEF MaintenanceServed, MaintenanceRequest
  <2>4. req' = [req EXCEPT ![w] = r] /\ UNCHANGED <<item, asg, mnt>>
    BY <1>12 DEF SyncItem
  <2> QED
    BY <1>n, <1>s, <1>t, <2>3, <2>4, RecordsFormKept
<1>13. CASE Settle(w)
  <2>1. req[w].item \in Items /\ req[w].status \in ItemStatus
    BY <1>13, <1>t, MaintenanceServedKnown DEF Settle, Serving
  <2>2. item' \in [Items -> ItemRow]
    BY <1>13, <1>t, <2>1, WithStatusTyped DEF Settle
  <2> QED
    BY <1>13, <1>k, <1>s, <1>t, <2>2, RecordsFormKept DEF Settle, Ends
<1> QED
  BY <1>1, <1>2, <1>4, <1>5, <1>6, <1>7, <1>8, <1>9, <1>10, <1>11, <1>12, <1>13
     DEF MaintenanceStep

(* So do the handlers beside them: they name and write no record. *)
LEMMA BesideStepForm ==
    ASSUME RecordsForm, NEW w \in Workers,
           \/ AssignmentStep(w)
           \/ ItemStep(w) /\ UNCHANGED asg
           \/ Fail(w) /\ UNCHANGED <<item, asg>>,
           UNCHANGED mnt
    PROVE  RecordsForm'
<1>t. /\ WellFormed(MaintenanceServed) /\ req \in [Workers -> MaintenanceServed]
      /\ AssignmentRequestsIn(MaintenanceServed)
  BY MaintenanceServedKnown DEF RecordsForm, WellFormed
<1>1. WellFormed(MaintenanceServed)'
  BY <1>t, AssignmentsKeepForm
<1>2. \A v \in Workers \ {w} : req'[v] = req[v]
  BY <1>t, OthersKept
<1>3. req'[w].op \notin OnRecord
  BY <1>t, StartsInOwn DEF OnRecord, AssignmentOps, Naming
<1>4. \A v \in Workers : NamesRecord(v)'
  BY <1>2, <1>3 DEF RecordsForm, NamesRecord, Recorded
<1> QED
  BY <1>1, <1>4 DEF RecordsForm

LEMMA RecordsFormInit == MInit => RecordsForm
<1>1. Idle \in MaintenanceServed
  BY MaintenanceServedKnown DEF AssignmentRequestsIn, ItemRequestsIn
<1>2. MInit => WellFormed(MaintenanceServed)
  BY <1>1, FormInit DEF MInit
<1> QED
  BY <1>2 DEF MInit, MaintenanceInit, AInit, ItemsInit, RecordsForm, NamesRecord, Idle, OnRecord

LEMMA RecordsFormStep ==
    ASSUME RecordsForm, [MNext]_mvars
    PROVE  RecordsForm'
<1>1. CASE UNCHANGED mvars
  BY <1>1 DEF mvars, RecordsForm, WellFormed, NamesWritten, Written, NamesRecord, Recorded
<1> QED
  BY <1>1, MaintenanceStepForm, BesideStepForm DEF MNext

LEMMA RecordsFormHolds == MSpec => []RecordsForm
  BY RecordsFormInit, RecordsFormStep, PTL DEF MSpec

(* Documents and requests keep their shape beside maintenance too: a       *)
(* record always names an item, and an item always has one of the statuses *)
(* of the schema, whichever handlers bring it up to date.                  *)
THEOREM MaintenanceTypesHold == MSpec => []MaintenanceTypeOK
<1>1. RecordsForm => MaintenanceTypeOK
  BY DEF RecordsForm, WellFormed, MaintenanceTypeOK, MaintenanceServed, OwnRequests
<1> QED
  BY <1>1, RecordsFormHolds, PTL

-----------------------------------------------------------------------------
(* Items in repair.  A request frees items that had no open record when it *)
(* looked, and another one opens records on items.                         *)
Frees(w) == {i \in {req[w].item} :
                \/ req[w].op \in {"Handover", "SyncItem"}
                \/ req[w].op = "SignedReturn" /\ req[w].next # "Maintenance"
                \/ req[w].op = "Settle" /\ req[w].status # "Maintenance"}

Opens(w) == {i \in Items :
                \/ req[w].op \in {"CreateMaintenance", "Force"} /\ i = req[w].item
                \/ /\ req[w].op = "UpdateMaintenance"
                   /\ i = Edited(req[w].loaded.item, req[w].item)}

(* No two requests do both to one item at once, and no record is edited by *)
(* two requests at once.  The code does not rule this out; everything else *)
(* overlaps as it likes.                                                   *)
OpenedApart ==
    \A v, w \in Workers :
        /\ Frees(v) \cap Opens(w) = {}
        /\ req[v].op = "UpdateMaintenance" /\ req[w].op = "UpdateMaintenance"
              => (req[v].mnt = req[w].mnt => v = w)

BeingForced(i) == \E w \in Workers : req[w].op = "Force" /\ req[w].item = i

(* What is asked of the PUTs of items: none that is in progress says of an *)
(* item in repair that it is functional, and none puts a retired item in   *)
(* use again.  The code asks neither: a body that names no status resets   *)
(* an item in maintenance that is still functional, and this by itself     *)
(* makes the item free, whatever overlaps.                                 *)
NoPutReleases ==
    \A w \in Workers : req[w].op = "UpdateItem" =>
        /\ req[w].active # TRUE
        /\ OpenRecords(req[w].item) # {} => req[w].functional # "Functional"

OutForRepair(i) == OpenRecords(i) # {} /\ item[i].active /\ item[i].functional = "Functional"
                      => item[i].status = "Maintenance" \/ BeingForced(i)

KnowsRepair(w) ==
    /\ \A i \in Frees(w) :
          OpenRecords(i) = {} \/ ~item[i].active \/ item[i].functional # "Functional"
    /\ req[w].op = "UpdateMaintenance" => mnt[req[w].mnt].item = req[w].loaded.item
    /\ req[w].op = "RemoveItem" => (~req[w].loaded.active => ~item[req[w].item].active)

RepairInv == /\ \A i \in Items : OutForRepair(i)
             /\ \A w \in Workers : KnowsRepair(w)

StepOf(w) == \/ MaintenanceStep(w)
             \/ AssignmentStep(w) /\ UNCHANGED mnt
             \/ ItemStep(w) /\ UNCHANGED <<asg, mnt>>
             \/ Fail(w) /\ ~Unfinished(w) /\ UNCHANGED <<item, asg, mnt>>

LEMMA FreesItem ==
    ASSUME RecordsForm, NEW w \in Workers
    PROVE  Frees(w) \subseteq Items
<1>1. req[w] \in MaintenanceServed
  BY DEF RecordsForm, WellFormed
<1> QED
  BY <1>1, MaintenanceServedKnown DEF Frees, AssignmentRequestsIn

(* A step of worker w changes no other request. *)
LEMMA StepOfOneWorker ==
    ASSUME RecordsForm, NEW w \in Workers, StepOf(w)
    PROVE  \A v \in Workers \ {w} : req'[v] = req[v]
<1>t. WellFormed(MaintenanceServed) /\ req \in [Workers -> MaintenanceServed]
  BY DEF RecordsForm, WellFormed
<1>1. CASE AssignmentStep(w) \/ ItemStep(w) \/ Fail(w)
  BY <1>1, <1>t, OthersKept
<1>2. CASE MaintenanceStep(w)
  <2>1. ASSUME NEW r, req' = [req EXCEPT ![w] = r]
        PROVE  \A v \in Workers \ {w} : req'[v] = req[v]
    BY <1>t, <2>1
  <2>2. \E r : req' = [req EXCEPT ![w] = r]
    BY <1>2 DEF MaintenanceStep, CreateMaintenanceRead, CreateMaintenanceCommit,
                CompleteMaintenanceRead, CompleteMaintenanceCommit, UpdateMaintenanceRead,
                UpdateMaintenanceSave, RemoveMaintenanceRead, RemoveMaintenanceSave, ForceItem,
                SyncRecords, SyncItem, Settle, Starts, Ends
  <2> QED
    BY <2>1, <2>2
<1> QED
  BY <1>1, <1>2 DEF StepOf

(* Records are opened on the items the request says and on no others. *)
LEMMA OpensOnly ==
    ASSUME RecordsForm, NEW w \in Workers, KnowsRepair(w), StepOf(w), NEW i \in Items
    PROVE  OpenRecords(i)' \subseteq OpenRecords(i) \/ i \in Opens(w)
<1>t. mnt \in [Records -> MaintenanceRow \cup {NoRecord}]
  BY DEF RecordsForm
<1>1. ASSUME mnt' = mnt PROVE OpenRecords(i)' \subseteq OpenRecords(i)
  BY <1>1 DEF OpenRecords, InRepair, Recorded
<1>2. ASSUME NEW m \in Records, NEW row, RecordWritten(m, row),
             (row.open /\ row.active /\ row.item = i) => m \in OpenRecords(i) \/ i \in Opens(w)
      PROVE  OpenRecords(i)' \subseteq OpenRecords(i) \/ i \in Opens(w)
  <2>1. \A n \in Records : mnt'[n] = IF n = m THEN row ELSE mnt[n]
    BY <1>2, <1>t, RecordWrittenTyped
  <2>2. \A n \in OpenRecords(i)' : n # m => n \in OpenRecords(i)
    BY <2>1 DEF OpenRecords, InRepair, Recorded
  <2>3. m \in OpenRecords(i)' => row.open /\ row.active /\ row.item = i
    BY <2>1 DEF OpenRecords, InRepair
  <2> QED
    BY <1>2, <2>2, <2>3
<1>o. ASSUME NEW m \in Records, mnt[m] \in MaintenanceRow, mnt[m].open, mnt[m].active,
             mnt[m].item = i
      PROVE  m \in OpenRecords(i)
  BY <1>o, <1>t, RecordedRow DEF OpenRecords, InRepair
<1>3. ASSUME NEW m \in Records, CreateMaintenanceCommit(w, m)
      PROVE  OpenRecords(i)' \subseteq OpenRecords(i) \/ i \in Opens(w)
  <2>1. i = req[w].item => i \in Opens(w)
    BY <1>3 DEF Opens, CreateMaintenanceCommit, Serving
  <2> QED
    BY <1>2, <1>3, <2>1, CreateWrites
<1>4. CASE CompleteMaintenanceCommit(w)
  <2>1. req[w].mnt \in Records /\ mnt[req[w].mnt] \in MaintenanceRow
    BY <1>4, RecordFields DEF CompleteMaintenanceCommit, Serving, OnRecord
  <2>2. PICK open \in BOOLEAN : Completed(req[w].mnt, req[w].loaded.item, open)
    BY <1>4, CompleteWrites
  <2> DEFINE row == [mnt[req[w].mnt] EXCEPT !.open = open, !.registered = TRUE]
  <2>3. row.item = mnt[req[w].mnt].item /\ row.active = mnt[req[w].mnt].active /\ row.open = open
    BY <2>1 DEF MaintenanceRow
  <2>4. RecordWritten(req[w].mnt, row) /\ (open => mnt[req[w].mnt].open)
    BY <2>2 DEF Completed
  <2> HIDE DEF row
  <2> QED
    BY <1>2, <1>o, <2>1, <2>3, <2>4
<1>5. CASE UpdateMaintenanceSave(w)
  <2> DEFINE m == req[w].mnt
             loaded == req[w].loaded
             j == Edited(loaded.item, req[w].item)
             open == Edited(loaded.open, req[w].open)
             row == [mnt[m] EXCEPT !.item = Saved(@, loaded.item, j),
                                   !.open = Saved(@, loaded.open, open)]
  <2>1. m \in Records /\ mnt[m] \in MaintenanceRow /\ loaded \in MaintenanceRow
    BY <1>5, RecordFields DEF UpdateMaintenanceSave, Serving, OnRecord
  <2>2. RecordWritten(m, row) /\ j \in Items
    BY <1>5, UpdateWrites
  <2>3. mnt[m].item = loaded.item /\ req[w].op = "UpdateMaintenance"
    BY <1>5 DEF KnowsRepair, UpdateMaintenanceSave, Serving
  <2>4. row.item = j
    BY <2>1, <2>3 DEF MaintenanceRow, Saved
  <2>5. i = j => i \in Opens(w)
    BY <2>3 DEF Opens
  <2> HIDE DEF row, j
  <2> QED
    BY <1>2, <2>1, <2>2, <2>4, <2>5
<1>6. CASE RemoveMaintenanceSave(w)
  <2> DEFINE m == req[w].mnt
             row == [mnt[m] EXCEPT !.active = Saved(@, req[w].loaded.active, FALSE)]
  <2>1. m \in Records /\ mnt[m] \in MaintenanceRow
    BY <1>6, RecordFields DEF RemoveMaintenanceSave, Serving, OnRecord
  <2>2. row.item = mnt[m].item /\ row.open = mnt[m].open /\ (row.active => mnt[m].active)
    BY <2>1 DEF MaintenanceRow, Saved
  <2>3. RecordWritten(m, row)
    BY <1>6, RemoveWrites
  <2> HIDE DEF row
  <2> QED
    BY <1>2, <1>o, <2>1, <2>2, <2>3
<1> QED
  BY <1>1, <1>3, <1>4, <1>5, <1>6
     DEF StepOf, MaintenanceStep, CreateMaintenanceRead, CompleteMaintenanceRead,
         UpdateMaintenanceRead, RemoveMaintenanceRead, ForceItem, SyncRecords, SyncItem, Settle

(* Retirement is for good, only a PUT changes the functional status, and a *)
(* step that takes an item out of maintenance has a reason to.             *)
LEMMA RepairStatus ==
    ASSUME RecordsForm, RepairInv, NoPutReleases, NEW w \in Workers, StepOf(w), NEW i \in Items
    PROVE  /\ item'[i].active => item[i].active
           /\ \/ item'[i].functional = item[i].functional
              \/ item'[i].functional # "Functional"
              \/ OpenRecords(i)' = {}
           /\ \/ item'[i].status = item[i].status
              \/ item'[i].status = "Maintenance"
              \/ ~item'[i].active
              \/ item'[i].functional # "Functional"
              \/ i \in Frees(w)
              \/ OpenRecords(i)' = {}
<1> DEFINE Goal == /\ item'[i].active => item[i].active
                   /\ \/ item'[i].functional = item[i].functional
                      \/ item'[i].functional # "Functional"
                      \/ OpenRecords(i)' = {}
                   /\ \/ item'[i].status = item[i].status
                      \/ item'[i].status = "Maintenance"
                      \/ ~item'[i].active
                      \/ item'[i].functional # "Functional"
                      \/ i \in Frees(w)
                      \/ OpenRecords(i)' = {}
<1>t. /\ WellFormed(MaintenanceServed) /\ item \in [Items -> ItemRow]
      /\ req[w] \in MaintenanceServed /\ AssignmentRequestsIn(MaintenanceServed)
      /\ mnt \in [Records -> MaintenanceRow \cup {NoRecord}]
  BY MaintenanceServedKnown DEF RecordsForm, WellFormed
<1>1. CASE item' = item
  BY <1>1
<1>2. ASSUME NEW j \in Items, NEW s \in ItemStatus, WithStatus(j, s),
             j = i => s = "Maintenance" \/ i \in Frees(w) \/ OpenRecords(i)' = {}
      PROVE  Goal
  BY <1>2, <1>t, WithStatusTyped
<1>3. CASE /\ req[w].op \in ItemWriters /\ mnt' = mnt
           /\ item' = [item EXCEPT ![req[w].item] = WrittenBy(req[w], item[req[w].item])]
  <2> DEFINE x == item[i]
             y == WrittenBy(req[w], x)
  <2>1. req[w].item \in Items
    BY <1>3, <1>t, ItemWriterFields
  <2>2. item'[i] = IF i = req[w].item THEN y ELSE x
    BY <1>3, <1>t, <2>1
  <2>3. x \in ItemRow
    BY <1>t
  <2>7. CASE req[w].op = "UpdateItem"
    <3>1. /\ y.functional = req[w].functional
          /\ y.active = Edited(x.active, req[w].active)
      BY <2>3, <2>7 DEF WrittenBy, EditedRow, ItemRow
    <3>2. req[w].active \in BOOLEAN \cup {Keep} /\ req[w].active # TRUE
      BY <1>t, <2>7 DEF AssignmentRequestsIn, ItemRequestsIn, NoPutReleases
    <3>3. y.active => x.active
      BY <2>3, <3>1, <3>2 DEF Edited, ItemRow
    <3>4. OpenRecords(i)' = OpenRecords(i)
      BY <1>3 DEF OpenRecords, InRepair, Recorded
    <3>5. i = req[w].item => y.functional # "Functional" \/ OpenRecords(i) = {}
      BY <2>7, <3>1 DEF NoPutReleases
    <3> HIDE DEF y
    <3> QED
      BY <2>2, <3>3, <3>4, <3>5
  <2>4. CASE req[w].op = "Handover"
    BY <2>2, <2>3, <2>4 DEF WrittenBy, ItemRow, Frees
  <2>5. CASE req[w].op = "SignedReturn"
    BY <2>2, <2>3, <2>5 DEF WrittenBy, ItemRow, Frees
  <2>6. CASE req[w].op = "RemoveItem"
    <3>1. i = req[w].item => y.active = Saved(x.active, req[w].loaded.active, FALSE)
      BY <2>3, <2>6 DEF WrittenBy, RetiredRow, ItemRow
    <3>2. req[w].loaded.active \in BOOLEAN
      BY <1>t, <2>6 DEF AssignmentRequestsIn, ItemRequestsIn, ItemRow
    <3>3. i = req[w].item => (~req[w].loaded.active => ~x.active)
      BY <2>6 DEF RepairInv, KnowsRepair
    <3>4. i = req[w].item => ~y.active
      BY <3>1, <3>2, <3>3 DEF Saved
    <3>5. y.functional = x.functional
      BY <2>3, <2>6 DEF WrittenBy, RetiredRow, ItemRow
    <3> QED
      BY <2>2, <3>4, <3>5
  <2> QED
    BY <1>3, <2>4, <2>5, <2>6, <2>7 DEF ItemWriters
<1>4. CASE (AssignmentStep(w) \/ ItemStep(w)) /\ mnt' = mnt
  BY <1>1, <1>3, <1>4, <1>t, ItemWrite
<1>5. ASSUME NEW m \in Records, CreateMaintenanceCommit(w, m)
      PROVE  Goal
  <2>1. req[w].item \in Items /\ WithStatus(req[w].item, "Maintenance")
    BY <1>5, CreateWrites DEF CreateMaintenanceCommit
  <2> QED
    BY <1>2, <2>1 DEF ItemStatus
<1>6. CASE CompleteMaintenanceCommit(w)
  <2>r. /\ req[w].mnt \in Records /\ mnt[req[w].mnt] \in MaintenanceRow
        /\ req[w].loaded.item \in Items
    BY <1>6, RecordFields DEF CompleteMaintenanceCommit, Serving, OnRecord, MaintenanceRow
  <2>m. PICK m \in Records : m = req[w].mnt
    BY <2>r
  <2>j. PICK j \in Items : j = req[w].loaded.item
    BY <2>r
  <2>1. mnt[m] \in MaintenanceRow
    BY <2>m, <2>r
  <2>2. PICK open \in BOOLEAN : Completed(m, j, open)
    BY <1>6, <2>m, <2>j, CompleteWrites
  <2> DEFINE row == [mnt[m] EXCEPT !.open = open, !.registered = TRUE]
             left == OpenRecords(j) \ {m} # {} \/ (open /\ m \in OpenRecords(j))
  <2>3. WithStatus(j, IF left THEN "Maintenance" ELSE FreeStatus(j)) /\ RecordWritten(m, row)
        /\ (open => mnt[m].open)
    BY <2>2 DEF Completed
  <2>4. \A n \in Records : mnt'[n] = IF n = m THEN row ELSE mnt[n]
    BY <1>t, <2>1, <2>3, RecordWrittenTyped
  <2>5. row.item = mnt[m].item /\ row.active = mnt[m].active /\ row.open = open
    BY <2>1 DEF MaintenanceRow
  <2> HIDE DEF row
  <2>6. \A n \in OpenRecords(j)' : n \in OpenRecords(j) /\ (n = m => open)
    BY <1>t, <2>1, <2>3, <2>4, <2>5, RecordedRow DEF OpenRecords, InRepair, Recorded
  <2>7. ~left => OpenRecords(j)' = {}
    BY <2>6
  <2> HIDE DEF left
  <2>8. CASE left
    BY <1>2, <2>1, <2>3, <2>8 DEF ItemStatus
  <2>9. CASE ~left
    <3>1. FreeStatus(j) \in ItemStatus /\ WithStatus(j, FreeStatus(j))
      BY <2>1, <2>3, <2>9, FreeStatusKnown
    <3> QED
      BY <1>2, <2>1, <2>7, <2>9, <3>1
  <2> QED
    BY <2>8, <2>9
<1>7. CASE ForceItem(w)
  <2>1. req[w].item \in Items /\ WithStatus(req[w].item, "Maintenance")
    BY <1>7, <1>t, MaintenanceServedKnown DEF ForceItem, Serving
  <2> QED
    BY <1>2, <2>1 DEF ItemStatus
<1>8. CASE Settle(w)
  <2>1. /\ req[w].item \in Items /\ req[w].status \in ItemStatus
        /\ WithStatus(req[w].item, req[w].status)
        /\ req[w].status # "Maintenance" => req[w].item \in Frees(w)
    BY <1>8, <1>t, MaintenanceServedKnown DEF Settle, Serving, Frees
  <2> QED
    BY <1>2, <2>1
<1> QED
  BY <1>1, <1>4, <1>5, <1>6, <1>7, <1>8
     DEF StepOf, MaintenanceStep, CreateMaintenanceRead, CompleteMaintenanceRead,
         UpdateMaintenanceRead, UpdateMaintenanceSave, RemoveMaintenanceRead,
         RemoveMaintenanceSave, SyncRecords, SyncItem


(* A step that opens a record on an item shows it in maintenance at once,  *)
(* or leaves a request behind that is about to.                            *)
LEMMA RepairForces ==
    ASSUME RecordsForm, NEW w \in Workers, KnowsRepair(w), StepOf(w), NEW i \in Items,
           ~(OpenRecords(i)' \subseteq OpenRecords(i))
    PROVE  item'[i].status = "Maintenance" \/ BeingForced(i)'
<1>t. /\ item \in [Items -> ItemRow] /\ req \in [Workers -> MaintenanceServed]
      /\ mnt \in [Records -> MaintenanceRow \cup {NoRecord}]
  BY DEF RecordsForm, WellFormed
<1>1. i \in Opens(w)
  BY OpensOnly
<1>2. mnt' # mnt
  <2>1. mnt' = mnt => OpenRecords(i)' \subseteq OpenRecords(i)
    BY DEF OpenRecords, InRepair, Recorded
  <2> QED
    BY <2>1
<1>3. \/ \E m \in Records : CreateMaintenanceCommit(w, m)
      \/ CompleteMaintenanceCommit(w) \/ UpdateMaintenanceSave(w) \/ RemoveMaintenanceSave(w)
  BY <1>2 DEF StepOf, MaintenanceStep, CreateMaintenanceRead, CompleteMaintenanceRead,
              UpdateMaintenanceRead, RemoveMaintenanceRead, ForceItem, SyncRecords, SyncItem, Settle
<1>4. ASSUME NEW m \in Records, CreateMaintenanceCommit(w, m)
      PROVE  item'[i].status = "Maintenance"
  <2>1. i = req[w].item
    BY <1>1, <1>4 DEF Opens, CreateMaintenanceCommit, Serving
  <2> QED
    BY <1>4, <1>t, <2>1, WithStatusTyped DEF CreateMaintenanceCommit, ItemStatus
<1>5. CASE UpdateMaintenanceSave(w)
  <2> DEFINE loaded == req[w].loaded
             j == Edited(loaded.item, req[w].item)
             open == Edited(loaded.open, req[w].open)
  <2>1. /\ req[w].mnt \in Records /\ mnt[req[w].mnt] \in MaintenanceRow /\ loaded \in MaintenanceRow
        /\ req[w].op = "UpdateMaintenance"
    BY <1>5, RecordFields DEF UpdateMaintenanceSave, Serving, OnRecord
  <2>2. i = j /\ mnt[req[w].mnt].item = loaded.item /\ open \in BOOLEAN
    BY <1>1, <1>5, <2>1, UpdateWrites DEF Opens, KnowsRepair
  <2>3. CASE j # loaded.item \/ open
    <3>1. /\ j # loaded.item => req'[w] = [op |-> "Force", item |-> j, then |-> loaded.item]
          /\ j = loaded.item => req'[w] = [op |-> "Force", item |-> j, then |-> NoItem]
      BY <1>5, <1>t, <2>3 DEF UpdateMaintenanceSave
    <3>2. req'[w].op = "Force" /\ req'[w].item = i
      BY <2>2, <3>1
    <3> QED
      BY <3>2 DEF BeingForced
  <2>4. CASE j = loaded.item /\ ~open
    <3>m. PICK m \in Records : m = req[w].mnt
      BY <2>1
    <3> DEFINE row == [mnt[m] EXCEPT !.item = Saved(@, loaded.item, j),
                                     !.open = Saved(@, loaded.open, open)]
    <3>1. RecordWritten(m, row)
      BY <1>5, <3>m, UpdateWrites
    <3>2. mnt[m] \in MaintenanceRow /\ row.item = i /\ mnt[m].item = i
          /\ row.active = mnt[m].active /\ (row.open => mnt[m].open)
      BY <2>1, <2>2, <2>4, <3>m DEF MaintenanceRow, Saved
    <3>3. \A n \in Records : mnt'[n] = IF n = m THEN row ELSE mnt[n]
      BY <1>t, <3>1, RecordWrittenTyped
    <3> HIDE DEF row
    <3>4. OpenRecords(i)' \subseteq OpenRecords(i)
      BY <1>t, <3>2, <3>3, RecordedRow DEF OpenRecords, InRepair, Recorded
    <3> QED
      BY <3>4
  <2> QED
    BY <2>2, <2>3, <2>4
<1>6. ~CompleteMaintenanceCommit(w) /\ ~RemoveMaintenanceSave(w)
  BY <1>1 DEF Opens, CompleteMaintenanceCommit, RemoveMaintenanceSave, Serving
<1> QED
  BY <1>3, <1>4, <1>5, <1>6

(* What follows an edit of a record is not left half done. *)
LEMMA ForcingGoesOn ==
    ASSUME NEW w \in Workers, StepOf(w), req[w].op = "Force"
    PROVE  ForceItem(w)
<1>1. \A r : ~Starts(w, r)
  BY DEF Starts, Idle
<1>2. ~AssignmentStep(w)
  BY <1>1 DEF AssignmentStep, CreateRead, ReassignRead, HandoverRead, RequestReturnRead,
              SignedReturnRead, RemoveAssignmentRead, UpdateAssignmentRead, CreateCommit,
              HandoverCommit, RequestReturnWrite, SignedReturnCommit, UpdateAssignmentWrite,
              RemoveAssignmentWrite, Serving
<1>3. ASSUME NEW i, NEW s, NEW f, NEW a, NEW act
      PROVE  ~UpdateItemRead(w, i, s, f, a, act)
  BY <1>1 DEF UpdateItemRead
<1>4. ~ItemStep(w)
  BY <1>1, <1>3 DEF ItemStep, UpdateItemWrite, RemoveItemRead, RemoveItemWrite, Serving
<1> QED
  BY <1>1, <1>2, <1>4
     DEF StepOf, Unfinished, MaintenanceStep, CreateMaintenanceRead, CreateMaintenanceCommit,
         CompleteMaintenanceRead, CompleteMaintenanceCommit, UpdateMaintenanceRead,
         UpdateMaintenanceSave, RemoveMaintenanceRead, RemoveMaintenanceSave, SyncRecords,
         SyncItem, Settle, Serving

LEMMA OutForRepairStep ==
    ASSUME RecordsForm, RepairInv, NoPutReleases, NEW w \in Workers, StepOf(w), NEW i \in Items
    PROVE  OutForRepair(i)'
<1>t. req \in [Workers -> MaintenanceServed]
  BY DEF RecordsForm, WellFormed
<1> SUFFICES ASSUME OpenRecords(i)' # {}, item'[i].active, item'[i].functional = "Functional",
                    item'[i].status # "Maintenance", OpenRecords(i)' \subseteq OpenRecords(i)
             PROVE  BeingForced(i)'
  BY RepairForces DEF OutForRepair, RepairInv
<1>1. /\ item[i].active /\ item[i].functional = "Functional"
      /\ OpenRecords(i) # {} /\ OutForRepair(i)
  BY RepairStatus DEF RepairInv
<1>2. i \notin Frees(w)
  BY <1>1 DEF RepairInv, KnowsRepair
<1>3. item'[i].status = item[i].status
  BY <1>2, RepairStatus
<1>4. PICK v \in Workers : req[v].op = "Force" /\ req[v].item = i
  BY <1>1, <1>3 DEF OutForRepair, BeingForced
<1>5. v # w
  <2> SUFFICES ASSUME v = w PROVE FALSE
    OBVIOUS
  <2>1. ForceItem(w)
    BY <1>4, ForcingGoesOn
  <2>2. item'[i].status = "Maintenance"
    BY <1>4, <2>1, WithStatusTyped DEF ForceItem, ItemStatus, RecordsForm, WellFormed
  <2> QED
    BY <2>2
<1>6. req'[v] = req[v]
  BY <1>5, StepOfOneWorker
<1> QED
  BY <1>4, <1>6 DEF BeingForced

(* What the handler of worker w knows when it starts or goes on. *)
LEMMA KnowsFromReads ==
    ASSUME RecordsForm, RepairInv, NEW w \in Workers, StepOf(w), OpenedApart'
    PROVE  KnowsRepair(w)'
<1>t. /\ WellFormed(MaintenanceServed) /\ req \in [Workers -> MaintenanceServed]
      /\ req[w] \in MaintenanceServed
  BY DEF RecordsForm, WellFormed
<1>k. \A v \in Workers : KnowsRepair(v)
  BY DEF RepairInv
<1>1. ASSUME req'[w].op \notin {"Handover", "SignedReturn", "SyncItem", "Settle",
                                "UpdateMaintenance", "RemoveItem"}
      PROVE  KnowsRepair(w)'
  BY <1>1 DEF KnowsRepair, Frees
<1>e. ASSUME Ends(w) PROVE KnowsRepair(w)'
  BY <1>1, <1>e, <1>t DEF Ends, Idle
<1>a. ASSUME NEW i \in Items, Assignable(item[i]) \/ item[i].status # "Maintenance",
             UNCHANGED <<item, mnt>>, i \in Frees(w)', req[w] = Idle
      PROVE  OpenRecords(i)' = {} \/ ~item'[i].active \/ item'[i].functional # "Functional"
  <2>1. OpenRecords(i)' = OpenRecords(i)
    BY <1>a DEF OpenRecords, InRepair, Recorded
  <2>2. ~BeingForced(i)
    <3> SUFFICES ASSUME NEW v \in Workers, req[v].op = "Force", req[v].item = i
                 PROVE  FALSE
      BY DEF BeingForced
    <3>1. v # w
      BY <1>a DEF Idle
    <3>2. req'[v] = req[v]
      BY <3>1, StepOfOneWorker
    <3>3. i \in Opens(v)'
      BY <3>2 DEF Opens
    <3> QED
      BY <1>a, <3>3 DEF OpenedApart
  <2>3. OutForRepair(i) /\ item[i].status # "Maintenance"
    BY <1>a DEF RepairInv, Assignable
  <2> QED
    BY <1>a, <2>1, <2>2, <2>3 DEF OutForRepair
<1>2. CASE \/ \E i \in Items, e \in Targets : CreateRead(w, i, e)
           \/ \E a \in Assignments :
                 \/ \E e \in Employees : ReassignRead(w, a, e)
                 \/ RequestReturnRead(w, a) \/ RemoveAssignmentRead(w, a)
                 \/ \E i \in ItemEdits, e \in EmployeeEdits, act \in IsActiveEdits, ret \in ReturnedEdits :
                       UpdateAssignmentRead(w, a, i, e, act, ret)
  <2>1. req'[w].op \in {"CreateAssignment", "RequestReturn", "RemoveAssignment", "UpdateAssignment"}
    BY <1>2, <1>t DEF CreateRead, ReassignRead, RequestReturnRead, RemoveAssignmentRead,
                      UpdateAssignmentRead, Starts
  <2> QED
    BY <1>1, <2>1
<1>3. ASSUME NEW a \in Assignments, HandoverRead(w, a) \/ SignedReturnRead(w, a), UNCHANGED mnt
      PROVE  KnowsRepair(w)'
  <2>1. asg[a].item \in Items
    BY <1>3, <1>t, WrittenRow DEF WellFormed, HandoverRead, SignedReturnRead, InScope, AssignmentRow
  <2>2. /\ req[w] = Idle /\ UNCHANGED <<item, mnt>>
        /\ req'[w].op \in {"Handover", "SignedReturn"} /\ req'[w].item = asg[a].item
        /\ \/ Assignable(item[asg[a].item])
           \/ item[asg[a].item].status # "Maintenance"
           \/ req'[w].op = "SignedReturn" /\ req'[w].next = "Maintenance"
    BY <1>3, <1>t DEF HandoverRead, SignedReturnRead, Starts
  <2>i. PICK i \in Items : i = asg[a].item
    BY <2>1
  <2>3. Frees(w)' \subseteq {i}
    BY <2>2, <2>i DEF Frees
  <2>4. i \in Frees(w)' =>
           OpenRecords(i)' = {} \/ ~item'[i].active \/ item'[i].functional # "Functional"
    <3>1. i \in Frees(w)' => ~(req'[w].op = "SignedReturn" /\ req'[w].next = "Maintenance")
      BY DEF Frees
    <3> QED
      BY <1>a, <2>2, <2>i, <3>1
  <2> QED
    BY <2>2, <2>3, <2>4 DEF KnowsRepair
<1>4. ASSUME NEW i \in Retirements, RemoveItemRead(w, i)
      PROVE  KnowsRepair(w)'
  <2>1. req'[w].op = "RemoveItem" /\ req'[w].loaded = item[i] /\ req'[w].item = i /\ item' = item
    BY <1>4, <1>t DEF RemoveItemRead, Starts
  <2> QED
    BY <2>1 DEF KnowsRepair, Frees
<1>5. ASSUME NEW m \in Records, NEW i \in MaintenanceItems, NEW open \in MaintenanceOpens,
             UpdateMaintenanceRead(w, m, i, open)
      PROVE  KnowsRepair(w)'
  <2>1. /\ req'[w].op = "UpdateMaintenance" /\ req'[w].loaded = mnt[m] /\ req'[w].mnt = m
        /\ mnt' = mnt
    BY <1>5, <1>t DEF UpdateMaintenanceRead, Starts
  <2> QED
    BY <2>1 DEF KnowsRepair, Frees
<1>6. CASE UpdateMaintenanceSave(w) \/ RemoveMaintenanceSave(w) \/ ForceItem(w)
  <2>1. req'[w].op \in {"Force", "SyncRecords", "Idle"}
    BY <1>6, <1>t DEF UpdateMaintenanceSave, RemoveMaintenanceSave, ForceItem, Idle
  <2> QED
    BY <1>1, <2>1
<1>7. CASE SyncRecords(w)
  <2>i. PICK i \in Items : i = req[w].item
    BY <1>7, <1>t, MaintenanceServedKnown DEF SyncRecords, Serving
  <2>1. /\ OpenRecords(i) # {} =>
              req'[w] = [op |-> "Settle", item |-> i, status |-> "Maintenance"]
        /\ OpenRecords(i) = {} => req'[w] = [op |-> "SyncItem", item |-> i]
        /\ mnt' = mnt
    BY <1>7, <1>t, <2>i DEF SyncRecords
  <2>2. OpenRecords(i)' = OpenRecords(i)
    BY <2>1 DEF OpenRecords, InRepair, Recorded
  <2> QED
    BY <2>1, <2>2 DEF KnowsRepair, Frees
<1>8. CASE SyncItem(w)
  <2>i. PICK i \in Items : i = req[w].item
    BY <1>8, <1>t, MaintenanceServedKnown DEF SyncItem, Serving
  <2>1. /\ req'[w] = [op |-> "Settle", item |-> i, status |-> FreeStatus(i)]
        /\ UNCHANGED <<item, mnt>> /\ req[w].op = "SyncItem"
    BY <1>8, <1>t, <2>i DEF SyncItem, Serving
  <2>2. OpenRecords(i)' = OpenRecords(i)
    BY <2>1 DEF OpenRecords, InRepair, Recorded
  <2>3. i \in Frees(w)
    BY <2>1, <2>i DEF Frees
  <2>4. OpenRecords(i) = {} \/ ~item[i].active \/ item[i].functional # "Functional"
    BY <1>k, <2>3 DEF KnowsRepair
  <2> QED
    BY <2>1, <2>2, <2>4 DEF KnowsRepair, Frees
<1>9. CASE \/ \E i \in Items, open \in MaintenanceOpens : CreateMaintenanceRead(w, i, open)
           \/ \E m \in Records : CompleteMaintenanceRead(w, m)
           \/ \E m \in Removals : RemoveMaintenanceRead(w, m)
  <2>1. ASSUME NEW i \in Items, NEW open \in MaintenanceOpens, CreateMaintenanceRead(w, i, open)
        PROVE  req'[w].op = "CreateMaintenance"
    BY <1>t, <2>1 DEF CreateMaintenanceRead, Starts
  <2>2. ASSUME NEW m \in Records, CompleteMaintenanceRead(w, m)
        PROVE  req'[w].op = "CompleteMaintenance"
    BY <1>t, <2>2 DEF CompleteMaintenanceRead, Starts
  <2>3. ASSUME NEW m \in Removals, RemoveMaintenanceRead(w, m)
        PROVE  req'[w].op = "RemoveMaintenance"
    BY <1>t, <2>3 DEF RemoveMaintenanceRead, Starts
  <2> QED
    BY <1>1, <1>9, <2>1, <2>2, <2>3
<1>10. CASE AssignmentStep(w) /\ UNCHANGED mnt
  BY <1>2, <1>3, <1>e, <1>10
     DEF AssignmentStep, CreateCommit, HandoverCommit, RequestReturnWrite, SignedReturnCommit,
         UpdateAssignmentWrite, RemoveAssignmentWrite
<1>u. ASSUME NEW i, NEW s, NEW f, NEW a, NEW act, UpdateItemRead(w, i, s, f, a, act)
      PROVE  KnowsRepair(w)'
  <2>1. req'[w].op = "UpdateItem"
    BY <1>t, <1>u DEF UpdateItemRead, Starts
  <2> QED
    BY <1>1, <2>1
<1>11. CASE ItemStep(w)
  BY <1>4, <1>e, <1>u, <1>11 DEF ItemStep, UpdateItemWrite, RemoveItemWrite
<1>12. CASE MaintenanceStep(w)
  BY <1>5, <1>6, <1>7, <1>8, <1>9, <1>e, <1>12
     DEF MaintenanceStep, CreateMaintenanceCommit, CompleteMaintenanceCommit, Settle
<1> QED
  BY <1>10, <1>11, <1>12, <1>e DEF StepOf, Fail

(* What the others know stays so. *)
LEMMA KnowledgeStays ==
    ASSUME RecordsForm, RepairInv, OpenedApart, NoPutReleases, NEW w \in Workers, StepOf(w),
           NEW v \in Workers \ {w}
    PROVE  KnowsRepair(v)'
<1>t. req[v] \in MaintenanceServed /\ req'[v] = req[v] /\ KnowsRepair(v) /\ KnowsRepair(w)
      /\ mnt \in [Records -> MaintenanceRow \cup {NoRecord}]
  BY StepOfOneWorker DEF RecordsForm, WellFormed, RepairInv
<1>f. Frees(v)' = Frees(v) /\ Frees(v) \subseteq Items
  BY <1>t, FreesItem DEF Frees
<1>1. ASSUME NEW i \in Frees(v)
      PROVE  OpenRecords(i)' = {} \/ ~item'[i].active \/ item'[i].functional # "Functional"
  <2>1. i \in Items /\ i \notin Opens(w)
    BY <1>f DEF OpenedApart
  <2>2. OpenRecords(i)' \subseteq OpenRecords(i)
    BY <1>t, <2>1, OpensOnly
  <2>3. /\ item'[i].active => item[i].active
        /\ \/ item'[i].functional = item[i].functional
           \/ item'[i].functional # "Functional"
           \/ OpenRecords(i)' = {}
    BY <2>1, RepairStatus
  <2>4. OpenRecords(i) = {} \/ ~item[i].active \/ item[i].functional # "Functional"
    BY <1>t DEF KnowsRepair
  <2> QED
    BY <2>2, <2>3, <2>4
<1>2. req[v].op = "UpdateMaintenance" => mnt'[req[v].mnt].item = mnt[req[v].mnt].item
  <2> SUFFICES ASSUME req[v].op = "UpdateMaintenance"
               PROVE  mnt'[req[v].mnt].item = mnt[req[v].mnt].item
    OBVIOUS
  <2>m. PICK m \in Records : m = req[v].mnt /\ mnt[m] \in MaintenanceRow
    BY RecordFields DEF OnRecord
  <2>1. ASSUME NEW n \in Records, NEW row, RecordWritten(n, row), n = m => row.item = mnt[m].item
        PROVE  mnt'[m].item = mnt[m].item
    BY <1>t, <2>1, RecordWrittenTyped
  <2>2. ASSUME NEW n \in Records, CreateMaintenanceCommit(w, n)
        PROVE  mnt'[m].item = mnt[m].item
    <3>1. n # m
      BY <1>t, <2>2, <2>m, RecordedRow DEF CreateMaintenanceCommit
    <3> QED
      BY <2>1, <2>2, <3>1, CreateWrites
  <2>3. CASE CompleteMaintenanceCommit(w)
    <3>1. PICK open \in BOOLEAN : Completed(req[w].mnt, req[w].loaded.item, open)
      BY <2>3, CompleteWrites
    <3>2. req[w].mnt \in Records
      BY <2>3, RecordFields DEF CompleteMaintenanceCommit, Serving, OnRecord
    <3> DEFINE row == [mnt[req[w].mnt] EXCEPT !.open = open, !.registered = TRUE]
    <3>3. req[w].mnt = m => row.item = mnt[m].item
      BY <2>m DEF MaintenanceRow
    <3>4. RecordWritten(req[w].mnt, row)
      BY <3>1 DEF Completed
    <3> HIDE DEF row
    <3> QED
      BY <2>1, <2>m, <3>2, <3>3, <3>4
  <2>4. CASE RemoveMaintenanceSave(w)
    <3>2. req[w].mnt \in Records
      BY <2>4, RecordFields DEF RemoveMaintenanceSave, Serving, OnRecord
    <3> DEFINE row == [mnt[req[w].mnt] EXCEPT !.active = Saved(@, req[w].loaded.active, FALSE)]
    <3>3. req[w].mnt = m => row.item = mnt[m].item
      BY <2>m DEF MaintenanceRow
    <3>4. RecordWritten(req[w].mnt, row)
      BY <2>4, RemoveWrites
    <3> HIDE DEF row
    <3> QED
      BY <2>1, <2>m, <3>2, <3>3, <3>4
  <2>5. CASE UpdateMaintenanceSave(w)
    <3>1. req[w].op = "UpdateMaintenance" /\ req[w].mnt \in Records
      BY <2>5, RecordFields DEF UpdateMaintenanceSave, Serving, OnRecord
    <3>2. req[w].mnt # m
      BY <2>m, <3>1 DEF OpenedApart
    <3>3. PICK row : RecordWritten(req[w].mnt, row)
      BY <2>5, UpdateWrites
    <3> QED
      BY <2>1, <2>m, <3>1, <3>2, <3>3
  <2>6. mnt' = mnt \/ \/ \E n \in Records : CreateMaintenanceCommit(w, n)
                      \/ CompleteMaintenanceCommit(w)
                      \/ UpdateMaintenanceSave(w) \/ RemoveMaintenanceSave(w)
    BY DEF StepOf, MaintenanceStep, CreateMaintenanceRead, CompleteMaintenanceRead,
           UpdateMaintenanceRead, RemoveMaintenanceRead, ForceItem, SyncRecords, SyncItem, Settle
  <2> QED
    BY <2>2, <2>3, <2>4, <2>5, <2>6, <2>m
<1>3. req[v].op = "RemoveItem" => (~item[req[v].item].active => ~item'[req[v].item].active)
  <2>1. req[v].op = "RemoveItem" => req[v].item \in Items
    BY <1>t, MaintenanceServedKnown DEF AssignmentRequestsIn, ItemRequestsIn
  <2> QED
    BY <2>1, RepairStatus
<1> QED
  BY <1>t, <1>f, <1>1, <1>2, <1>3 DEF KnowsRepair

(* An item with an open record is not free to be given out, through any    *)
(* sequence of reports, completions, edits and removals of records, of     *)
(* handovers, returns, retirements and edits of items, however many        *)
(* overlap: as long as no request frees an item while another opens a      *)
(* record on it, no record is edited by two at once, and no PUT says of an *)
(* item in repair that it is functional or revives a retired one.          *)
THEOREM InRepairIsOut ==
    MSpec /\ []OpenedApart /\ []NoPutReleases => []RepairKeepsOut
<1>1. MInit => RepairInv
  <2> SUFFICES ASSUME MInit PROVE RepairInv
    OBVIOUS
  <2>1. /\ \A m \in Records : mnt[m] = NoRecord
        /\ \A w \in Workers : req[w] = Idle
    BY DEF MInit, MaintenanceInit, AInit, ItemsInit
  <2>2. \A i \in Items : OpenRecords(i) = {}
    BY <2>1 DEF OpenRecords, InRepair, Recorded
  <2>3. \A w \in Workers : Frees(w) = {} /\ req[w].op = "Idle"
    BY <2>1 DEF Frees, Idle
  <2> QED
    BY <2>2, <2>3 DEF RepairInv, OutForRepair, KnowsRepair
<1>2. RecordsForm /\ RepairInv /\ NoPutReleases /\ OpenedApart /\ OpenedApart' /\ [MNext]_mvars
         => RepairInv'
  <2> SUFFICES ASSUME RecordsForm, RepairInv, NoPutReleases, OpenedApart, OpenedApart',
                      [MNext]_mvars
               PROVE  RepairInv'
    OBVIOUS
  <2>1. CASE UNCHANGED mvars
    BY <2>1 DEF mvars, RepairInv, OutForRepair, KnowsRepair, OpenRecords, InRepair, Recorded,
                BeingForced, Frees
  <2>2. ASSUME NEW w \in Workers, StepOf(w)
        PROVE  RepairInv'
    <3>1. \A i \in Items : OutForRepair(i)'
      BY <2>2, OutForRepairStep
    <3>2. \A v \in Workers : KnowsRepair(v)'
      BY <2>2, KnowsFromReads, KnowledgeStays
    <3> QED
      BY <3>1, <3>2 DEF RepairInv
  <2> QED
    BY <2>1, <2>2 DEF MNext, StepOf
<1>3. RepairInv => RepairKeepsOut
  BY DEF RepairInv, OutForRepair, BeingForced, RepairKeepsOut, Unfinished, Assignable
<1> QED
  BY <1>1, <1>2, <1>3, RecordsFormHolds, PTL DEF MSpec

LEMMA FreesOrOpens ==
    ASSUME NEW w \in Workers
    PROVE  Frees(w) \cap Opens(w) = {}
  BY DEF Frees, Opens

(* So it is when one request is served at a time ... *)
COROLLARY InRepairIsOutSerially ==
    ASSUME \A v, w \in Workers : v = w
    PROVE  MSpec /\ []NoPutReleases => []RepairKeepsOut
<1>1. OpenedApart
  BY FreesOrOpens DEF OpenedApart
<1> QED
  BY <1>1, InRepairIsOut, PTL

(* ... and when only those requests overlap that write records and items   *)
(* in one transaction, or an item alone: reports, completions, retirements *)
(* and edits of items, in any number.                                      *)
Transactional == {"Idle", "CreateMaintenance", "CompleteMaintenance", "RemoveItem",
                  "UpdateItem", "CreateAssignment"}

COROLLARY TransactionsKeepOut ==
    ASSUME Assignments = {}, MaintenanceItems = {}, Removals = {}
    PROVE  MSpec /\ []NoPutReleases => []RepairKeepsOut
<1> DEFINE Inv == \A w \in Workers : req[w].op \in Transactional
<1>1. MInit => Inv
  BY DEF MInit, AInit, ItemsInit, Idle, Transactional
<1>2. ASSUME RecordsForm, Inv, [MNext]_mvars PROVE Inv'
  <2>t. req \in [Workers -> MaintenanceServed]
    BY <1>2 DEF RecordsForm, WellFormed
  <2>1. CASE UNCHANGED mvars
    BY <1>2, <2>1 DEF mvars
  <2>2. ASSUME NEW w \in Workers, StepOf(w) PROVE Inv'
    <3>e. ASSUME Ends(w) PROVE req'[w].op \in Transactional
      BY <2>t, <3>e DEF Ends, Idle, Transactional
    <3>1. ASSUME NEW i \in Items, NEW e \in Targets, CreateRead(w, i, e)
          PROVE  req'[w].op \in Transactional
      BY <2>t, <3>1 DEF CreateRead, Starts, Transactional
    <3>2. ASSUME NEW i, NEW s, NEW f, NEW a, NEW act, UpdateItemRead(w, i, s, f, a, act)
          PROVE  req'[w].op \in Transactional
      BY <2>t, <3>2 DEF UpdateItemRead, Starts, Transactional
    <3>3. ASSUME NEW i, RemoveItemRead(w, i) PROVE req'[w].op \in Transactional
      BY <2>t, <3>3 DEF RemoveItemRead, Starts, Transactional
    <3>4. ASSUME NEW i \in Items, NEW open \in MaintenanceOpens, CreateMaintenanceRead(w, i, open)
          PROVE  req'[w].op \in Transactional
      BY <2>t, <3>4 DEF CreateMaintenanceRead, Starts, Transactional
    <3>5. ASSUME NEW m \in Records, CompleteMaintenanceRead(w, m)
          PROVE  req'[w].op \in Transactional
      BY <2>t, <3>5 DEF CompleteMaintenanceRead, Starts, Transactional
    <3>6. req[w].op \in Transactional
      BY <1>2
    <3>7. AssignmentStep(w) => req'[w].op \in Transactional
      BY <3>e, <3>1, <3>6 DEF AssignmentStep, HandoverCommit, RequestReturnWrite, SignedReturnCommit,
             UpdateAssignmentWrite, RemoveAssignmentWrite
    <3>8. ItemStep(w) => req'[w].op \in Transactional
      BY <3>e, <3>2, <3>3 DEF ItemStep, UpdateItemWrite, RemoveItemWrite
    <3>9. MaintenanceStep(w) => req'[w].op \in Transactional
      BY <3>e, <3>4, <3>5, <3>6
         DEF MaintenanceStep, CreateMaintenanceCommit, CompleteMaintenanceCommit,
             UpdateMaintenanceSave, RemoveMaintenanceSave, ForceItem, SyncRecords, SyncItem, Settle,
             Serving, Transactional
    <3>10. req'[w].op \in Transactional
      BY <2>2, <3>e, <3>7, <3>8, <3>9 DEF StepOf, Fail
    <3> QED
      BY <1>2, <2>2, <3>10, StepOfOneWorker
  <2> QED
    BY <1>2, <2>1, <2>2 DEF MNext, StepOf
<1>3. Inv => OpenedApart
  BY DEF OpenedApart, Frees, Transactional
<1> QED
  BY <1>1, <1>2, <1>3, RecordsFormHolds, InRepairIsOut, PTL DEF MSpec
=============================================================================
