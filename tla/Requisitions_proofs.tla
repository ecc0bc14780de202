------------------------- MODULE Requisitions_proofs -------------------------
(***************************************************************************)
(* Proofs about the requisition, for any lines and quantities, and for any *)
(* number of requests in progress, items and assignments.                  *)
(***************************************************************************)
EXTENDS Requisitions, FiniteSetTheorems, TLAPS

Requests == {Idle} \cup AssignmentRequest \cup RequisitionRequest

(* What a request in progress is known to carry, by its operation. *)
LEMMA RequestFields ==
    ASSUME NEW r \in Requests
    PROVE  /\ r.op = "CreateAssignment" => r.item \in Items /\ r.who \in Assignees
           /\ r.op = "SignedReturn" => /\ r.asg \in Assignments /\ r.item \in Items
                                       /\ r.next \in {"Maintenance", "Available"}
           /\ r.op = "MapLine" => /\ r.line \in Lines /\ r.type \in LineTypes
                                  /\ r.loaded \in LineRow
           /\ r.op = "Verify" => r.next \in {"APPROVED", "REJECTED_INVALID"}
           /\ r.op = "Fulfill" => /\ r.status \in FulfillAllowed
                                  /\ r.loaded \in [Lines -> LineRow \cup {NoLine}]
<1>1. CASE r = Idle
  BY <1>1 DEF Idle
<1>2. CASE r \in [op: {"CreateAssignment"}, item: Items, who: Assignees]
  BY <1>2
<1>3. CASE r \in [op: {"Handover"}, asg: Assignments, item: Items]
  BY <1>3
<1>4. CASE r \in [op: {"RequestReturn", "RemoveAssignment"}, asg: Assignments]
  BY <1>4
<1>5. CASE r \in [op: {"SignedReturn"}, asg: Assignments, item: Items,
                  next: {"Maintenance", "Available"}]
  BY <1>5
<1>6. CASE r \in [op: {"UpdateAssignment"}, asg: Assignments,
                  item: Items \cup {Keep}, who: Assignees \cup {Keep},
                  active: BOOLEAN \cup {Keep}, returned: BOOLEAN \cup {Keep}]
  BY <1>6
<1>7. CASE r \in [op: {"CreateRequisition", "CleanUp"}]
  BY <1>7
<1>8. CASE r \in [op: {"MapLine"}, line: Lines, type: LineTypes, loaded: LineRow]
  BY <1>8
<1>9. CASE r \in [op: {"Verify"}, next: {"APPROVED", "REJECTED_INVALID"}]
  BY <1>9
<1>10. CASE r \in [op: {"Fulfill"}, status: FulfillAllowed,
                   loaded: [Lines -> LineRow \cup {NoLine}]]
  BY <1>10
<1> QED
  BY <1>1, <1>2, <1>3, <1>4, <1>5, <1>6, <1>7, <1>8, <1>9, <1>10
     DEF Requests, AssignmentRequest, RequisitionRequest

-----------------------------------------------------------------------------
(* Quantities *)

LEMMA MinOfThree ==
    ASSUME NEW a \in Nat, NEW b \in Nat, NEW c \in Nat
    PROVE  LET m == Min({a, b, c}) IN m \in Nat /\ m <= b /\ m <= c
<1> DEFINE S == {a, b, c}
<1>1. \E x \in S : \A y \in S : x =< y
  <2>1. CASE a <= b /\ a <= c
    BY <2>1
  <2>2. CASE b <= a /\ b <= c
    BY <2>2
  <2>3. CASE c <= a /\ c <= b
    BY <2>3
  <2> QED
    BY <2>1, <2>2, <2>3
<1>2. PICK m \in S : m = Min(S) /\ \A y \in S : m =< y
  BY <1>1 DEF Min
<1> QED
  BY <1>2

LEMMA RemainingFits ==
    ASSUME NEW row \in LineRow
    PROVE  /\ Remaining(row) \in Nat /\ row.approved \in Nat /\ row.fulfilled \in Nat
           /\ row.fulfilled <= row.approved => row.fulfilled + Remaining(row) = row.approved
<1>1. PICK a \in Nat : a = row.approved
  BY RequisitionConstants DEF LineRow
<1>2. PICK f \in Nat : f = row.fulfilled
  BY DEF LineRow
<1>3. Remaining(row) = IF a > f THEN a - f ELSE 0
  BY <1>1, <1>2 DEF Remaining
<1> QED
  BY <1>1, <1>2, <1>3

LEMMA ItemsCounted ==
    ASSUME NEW S \in SUBSET Items
    PROVE  Cardinality(S) \in Nat
  BY RequisitionConstants, FS_Subset, FS_CardinalityType

-----------------------------------------------------------------------------
(* Assignments and items: the part of the invariant the requisition shares *)
(* with the other handlers. *)
AssetSideOK == /\ item \in [Items -> ItemRow]
               /\ asg \in [Assignments -> AssignmentRow \cup {Unwritten}]
               /\ OneTenant

(* One row that both indexes allow. *)
LEMMA OneRowMore ==
    ASSUME AssetSideOK, NEW a \in Assignments, NEW row \in AssignmentRow,
           WriteAssignment(a, row)
    PROVE  asg' \in [Assignments -> AssignmentRow \cup {Unwritten}] /\ OneTenant'
<1>1. \A b \in Assignments : asg'[b] = IF b = a THEN row ELSE asg[b]
  BY DEF AssetSideOK, WriteAssignment
<1>2. asg' \in [Assignments -> AssignmentRow \cup {Unwritten}]
  BY DEF AssetSideOK, WriteAssignment
<1>3. OneTenant'
  BY <1>1 DEF AssetSideOK, WriteAssignment, OneTenant, IndexAllows, IsOpen
<1> QED
  BY <1>2, <1>3

(* Several rows at once, each for an item of its own. *)
LEMMA HandOutKeeps ==
    ASSUME AssetSideOK, NEW items \in SUBSET Items, HandOut(items, Target)
    PROVE  AssetSideOK'
<1>1. PICK given \in [items -> Assignments] :
         /\ IsInjective(given)
         /\ \A i \in items : /\ HeldByOffice(i) /\ Assignable(item[i])
                             /\ ~Written(given[i])
                             /\ IndexAllows(given[i], Issued(i, Target))
         /\ asg' = [a \in Assignments |->
                      IF \E i \in items : given[i] = a
                        THEN Issued(CHOOSE i \in items : given[i] = a, Target) ELSE asg[a]]
         /\ item' = [i \in Items |-> IF i \in items
                       THEN [item[i] EXCEPT !.assignment = "Assigned", !.status = "Assigned"]
                       ELSE item[i]]
  BY DEF HandOut
<1>2. ASSUME NEW a \in Assignments, NEW i \in items, given[i] = a
      PROVE  asg'[a] = Issued(i, Target)
  BY <1>1, <1>2 DEF IsInjective
<1>3. ASSUME NEW a \in Assignments, \A i \in items : given[i] # a
      PROVE  asg'[a] = asg[a]
  BY <1>1, <1>3
<1>4. \A i \in items : Issued(i, Target) \in AssignmentRow
  BY RequisitionConstants, AssignmentConstants DEF Issued, AssignmentRow, Open
<1>5. \A a \in Assignments : asg'[a] \in AssignmentRow \cup {Unwritten}
  BY <1>2, <1>3, <1>4 DEF AssetSideOK
<1>6. asg' \in [Assignments -> AssignmentRow \cup {Unwritten}]
  BY <1>1, <1>5
<1>7. item' \in [Items -> ItemRow]
  <2>1. \A i \in Items : [item[i] EXCEPT !.assignment = "Assigned", !.status = "Assigned"]
                           \in ItemRow
    BY DEF AssetSideOK, ItemRow, AssignmentStatus, ItemStatus
  <2> QED
    BY <1>1, <2>1 DEF AssetSideOK
<1>8. ASSUME NEW i \in items, NEW b \in Assignments, \A j \in items : given[j] # b,
             asg[b].item = i
      PROVE  ~asg[b].active /\ ~IsOpen(b)
  <2>1. IndexAllows(given[i], Issued(i, Target)) /\ b \in Assignments \ {given[i]}
    BY <1>1, <1>8
  <2> QED
    BY <1>8, <2>1 DEF IndexAllows, Issued, Open
<1>9. ASSUME NEW a \in Assignments, NEW b \in Assignments, a # b, asg'[a].item = asg'[b].item
      PROVE  ~(asg'[a].active /\ asg'[b].active) /\ ~(IsOpen(a)' /\ IsOpen(b)')
  <2>1. CASE (\A i \in items : given[i] # a) /\ (\A i \in items : given[i] # b)
    BY <1>3, <1>9, <2>1 DEF AssetSideOK, OneTenant, IsOpen
  <2>2. ASSUME NEW i \in items, given[i] = a, \A j \in items : given[j] # b
        PROVE  ~(asg'[a].active /\ asg'[b].active) /\ ~(IsOpen(a)' /\ IsOpen(b)')
    <3>1. asg'[a] = Issued(i, Target) /\ asg'[b] = asg[b]
      BY <1>2, <1>3, <2>2
    <3>2. asg[b].item = i
      BY <1>9, <3>1 DEF Issued
    <3>3. ~asg[b].active /\ ~IsOpen(b)
      BY <1>8, <2>2, <3>2
    <3> QED
      BY <3>1, <3>3 DEF IsOpen
  <2>3. ASSUME NEW i \in items, given[i] = b, \A j \in items : given[j] # a
        PROVE  ~(asg'[a].active /\ asg'[b].active) /\ ~(IsOpen(a)' /\ IsOpen(b)')
    <3>1. asg'[b] = Issued(i, Target) /\ asg'[a] = asg[a]
      BY <1>2, <1>3, <2>3
    <3>2. asg[a].item = i
      BY <1>9, <3>1 DEF Issued
    <3>3. ~asg[a].active /\ ~IsOpen(a)
      BY <1>8, <2>3, <3>2
    <3> QED
      BY <3>1, <3>3 DEF IsOpen
  <2>4. ASSUME NEW i \in items, NEW j \in items, given[i] = a, given[j] = b
        PROVE  FALSE
    <3>1. asg'[a] = Issued(i, Target) /\ asg'[b] = Issued(j, Target)
      BY <1>2, <2>4
    <3>2. i = j
      BY <1>9, <3>1 DEF Issued
    <3> QED
      BY <1>9, <2>4, <3>2
  <2> QED
    BY <2>1, <2>2, <2>3, <2>4
<1>10. OneTenant'
  BY <1>9 DEF OneTenant, IsOpen
<1> QED
  BY <1>6, <1>7, <1>10 DEF AssetSideOK

(* The handlers of assignments keep that part, and their requests carry    *)
(* nothing of the requisition. *)
Bystands(w, r) == /\ r \in Requests /\ ~Creating(w)
                  /\ r.op \notin {"CreateRequisition", "CleanUp"}
                  /\ req' = [req EXCEPT ![w] = r]

LEMMA ElsewhereKeeps ==
    ASSUME AssetSideOK, req \in [Workers -> Requests], NEW w \in Workers, Elsewhere(w)
    PROVE  AssetSideOK' /\ \E r : Bystands(w, r) /\ r.op # "Fulfill"
<1>q. PICK q \in Requests : q = req[w]
  OBVIOUS
<1>0. Idle \in Requests /\ Idle.op = "Idle"
  BY DEF Requests, Idle
<1>1. ASSUME NEW i \in Items, NEW e \in Targets, CreateRead(w, i, e)
      PROVE  AssetSideOK' /\ \E r : Bystands(w, r) /\ r.op # "Fulfill"
  <2> DEFINE r == [op |-> "CreateAssignment", item |-> i, who |-> e]
  <2>1. r \in Requests
    BY AssignmentConstants DEF Requests, AssignmentRequest
  <2>2. Bystands(w, r) /\ r.op # "Fulfill"
    BY <1>0, <1>1, <2>1 DEF CreateRead, Starts, Bystands, Creating
  <2>3. AssetSideOK'
    BY <1>1 DEF CreateRead, AssetSideOK, OneTenant, IsOpen
  <2> HIDE DEF r
  <2> QED
    BY <2>2, <2>3
<1>2. ASSUME NEW a \in Assignments, SignedReturnRead(w, a)
      PROVE  AssetSideOK' /\ \E r : Bystands(w, r) /\ r.op # "Fulfill"
  <2>1. asg[a].item \in Items
    BY <1>2 DEF SignedReturnRead, InScope, Written, AssetSideOK, AssignmentRow
  <2>2. PICK next \in {"Maintenance", "Available"} :
           Starts(w, [op |-> "SignedReturn", asg |-> a, item |-> asg[a].item, next |-> next])
    BY <1>2 DEF SignedReturnRead
  <2> DEFINE r == [op |-> "SignedReturn", asg |-> a, item |-> asg[a].item, next |-> next]
  <2>3. r \in Requests
    BY <2>1 DEF Requests, AssignmentRequest
  <2>4. Bystands(w, r) /\ r.op # "Fulfill"
    BY <1>0, <2>2, <2>3 DEF Starts, Bystands, Creating
  <2>5. AssetSideOK'
    BY <1>2 DEF SignedReturnRead, AssetSideOK, OneTenant, IsOpen
  <2>6. \E x : Bystands(w, x) /\ x.op # "Fulfill"
    BY <2>4
  <2> QED
    BY <2>5, <2>6
<1>3. ASSUME NEW a \in Assignments, CreateCommit(w, a)
      PROVE  AssetSideOK' /\ \E r : Bystands(w, r) /\ r.op # "Fulfill"
  <2>1. q.item \in Items /\ q.who \in Assignees
    BY <1>q, <1>3, RequestFields DEF CreateCommit, Serving
  <2>2. Draft(q.item, q.who) \in AssignmentRow
    BY <2>1 DEF Draft, AssignmentRow, Open
  <2>3. WriteAssignment(a, Draft(q.item, q.who)) /\ UNCHANGED item
    BY <1>q, <1>3 DEF CreateCommit
  <2>4. AssetSideOK'
    BY <2>2, <2>3, OneRowMore DEF AssetSideOK
  <2>5. Bystands(w, Idle) /\ Idle.op # "Fulfill"
    BY <1>0, <1>3 DEF CreateCommit, Serving, Ends, Bystands, Creating
  <2> QED
    BY <2>4, <2>5
<1>4. ASSUME SignedReturnCommit(w)
      PROVE  AssetSideOK' /\ \E r : Bystands(w, r) /\ r.op # "Fulfill"
  <2>1. q.asg \in Assignments /\ q.item \in Items /\ q.next \in {"Maintenance", "Available"}
    BY <1>q, <1>4, RequestFields DEF SignedReturnCommit, Serving
  <2>2. asg[q.asg] \in AssignmentRow
    BY <1>q, <1>4, <2>1 DEF SignedReturnCommit, AssetSideOK, Unwritten
  <2>3. [asg[q.asg] EXCEPT !.status = "RETURNED", !.active = FALSE, !.returned = TRUE]
          \in AssignmentRow
    BY <2>2 DEF AssignmentRow, Closed
  <2>4. asg' \in [Assignments -> AssignmentRow \cup {Unwritten}] /\ OneTenant'
    BY <1>q, <1>4, <2>1, <2>3, OneRowMore DEF SignedReturnCommit
  <2>5. q.next \in ItemStatus /\ item[q.item] \in ItemRow
    BY <2>1 DEF ItemStatus, AssetSideOK
  <2>6. [item[q.item] EXCEPT !.assignment = "Unassigned", !.status = q.next] \in ItemRow
    BY <2>5 DEF ItemRow, AssignmentStatus
  <2>7. item' = [item EXCEPT ![q.item] =
                   [@ EXCEPT !.assignment = "Unassigned", !.status = q.next]]
    BY <1>q, <1>4 DEF SignedReturnCommit
  <2>8. AssetSideOK'
    BY <2>1, <2>4, <2>6, <2>7 DEF AssetSideOK
  <2>9. Bystands(w, Idle) /\ Idle.op # "Fulfill"
    BY <1>0, <1>4 DEF SignedReturnCommit, Serving, Ends, Bystands, Creating
  <2> QED
    BY <2>8, <2>9
<1> QED
  BY <1>1, <1>2, <1>3, <1>4 DEF Elsewhere

-----------------------------------------------------------------------------
(* The inductive invariant. *)

(* A copy of the lines that a fulfilment holds: what it says was fulfilled *)
(* was handed out, and approved quantities do not change under it.         *)
CopyTrue(w) ==
    Serving(w, "Fulfill") => \A l \in Lines : req[w].loaded[l] # NoLine =>
        /\ req[w].loaded[l].fulfilled <= req[w].loaded[l].approved
        /\ req[w].loaded[l].fulfilled <= handed[l]
        /\ HasLine(l) => line[l].approved = req[w].loaded[l].approved

(* Nothing but the requisition's own row was written of it, and nobody who *)
(* fulfils it knows of a line.                                             *)
NoLines == \A l \in Lines : ~HasLine(l)
AllLines == \A l \in Lines : HasLine(l)
Blank == /\ ~rq.form /\ NoLines /\ rq.status # "FULFILLED"
         /\ \A l \in Lines : handed[l] = 0
         /\ \A w \in Workers :
               Serving(w, "Fulfill") => \A l \in Lines : req[w].loaded[l] = NoLine

(* One request makes the requisition and, should it fail, unmakes it. *)
MakerKnows(w) ==
    /\ Serving(w, "CreateRequisition") => Exists /\ (AllLines \/ Blank) /\ (rq.form => AllLines)
    /\ Serving(w, "CleanUp") => Exists /\ ~rq.form /\ NoLines

Life == /\ \A v, w \in Workers : Creating(v) /\ Creating(w) => v = w
        /\ rq.status = "NONE" => Blank /\ \A w \in Workers : ~Creating(w)
        /\ \A w \in Workers : MakerKnows(w)
        /\ WholeOrGone

Quantities == RecordedIsHandedOut /\ Accounted /\ \A w \in Workers : CopyTrue(w)

RequisitionInv == RequisitionTypeOK /\ OneTenant /\ Quantities /\ Life

LEMMA InvTypes ==
    ASSUME RequisitionInv
    PROVE  /\ AssetSideOK /\ req \in [Workers -> Requests]
           /\ rq \in [status: RequisitionStatus \cup {"NONE", "GONE"}, form: BOOLEAN]
           /\ line \in [Lines -> LineRow \cup {NoLine}]
           /\ stock \in [Lines -> 0 .. MaxStock] /\ handed \in [Lines -> Nat]
           /\ overtaken \in BOOLEAN
  BY DEF RequisitionInv, RequisitionTypeOK, AssetSideOK, Requests

LEMMA TypesInv ==
    ASSUME AssetSideOK', (req \in [Workers -> Requests])',
           (rq \in [status: RequisitionStatus \cup {"NONE", "GONE"}, form: BOOLEAN])',
           (line \in [Lines -> LineRow \cup {NoLine}])',
           (stock \in [Lines -> 0 .. MaxStock])', (handed \in [Lines -> Nat])',
           (overtaken \in BOOLEAN)'
    PROVE  RequisitionTypeOK' /\ OneTenant'
  BY DEF RequisitionTypeOK, AssetSideOK, Requests

LEMMA IsALine ==
    ASSUME RequisitionInv, NEW l \in Lines
    PROVE  HasLine(l) <=> line[l] \in LineRow
  BY InvTypes DEF HasLine, NoLine, LineRow, LineTypes

(* The request of w goes on as r, the others as they are. *)
LEMMA OneRequestMoves ==
    ASSUME RequisitionInv, NEW w \in Workers, NEW r \in Requests, req' = [req EXCEPT ![w] = r]
    PROVE  /\ req' \in [Workers -> Requests]
           /\ \A v \in Workers : req'[v] = IF v = w THEN r ELSE req[v]
  BY InvTypes

(* Whoever makes the requisition does not notice the others. *)
LEMMA LifeKept ==
    ASSUME RequisitionInv,
           \A v \in Workers : \A op \in {"CreateRequisition", "CleanUp"} :
              Serving(v, op)' <=> Serving(v, op),
           rq'.form = rq.form, Exists' <=> Exists,
           rq'.status = "NONE" <=> rq.status = "NONE",
           \A l \in Lines : HasLine(l)' <=> HasLine(l), Blank => Blank'
    PROVE  Life'
<1>1. ASSUME NEW v \in Workers PROVE Creating(v)' <=> Creating(v)
  BY DEF Creating, Serving
<1>2. ASSUME NEW v \in Workers PROVE MakerKnows(v)'
  <2>1. MakerKnows(v)
    BY DEF RequisitionInv, Life
  <2>2. (NoLines' <=> NoLines) /\ (AllLines' <=> AllLines)
    BY DEF NoLines, AllLines
  <2> QED
    BY <2>1, <2>2 DEF MakerKnows
<1>3. WholeOrGone'
  BY <1>1 DEF RequisitionInv, Life, WholeOrGone
<1>4. rq'.status = "NONE" => Blank' /\ \A v \in Workers : ~Creating(v)'
  BY <1>1 DEF RequisitionInv, Life
<1>5. \A u, v \in Workers : Creating(u)' /\ Creating(v)' => u = v
  BY <1>1 DEF RequisitionInv, Life
<1> QED
  BY <1>2, <1>3, <1>4, <1>5 DEF Life

(* Steps that leave the requisition as it is. *)
LEMMA BystanderPreserves ==
    ASSUME RequisitionInv, NEW w \in Workers, NEW r, Bystands(w, r),
           r.op = "Fulfill" => r.loaded = line, UNCHANGED qvars, AssetSideOK'
    PROVE  RequisitionInv'
<1>1. /\ req' \in [Workers -> Requests]
      /\ \A v \in Workers : req'[v] = IF v = w THEN r ELSE req[v]
  BY OneRequestMoves DEF Bystands
<1>2. RequisitionTypeOK' /\ OneTenant'
  BY <1>1, InvTypes, TypesInv DEF qvars
<1>3. RecordedIsHandedOut' /\ Accounted'
  BY DEF RequisitionInv, Quantities, RecordedIsHandedOut, Accounted, HasLine, qvars
<1>4. ASSUME NEW v \in Workers PROVE CopyTrue(v)'
  <2>1. CASE v = w
    BY <1>1, <2>1 DEF RequisitionInv, Quantities, RecordedIsHandedOut, CopyTrue, Serving,
                      HasLine, qvars
  <2>2. CASE v # w
    BY <1>1, <2>2 DEF RequisitionInv, Quantities, CopyTrue, Serving, HasLine, qvars
  <2> QED
    BY <2>1, <2>2
<1>5. Blank => Blank'
  BY <1>1 DEF Blank, NoLines, HasLine, Serving, qvars
<1>6. ASSUME NEW v \in Workers, NEW op \in {"CreateRequisition", "CleanUp"}
      PROVE  Serving(v, op)' <=> Serving(v, op)
  BY <1>1 DEF Bystands, Creating, Serving
<1>7. Life'
  BY <1>5, <1>6, LifeKept DEF qvars, Exists, HasLine
<1> QED
  BY <1>2, <1>3, <1>4, <1>7 DEF RequisitionInv, Quantities

(* A step that takes no line away and writes no quantity keeps what copies *)
(* of the lines say. *)
LEMMA CopiesKept ==
    ASSUME RequisitionInv, NEW w \in Workers, req' = [req EXCEPT ![w] = Idle], UNCHANGED handed,
           \A l \in Lines : HasLine(l)' => HasLine(l) /\ line'[l].approved = line[l].approved,
           NEW v \in Workers
    PROVE  CopyTrue(v)'
<1>1. Idle \in Requests /\ Idle.op = "Idle"
  BY DEF Requests, Idle
<1>2. req'[v] = IF v = w THEN Idle ELSE req[v]
  BY <1>1, OneRequestMoves
<1>3. CASE v = w
  BY <1>1, <1>2, <1>3 DEF CopyTrue, Serving
<1>4. CASE v # w
  <2>1. CopyTrue(v)
    BY DEF RequisitionInv, Quantities
  <2>2. req'[v] = req[v]
    BY <1>2, <1>4
  <2> QED
    BY <2>1, <2>2 DEF CopyTrue, Serving
<1> QED
  BY <1>3, <1>4

-----------------------------------------------------------------------------
(* Mapping, verification and adjustment *)

LEMMA MapLinePreserves ==
    ASSUME RequisitionInv, NEW w \in Workers, MapLineSave(w)
    PROVE  RequisitionInv'
<1>0. Idle \in Requests /\ Idle.op = "Idle"
  BY DEF Requests, Idle
<1>q. PICK q \in Requests : q = req[w]
  BY InvTypes
<1>1. PICK l \in Lines : l = q.line
  BY <1>q, RequestFields DEF MapLineSave, Serving
<1>2. q.type \in LineTypes /\ q.loaded \in LineRow /\ line[l] \in LineRow
  BY <1>q, <1>1, RequestFields, IsALine DEF MapLineSave, Serving
<1>3. PICK row : row = [line[l] EXCEPT
                          !.type = Saved(@, q.loaded.type, q.type),
                          !.asset = Saved(@, q.loaded.asset, q.type = "MOVEABLE"),
                          !.consumable = Saved(@, q.loaded.consumable, q.type = "CONSUMABLE")]
  OBVIOUS
<1>4. row \in LineRow /\ row.approved = line[l].approved /\ row.fulfilled = line[l].fulfilled
  <2>1. /\ Saved(line[l].type, q.loaded.type, q.type) \in LineTypes
        /\ Saved(line[l].asset, q.loaded.asset, q.type = "MOVEABLE") \in BOOLEAN
        /\ Saved(line[l].consumable, q.loaded.consumable, q.type = "CONSUMABLE") \in BOOLEAN
    BY <1>2 DEF Saved, LineRow
  <2> QED
    BY <1>2, <1>3, <2>1 DEF LineRow
<1>5. /\ line' = [line EXCEPT ![l] = row]
      /\ req' = [req EXCEPT ![w] = Idle]
      /\ UNCHANGED <<item, asg, rq, stock, handed, overtaken>>
  BY <1>q, <1>1, <1>3 DEF MapLineSave, Ends
<1>6. \A m \in Lines : line'[m] = IF m = l THEN row ELSE line[m]
  BY <1>5, InvTypes
<1>7. \A m \in Lines : /\ HasLine(m)' <=> HasLine(m)
                       /\ line'[m].approved = line[m].approved
                       /\ line'[m].fulfilled = line[m].fulfilled
  BY <1>2, <1>4, <1>6 DEF HasLine, NoLine, LineRow, LineTypes
<1>8. RequisitionTypeOK' /\ OneTenant'
  <2>1. (line \in [Lines -> LineRow \cup {NoLine}])'
    BY <1>4, <1>5, InvTypes
  <2>2. (req \in [Workers -> Requests])'
    BY <1>0, <1>5, OneRequestMoves
  <2>3. AssetSideOK'
    BY <1>5, InvTypes DEF AssetSideOK, OneTenant, IsOpen
  <2> QED
    BY <1>5, <2>1, <2>2, <2>3, InvTypes, TypesInv
<1>9. RecordedIsHandedOut' /\ Accounted'
  BY <1>5, <1>7 DEF RequisitionInv, Quantities, RecordedIsHandedOut, Accounted
<1>10. \A v \in Workers : CopyTrue(v)'
  BY <1>5, <1>7, CopiesKept
<1>11. Life'
  <2>1. \A v \in Workers : req'[v] = IF v = w THEN Idle ELSE req[v]
    BY <1>0, <1>5, OneRequestMoves
  <2>2. Blank => Blank'
    BY <1>0, <1>5, <1>7, <2>1 DEF Blank, NoLines, Serving
  <2>3. \A v \in Workers : \A op \in {"CreateRequisition", "CleanUp"} :
           Serving(v, op)' <=> Serving(v, op)
    BY <1>0, <2>1 DEF MapLineSave, Serving
  <2> QED
    BY <1>5, <1>7, <2>2, <2>3, LifeKept DEF Exists
<1> QED
  BY <1>8, <1>9, <1>10, <1>11 DEF RequisitionInv, Quantities

LEMMA VerifyPreserves ==
    ASSUME RequisitionInv, NEW w \in Workers, VerifySave(w)
    PROVE  RequisitionInv'
<1>0. Idle \in Requests /\ Idle.op = "Idle"
  BY DEF Requests, Idle
<1>1. PICK next \in {"APPROVED", "REJECTED_INVALID"} : next = req[w].next
  BY InvTypes, RequestFields DEF VerifySave, Serving
<1>2. /\ rq' = [rq EXCEPT !.status = next] /\ rq'.status = next /\ rq'.form = rq.form
      /\ req' = [req EXCEPT ![w] = Idle]
      /\ UNCHANGED <<item, asg, line, stock, handed>>
      /\ overtaken' = (overtaken \/ rq.status # "SUBMITTED")
  BY <1>1, InvTypes DEF VerifySave, Ends
<1>3. RequisitionTypeOK' /\ OneTenant'
  <2>1. next \in RequisitionStatus
    BY DEF RequisitionStatus, FulfillAllowed
  <2>2. (rq \in [status: RequisitionStatus \cup {"NONE", "GONE"}, form: BOOLEAN])'
    BY <1>2, <2>1, InvTypes
  <2>3. (req \in [Workers -> Requests])'
    BY <1>0, <1>2, OneRequestMoves
  <2>4. AssetSideOK'
    BY <1>2, InvTypes DEF AssetSideOK, OneTenant, IsOpen
  <2> QED
    BY <1>2, <2>2, <2>3, <2>4, InvTypes, TypesInv
<1>4. RecordedIsHandedOut'
  BY <1>2 DEF RequisitionInv, Quantities, RecordedIsHandedOut, HasLine
<1>5. Accounted'
  BY <1>2 DEF RequisitionInv, Quantities, Accounted, HasLine
<1>6. \A v \in Workers : CopyTrue(v)'
  BY <1>2, CopiesKept DEF HasLine
<1>7. Life'
  <2>1. \A v \in Workers : req'[v] = IF v = w THEN Idle ELSE req[v]
    BY <1>0, <1>2, OneRequestMoves
  <2>2. Blank => Blank'
    BY <1>0, <1>2, <2>1 DEF Blank, NoLines, Serving, HasLine
  <2>3. \A v \in Workers : \A op \in {"CreateRequisition", "CleanUp"} :
           Serving(v, op)' <=> Serving(v, op)
    BY <1>0, <2>1 DEF VerifySave, Serving
  <2>4. Exists /\ Exists' /\ rq.status # "NONE" /\ rq'.status # "NONE"
    BY <1>2 DEF VerifySave, Exists, RequisitionStatus, FulfillAllowed
  <2> QED
    BY <1>2, <2>2, <2>3, <2>4, LifeKept DEF HasLine
<1> QED
  BY <1>3, <1>4, <1>5, <1>6, <1>7 DEF RequisitionInv, Quantities

LEMMA AdjustPreserves ==
    ASSUME RequisitionInv, Adjust
    PROVE  RequisitionInv'
<1>1. /\ rq' = [rq EXCEPT !.status = "PARTIALLY_FULFILLED"]
      /\ rq'.status = "PARTIALLY_FULFILLED" /\ rq'.form = rq.form
      /\ UNCHANGED <<item, req, asg, line, stock, handed, overtaken>>
  BY InvTypes DEF Adjust
<1>2. RequisitionTypeOK' /\ OneTenant'
  <2>1. (rq \in [status: RequisitionStatus \cup {"NONE", "GONE"}, form: BOOLEAN])'
    BY <1>1, InvTypes DEF RequisitionStatus, FulfillAllowed
  <2>2. AssetSideOK'
    BY <1>1, InvTypes DEF AssetSideOK, OneTenant, IsOpen
  <2> QED
    BY <1>1, <2>1, <2>2, InvTypes, TypesInv
<1>3. RecordedIsHandedOut' /\ Accounted'
  BY <1>1 DEF RequisitionInv, Quantities, RecordedIsHandedOut, Accounted, HasLine
<1>4. \A v \in Workers : CopyTrue(v)'
  BY <1>1 DEF RequisitionInv, Quantities, CopyTrue, Serving, HasLine
<1>5. Life'
  <2>1. ~Blank
    BY DEF Adjust, Blank
  <2>2. Exists /\ Exists' /\ rq.status # "NONE" /\ rq'.status # "NONE"
    BY <1>1 DEF Adjust, Exists, RequisitionStatus, FulfillAllowed
  <2> QED
    BY <1>1, <2>1, <2>2, LifeKept DEF HasLine, Serving
<1> QED
  BY <1>2, <1>3, <1>4, <1>5 DEF RequisitionInv, Quantities

-----------------------------------------------------------------------------
(* Making a requisition *)

(* The maker of a requisition is w; where it goes on as r, the only one    *)
(* that makes a requisition is w, if any. *)
LEMMA OneMaker ==
    ASSUME RequisitionInv, NEW w \in Workers, NEW r \in Requests, req' = [req EXCEPT ![w] = r],
           \A v \in Workers : Creating(v) => v = w
    PROVE  /\ \A v \in Workers : v # w => /\ ~Creating(v)'
                                          /\ ~Serving(v, "CreateRequisition")'
                                          /\ ~Serving(v, "CleanUp")'
                                          /\ \A op : Serving(v, op)' <=> Serving(v, op)
                                          /\ req'[v] = req[v]
           /\ req'[w] = r
  BY OneRequestMoves DEF Creating, Serving

LEMMA InsertPreserves ==
    ASSUME RequisitionInv, NEW w \in Workers, InsertRequisition(w)
    PROVE  RequisitionInv'
<1>0. PICK r \in Requests : r = [op |-> "CreateRequisition"]
  BY DEF Requests, RequisitionRequest
<1>1. /\ rq' = [rq EXCEPT !.status = "SUBMITTED"] /\ rq'.status = "SUBMITTED"
      /\ rq'.form = rq.form /\ req' = [req EXCEPT ![w] = r]
      /\ UNCHANGED <<item, asg, line, stock, handed, overtaken>>
  BY <1>0, InvTypes DEF InsertRequisition, Starts
<1>2. Blank /\ \A v \in Workers : ~Creating(v)
  BY DEF RequisitionInv, Life, InsertRequisition
<1>3. /\ \A v \in Workers : v # w => ~Creating(v)' /\ req'[v] = req[v]
      /\ req'[w] = r
  BY <1>1, <1>2, OneMaker
<1>4. RequisitionTypeOK' /\ OneTenant'
  <2>1. (rq \in [status: RequisitionStatus \cup {"NONE", "GONE"}, form: BOOLEAN])'
    BY <1>1, InvTypes DEF RequisitionStatus
  <2>2. (req \in [Workers -> Requests])'
    BY <1>1, OneRequestMoves
  <2>3. AssetSideOK'
    BY <1>1, InvTypes DEF AssetSideOK, OneTenant, IsOpen
  <2> QED
    BY <1>1, <2>1, <2>2, <2>3, InvTypes, TypesInv
<1>5. RecordedIsHandedOut' /\ Accounted'
  BY <1>1, <1>2 DEF Blank, NoLines, RecordedIsHandedOut, Accounted, HasLine
<1>6. ASSUME NEW v \in Workers PROVE CopyTrue(v)'
  <2>1. CASE v = w
    BY <1>0, <1>3, <2>1 DEF CopyTrue, Serving
  <2>2. CASE v # w
    BY <1>1, <1>3, <2>2 DEF RequisitionInv, Quantities, CopyTrue, Serving, HasLine
  <2> QED
    BY <2>1, <2>2
<1>7. Life'
  <2>1. Blank'
    <3>1. ~rq'.form /\ NoLines' /\ rq'.status # "FULFILLED" /\ \A l \in Lines : handed'[l] = 0
      BY <1>1, <1>2 DEF Blank, NoLines, HasLine
    <3>2. ASSUME NEW v \in Workers, Serving(v, "Fulfill")', NEW l \in Lines
          PROVE  req'[v].loaded[l] = NoLine
      BY <1>0, <1>2, <1>3, <3>2 DEF Blank, Serving
    <3> QED
      BY <3>1, <3>2 DEF Blank
  <2>2. Serving(w, "CreateRequisition")' /\ ~Serving(w, "CleanUp")' /\ Creating(w)'
    BY <1>0, <1>3 DEF Serving, Creating
  <2>3. Exists' /\ ~rq'.form
    BY <1>1, <1>2 DEF Exists, RequisitionStatus, Blank
  <2>4. ASSUME NEW v \in Workers PROVE MakerKnows(v)'
    <3>1. CASE v = w
      BY <2>1, <2>2, <2>3, <3>1 DEF MakerKnows
    <3>2. CASE v # w
      BY <1>3, <3>2 DEF MakerKnows, Creating, Serving
    <3> QED
      BY <3>1, <3>2
  <2>5. WholeOrGone'
    BY <2>2 DEF WholeOrGone
  <2> QED
    BY <1>1, <1>3, <2>4, <2>5 DEF Life
<1> QED
  BY <1>4, <1>5, <1>6, <1>7 DEF RequisitionInv, Quantities

LEMMA NewLineIsALine ==
    ASSUME NEW kind \in NewLines, NEW n \in AnyApproved
    PROVE  NewLine(kind[1], kind[2], n) \in LineRow /\ NewLine(kind[1], kind[2], n).fulfilled = 0
<1>1. kind[1] \in LineTypes /\ kind[2] \in BOOLEAN
  BY RequisitionConstants DEF LineTypes
<1> QED
  BY <1>1 DEF NewLine, LineRow

(* The maker of a requisition, as the invariant has it. *)
LEMMA MakerAlone ==
    ASSUME RequisitionInv, NEW w \in Workers, Creating(w)
    PROVE  /\ \A v \in Workers : Creating(v) => v = w
           /\ Exists /\ rq.status # "NONE"
           /\ MakerKnows(w)
  BY DEF RequisitionInv, Life, MakerKnows, Creating, Serving

LEMMA InsertLinesPreserves ==
    ASSUME RequisitionInv, NEW w \in Workers, InsertLines(w)
    PROVE  RequisitionInv'
<1>1. /\ line' \in [Lines -> {NewLine(kind[1], kind[2], n) : kind \in NewLines, n \in AnyApproved}]
      /\ UNCHANGED <<item, req, asg, rq, stock, handed, overtaken>>
      /\ NoLines /\ Serving(w, "CreateRequisition") /\ Creating(w)
  BY DEF InsertLines, NoLines, Creating, Serving
<1>2. \A l \in Lines : line'[l] \in LineRow /\ line'[l].fulfilled = 0
  BY <1>1, NewLineIsALine
<1>3. AllLines'
  BY <1>2 DEF AllLines, HasLine, NoLine, LineRow, LineTypes
<1>4. \A l \in Lines : handed[l] = 0 /\ rq.status # "FULFILLED"
  BY <1>1, MakerAlone DEF MakerKnows, AllLines, NoLines, Blank
<1>5. \A v \in Workers : Serving(v, "Fulfill") => \A l \in Lines : req[v].loaded[l] = NoLine
  BY <1>1, MakerAlone DEF MakerKnows, AllLines, NoLines, Blank
<1>6. RequisitionTypeOK' /\ OneTenant'
  <2>1. line' \in [Lines -> LineRow \cup {NoLine}]
    BY <1>1, <1>2
  <2>2. AssetSideOK'
    BY <1>1, InvTypes DEF AssetSideOK, OneTenant, IsOpen
  <2> QED
    BY <1>1, <2>1, <2>2, InvTypes, TypesInv
<1>7. RecordedIsHandedOut'
  <2>1. \A l \in Lines : line'[l].approved \in Nat
    BY <1>2, RequisitionConstants DEF LineRow
  <2> QED
    BY <1>1, <1>2, <1>4, <2>1 DEF RecordedIsHandedOut
<1>8. Accounted'
  BY <1>1, <1>2, <1>4 DEF Accounted
<1>9. \A v \in Workers : CopyTrue(v)'
  BY <1>1, <1>5 DEF CopyTrue, Serving
<1>10. Life'
  <2>1. Exists' /\ rq'.status # "NONE"
    BY <1>1, MakerAlone DEF Exists
  <2>2. ASSUME NEW v \in Workers PROVE MakerKnows(v)'
    <3>1. ~Serving(v, "CleanUp")'
      BY <1>1, MakerAlone DEF Creating, Serving
    <3> QED
      BY <1>3, <2>1, <3>1 DEF MakerKnows
  <2>3. Creating(w)' /\ \A v \in Workers : Creating(v)' => v = w
    BY <1>1, MakerAlone DEF Creating
  <2> QED
    BY <2>1, <2>2, <2>3 DEF Life, WholeOrGone
<1> QED
  BY <1>6, <1>7, <1>8, <1>9, <1>10 DEF RequisitionInv, Quantities

LEMMA LinkFormPreserves ==
    ASSUME RequisitionInv, NEW w \in Workers, LinkForm(w)
    PROVE  RequisitionInv'
<1>1. /\ rq' = [rq EXCEPT !.form = TRUE] /\ rq'.status = rq.status /\ AllLines
      /\ UNCHANGED <<item, req, asg, line, stock, handed, overtaken>>
      /\ Serving(w, "CreateRequisition") /\ Creating(w)
  BY InvTypes DEF LinkForm, AllLines, Creating, Serving
<1>2. RequisitionTypeOK' /\ OneTenant'
  <2>1. (rq \in [status: RequisitionStatus \cup {"NONE", "GONE"}, form: BOOLEAN])'
    BY <1>1, InvTypes
  <2>2. AssetSideOK'
    BY <1>1, InvTypes DEF AssetSideOK, OneTenant, IsOpen
  <2> QED
    BY <1>1, <2>1, <2>2, InvTypes, TypesInv
<1>3. RecordedIsHandedOut' /\ Accounted' /\ \A v \in Workers : CopyTrue(v)'
  BY <1>1 DEF RequisitionInv, Quantities, RecordedIsHandedOut, Accounted, CopyTrue, Serving, HasLine
<1>4. Life'
  <2>1. Exists' /\ rq'.status # "NONE" /\ AllLines'
    BY <1>1, MakerAlone DEF Exists, AllLines, HasLine
  <2>2. ASSUME NEW v \in Workers PROVE MakerKnows(v)'
    <3>1. ~Serving(v, "CleanUp")'
      BY <1>1, MakerAlone DEF Creating, Serving
    <3> QED
      BY <2>1, <3>1 DEF MakerKnows
  <2>3. Creating(w)' /\ \A v \in Workers : Creating(v)' => v = w
    BY <1>1, MakerAlone DEF Creating
  <2> QED
    BY <2>1, <2>2, <2>3 DEF Life, WholeOrGone
<1> QED
  BY <1>2, <1>3, <1>4 DEF RequisitionInv, Quantities

LEMMA AnswerPreserves ==
    ASSUME RequisitionInv, NEW w \in Workers, CreateAnswers(w)
    PROVE  RequisitionInv'
<1>0. Idle \in Requests /\ Idle.op = "Idle"
  BY DEF Requests, Idle
<1>1. /\ req' = [req EXCEPT ![w] = Idle] /\ UNCHANGED <<item, asg, rq, line, stock, handed, overtaken>>
      /\ Serving(w, "CreateRequisition") /\ rq.form /\ Creating(w)
  BY DEF CreateAnswers, Ends, Creating, Serving, qvars
<1>2. /\ \A v \in Workers : ~Creating(v)' /\ ~Serving(v, "CreateRequisition")'
                                          /\ ~Serving(v, "CleanUp")'
      /\ req'[w] = Idle
  BY <1>0, <1>1, MakerAlone, OneMaker DEF Creating, Serving
<1>3. RequisitionTypeOK' /\ OneTenant'
  <2>1. (req \in [Workers -> Requests])'
    BY <1>0, <1>1, OneRequestMoves
  <2>2. AssetSideOK'
    BY <1>1, InvTypes DEF AssetSideOK, OneTenant, IsOpen
  <2> QED
    BY <1>1, <2>1, <2>2, InvTypes, TypesInv
<1>4. RecordedIsHandedOut' /\ Accounted'
  BY <1>1 DEF RequisitionInv, Quantities, RecordedIsHandedOut, Accounted, HasLine
<1>5. \A v \in Workers : CopyTrue(v)'
  BY <1>1, CopiesKept DEF HasLine
<1>6. Life'
  <2>1. Exists /\ rq.status # "NONE" /\ AllLines
    BY <1>1, MakerAlone DEF MakerKnows
  <2>2. Exists' /\ rq'.status # "NONE" /\ AllLines' /\ rq'.form
    BY <1>1, <2>1 DEF Exists, AllLines, HasLine
  <2> QED
    BY <1>2, <2>2 DEF Life, MakerKnows, WholeOrGone, AllLines
<1> QED
  BY <1>3, <1>4, <1>5, <1>6 DEF RequisitionInv, Quantities

LEMMA CreateFailsPreserves ==
    ASSUME RequisitionInv, NEW w \in Workers, CreateFails(w)
    PROVE  RequisitionInv'
<1>0. PICK r \in Requests : r = [op |-> "CleanUp"]
  BY DEF Requests, RequisitionRequest
<1>1. /\ rq' = [rq EXCEPT !.form = FALSE] /\ rq'.status = rq.status /\ ~rq'.form
      /\ line' = [l \in Lines |-> NoLine] /\ req' = [req EXCEPT ![w] = r]
      /\ UNCHANGED <<item, asg, stock, handed, overtaken>> /\ Creating(w)
  BY <1>0, InvTypes DEF CreateFails, Creating, Serving
<1>2. /\ \A v \in Workers : v # w => /\ ~Creating(v)' /\ ~Serving(v, "CreateRequisition")'
                                     /\ ~Serving(v, "CleanUp")' /\ req'[v] = req[v]
      /\ req'[w] = r
  BY <1>1, MakerAlone, OneMaker
<1>3. NoLines'
  BY <1>1 DEF NoLines, HasLine
<1>4. RequisitionTypeOK' /\ OneTenant'
  <2>1. (rq \in [status: RequisitionStatus \cup {"NONE", "GONE"}, form: BOOLEAN])'
    BY <1>1, InvTypes
  <2>2. (req \in [Workers -> Requests])'
    BY <1>1, OneRequestMoves
  <2>3. (line \in [Lines -> LineRow \cup {NoLine}])'
    BY <1>1
  <2>4. AssetSideOK'
    BY <1>1, InvTypes DEF AssetSideOK, OneTenant, IsOpen
  <2> QED
    BY <1>1, <2>1, <2>2, <2>3, <2>4, InvTypes, TypesInv
<1>5. RecordedIsHandedOut' /\ Accounted'
  BY <1>3 DEF NoLines, RecordedIsHandedOut, Accounted
<1>6. ASSUME NEW v \in Workers PROVE CopyTrue(v)'
  <2>1. CASE v = w
    BY <1>0, <1>2, <2>1 DEF CopyTrue, Serving
  <2>2. CASE v # w
    <3>1. CopyTrue(v) /\ req'[v] = req[v]
      BY <1>2, <2>2 DEF RequisitionInv, Quantities
    <3> QED
      BY <1>1, <1>3, <3>1 DEF CopyTrue, Serving, NoLines
  <2> QED
    BY <2>1, <2>2
<1>7. Life'
  <2>1. Exists' /\ rq'.status # "NONE"
    BY <1>1, MakerAlone DEF Exists
  <2>2. Creating(w)' /\ ~Serving(w, "CreateRequisition")'
    BY <1>0, <1>2 DEF Creating, Serving
  <2>3. \A v \in Workers : MakerKnows(v)'
    BY <1>1, <1>2, <1>3, <2>1, <2>2 DEF MakerKnows
  <2> QED
    BY <1>2, <2>1, <2>2, <2>3 DEF Life, WholeOrGone
<1> QED
  BY <1>4, <1>5, <1>6, <1>7 DEF RequisitionInv, Quantities

LEMMA CleanUpPreserves ==
    ASSUME RequisitionInv, NEW w \in Workers, CleanUp(w)
    PROVE  RequisitionInv'
<1>0. Idle \in Requests /\ Idle.op = "Idle"
  BY DEF Requests, Idle
<1>1. /\ rq' = [rq EXCEPT !.status = "GONE"] /\ rq'.status = "GONE" /\ rq'.form = rq.form
      /\ req' = [req EXCEPT ![w] = Idle]
      /\ UNCHANGED <<item, asg, line, stock, handed, overtaken>>
      /\ Serving(w, "CleanUp") /\ Creating(w)
  BY InvTypes DEF CleanUp, Ends, Creating, Serving
<1>2. /\ \A v \in Workers : ~Creating(v)' /\ ~Serving(v, "CreateRequisition")'
                                          /\ ~Serving(v, "CleanUp")'
      /\ req'[w] = Idle
  BY <1>0, <1>1, MakerAlone, OneMaker DEF Creating, Serving
<1>3. NoLines /\ NoLines' /\ ~rq'.form
  BY <1>1, MakerAlone DEF MakerKnows, NoLines, HasLine
<1>4. RequisitionTypeOK' /\ OneTenant'
  <2>1. (rq \in [status: RequisitionStatus \cup {"NONE", "GONE"}, form: BOOLEAN])'
    BY <1>1, InvTypes
  <2>2. (req \in [Workers -> Requests])'
    BY <1>0, <1>1, OneRequestMoves
  <2>3. AssetSideOK'
    BY <1>1, InvTypes DEF AssetSideOK, OneTenant, IsOpen
  <2> QED
    BY <1>1, <2>1, <2>2, <2>3, InvTypes, TypesInv
<1>5. RecordedIsHandedOut' /\ Accounted'
  BY <1>3 DEF NoLines, RecordedIsHandedOut, Accounted
<1>6. \A v \in Workers : CopyTrue(v)'
  BY <1>1, CopiesKept DEF HasLine
<1>7. Life'
  <2>1. ~Exists' /\ rq'.status # "NONE"
    BY <1>1 DEF Exists, RequisitionStatus, FulfillAllowed
  <2> QED
    BY <1>2, <1>3, <2>1 DEF Life, MakerKnows, WholeOrGone, NoLines
<1> QED
  BY <1>4, <1>5, <1>6, <1>7 DEF RequisitionInv, Quantities

-----------------------------------------------------------------------------
(* Handing out *)

(* What a line takes of a payload it accepts, up to what was approved. *)
LEMMA AddedFits ==
    ASSUME NEW row \in LineRow, row.fulfilled <= row.approved,
           NEW items \in SUBSET Items, NEW ask \in 0 .. MaxAsk, LineAccepts(row, items, ask),
           NEW l \in Lines, stock[l] \in 0 .. MaxStock,
           NEW added, added = IF row.type = "MOVEABLE" THEN Cardinality(items)
                                                       ELSE Taken(l, row, ask)
    PROVE  /\ added \in Nat /\ row.fulfilled + added <= row.approved
           /\ row.type # "MOVEABLE" => added <= stock[l]
<1>1. PICK a \in Nat, f \in Nat, m \in Nat :
         a = row.approved /\ f = row.fulfilled /\ m = Remaining(row) /\ f <= a /\ f + m = a
  BY RemainingFits
<1>2. CASE row.type = "MOVEABLE"
  <2>1. added \in Nat /\ added <= m
    BY <1>1, <1>2, ItemsCounted DEF LineAccepts
  <2> QED
    BY <1>1, <1>2, <2>1
<1>3. CASE row.type # "MOVEABLE"
  <2>1. PICK s \in Nat, k \in Nat : s = stock[l] /\ k = ask
    BY RequisitionConstants
  <2>2. added = Min({k, m, s})
    BY <1>1, <1>3, <2>1 DEF Taken
  <2>3. added \in Nat /\ added <= m /\ added <= s
    BY <2>2, MinOfThree
  <2> QED
    BY <1>1, <2>1, <2>3
<1> QED
  BY <1>2, <1>3

(* A fulfilment adds to what the copies say, within what was approved. *)
FulfillWrites(w, old, paid, added) ==
    /\ \A l \in paid : /\ old[l] \in LineRow /\ added[l] \in Nat
                       /\ old[l].fulfilled + added[l] <= old[l].approved
    /\ line' = [l \in Lines |-> IF l \in paid /\ HasLine(l)
                  THEN [line[l] EXCEPT !.fulfilled = old[l].fulfilled + added[l]]
                  ELSE line[l]]
    /\ handed' = [l \in Lines |-> IF l \in paid THEN handed[l] + added[l] ELSE handed[l]]
    /\ rq' = [rq EXCEPT !.status = Saved(@, req[w].status,
                IF AllFulfilled(paid, line') THEN "FULFILLED" ELSE "PARTIALLY_FULFILLED")]
    /\ overtaken' = (\/ overtaken \/ rq.status # req[w].status
                     \/ \E l \in paid : HasLine(l) /\ line[l].fulfilled # old[l].fulfilled)
    /\ req' = [req EXCEPT ![w] = Idle]
    /\ (stock \in [Lines -> 0 .. MaxStock])'
    /\ AssetSideOK'

LEMMA FulfillStep ==
    ASSUME RequisitionInv, NEW w \in Workers, FulfillCommit(w)
    PROVE  \E paid \in (SUBSET Lines) \ {{}} : \E added :
              FulfillWrites(w, req[w].loaded, paid, added)
<1>1. PICK old \in [Lines -> LineRow \cup {NoLine}] : old = req[w].loaded
  BY InvTypes, RequestFields DEF FulfillCommit, Serving
<1>2. \A l \in Lines : old[l] # NoLine => old[l] \in LineRow /\ old[l].fulfilled <= old[l].approved
  BY <1>1 DEF FulfillCommit, RequisitionInv, Quantities, CopyTrue
<1>3. PICK paid \in (SUBSET Lines) \ {{}} : \E it \in [paid -> SUBSET Items], as \in [paid -> 0 .. MaxAsk] :
                  FulfillLines(w, old, paid, it, as)
  BY <1>1 DEF FulfillCommit
<1>p. PICK items \in [paid -> SUBSET Items], ask \in [paid -> 0 .. MaxAsk] :
        FulfillLines(w, old, paid, items, ask)
  BY <1>3
<1>4. PICK added : added = [l \in paid |-> IF old[l].type = "MOVEABLE" THEN Cardinality(items[l])
                                           ELSE Taken(l, old[l], ask[l])]
  OBVIOUS
<1>5. ASSUME NEW l \in paid
      PROVE  /\ old[l] \in LineRow /\ added[l] \in Nat
             /\ old[l].fulfilled + added[l] <= old[l].approved
             /\ old[l].type # "MOVEABLE" => added[l] <= stock[l]
  <2>1. old[l] \in LineRow /\ old[l].fulfilled <= old[l].approved
    BY <1>2, <1>p DEF FulfillLines
  <2>2. /\ items[l] \in SUBSET Items /\ ask[l] \in 0 .. MaxAsk
        /\ LineAccepts(old[l], items[l], ask[l]) /\ stock[l] \in 0 .. MaxStock
    BY <1>p, InvTypes DEF FulfillLines
  <2>3. added[l] = IF old[l].type = "MOVEABLE" THEN Cardinality(items[l])
                                               ELSE Taken(l, old[l], ask[l])
    BY <1>4
  <2> QED
    BY <2>1, <2>2, <2>3, AddedFits
<1>6. AssetSideOK'
  <2>1. HandOut(UNION {items[l] : l \in {m \in paid : old[m].type = "MOVEABLE"}}, Target)
    BY <1>p DEF FulfillLines
  <2>2. UNION {items[l] : l \in {m \in paid : old[m].type = "MOVEABLE"}} \in SUBSET Items
    OBVIOUS
  <2> QED
    BY <2>1, <2>2, InvTypes, HandOutKeeps
<1>7. (stock \in [Lines -> 0 .. MaxStock])'
  <2>1. stock' = [l \in Lines |-> IF l \in paid /\ old[l].type # "MOVEABLE"
                                    THEN stock[l] - added[l] ELSE stock[l]]
    BY <1>p, <1>4 DEF FulfillLines
  <2>2. ASSUME NEW l \in Lines PROVE stock'[l] \in 0 .. MaxStock
    <3>1. stock[l] \in 0 .. MaxStock /\ MaxStock \in Nat
      BY InvTypes, RequisitionConstants
    <3> QED
      BY <1>5, <2>1, <3>1
  <2> QED
    BY <2>1, <2>2
<1>8. /\ line' = [l \in Lines |-> IF l \in paid /\ HasLine(l)
                    THEN [line[l] EXCEPT !.fulfilled = old[l].fulfilled + added[l]]
                    ELSE line[l]]
      /\ handed' = [l \in Lines |-> IF l \in paid THEN handed[l] + added[l] ELSE handed[l]]
      /\ rq' = [rq EXCEPT !.status = Saved(@, req[w].status,
                  IF AllFulfilled(paid, line') THEN "FULFILLED" ELSE "PARTIALLY_FULFILLED")]
      /\ overtaken' = (\/ overtaken \/ rq.status # req[w].status
                       \/ \E l \in paid : HasLine(l) /\ line[l].fulfilled # old[l].fulfilled)
  BY <1>p, <1>4 DEF FulfillLines
<1>9. req' = [req EXCEPT ![w] = Idle]
  BY DEF FulfillCommit, Ends
<1>10. FulfillWrites(w, old, paid, added)
  BY <1>5, <1>6, <1>7, <1>8, <1>9 DEF FulfillWrites
<1> QED
  BY <1>1, <1>10

LEMMA FulfillPreserves ==
    ASSUME RequisitionInv, NEW w \in Workers, FulfillCommit(w)
    PROVE  RequisitionInv'
<1>0. Idle \in Requests /\ Idle.op = "Idle"
  BY DEF Requests, Idle
<1>1. PICK q \in Requests : q = req[w]
  BY InvTypes
<1>2. /\ Serving(w, "Fulfill") /\ Exists /\ q.status \in FulfillAllowed
      /\ q.loaded \in [Lines -> LineRow \cup {NoLine}]
  BY <1>1, RequestFields DEF FulfillCommit, Serving
<1>3. PICK old \in [Lines -> LineRow \cup {NoLine}] : old = q.loaded
  BY <1>2
<1>4. PICK paid \in (SUBSET Lines) \ {{}} : \E a : FulfillWrites(w, old, paid, a)
  BY <1>1, <1>3, FulfillStep
<1>5. PICK added : FulfillWrites(w, old, paid, added)
  BY <1>4
<1>6. ASSUME NEW l \in Lines, l \in paid
      PROVE  /\ old[l] \in LineRow /\ old[l] # NoLine /\ added[l] \in Nat
             /\ old[l].fulfilled \in Nat /\ old[l].approved \in Nat
             /\ old[l].fulfilled + added[l] <= old[l].approved
             /\ old[l].fulfilled <= handed[l]
             /\ HasLine(l) => line[l].approved = old[l].approved
  <2>1. /\ old[l] \in LineRow /\ added[l] \in Nat
        /\ old[l].fulfilled + added[l] <= old[l].approved
    BY <1>5, <1>6 DEF FulfillWrites
  <2>2. old[l] # NoLine /\ old[l].fulfilled \in Nat /\ old[l].approved \in Nat
    BY <2>1, RemainingFits DEF NoLine, LineRow, LineTypes
  <2>3. old[l].fulfilled <= handed[l] /\ (HasLine(l) => line[l].approved = old[l].approved)
    BY <1>1, <1>2, <1>3, <2>2 DEF RequisitionInv, Quantities, CopyTrue
  <2> QED
    BY <2>1, <2>2, <2>3
<1>7. ASSUME NEW l \in Lines
      PROVE  /\ line'[l] = IF l \in paid /\ HasLine(l)
                             THEN [line[l] EXCEPT !.fulfilled = old[l].fulfilled + added[l]]
                             ELSE line[l]
             /\ handed'[l] = IF l \in paid THEN handed[l] + added[l] ELSE handed[l]
             /\ handed[l] \in Nat
  BY <1>5, InvTypes DEF FulfillWrites
<1>8. ASSUME NEW l \in Lines, HasLine(l)
      PROVE  /\ line[l] \in LineRow /\ line[l].fulfilled \in Nat /\ line[l].approved \in Nat
             /\ line'[l] \in LineRow /\ HasLine(l)' /\ line'[l].approved = line[l].approved
             /\ line'[l].fulfilled = IF l \in paid THEN old[l].fulfilled + added[l]
                                                   ELSE line[l].fulfilled
  <2>1. line[l] \in LineRow
    BY <1>8, IsALine
  <2>2. line[l].fulfilled \in Nat /\ line[l].approved \in Nat
    BY <2>1, RemainingFits
  <2>3. CASE l \in paid
    <3>1. PICK n \in Nat : n = old[l].fulfilled + added[l]
      BY <1>6, <2>3
    <3>2. line'[l] = [line[l] EXCEPT !.fulfilled = n]
      BY <1>7, <1>8, <2>3, <3>1
    <3>3. line'[l] \in LineRow /\ line'[l].approved = line[l].approved /\ line'[l].fulfilled = n
      BY <2>1, <3>2 DEF LineRow
    <3>4. HasLine(l)'
      BY <3>3 DEF HasLine, NoLine, LineRow, LineTypes
    <3> QED
      BY <2>1, <2>2, <2>3, <3>1, <3>3, <3>4
  <2>4. CASE l \notin paid
    <3>1. line'[l] = line[l]
      BY <1>7, <2>4
    <3> QED
      BY <1>8, <2>1, <2>2, <2>4, <3>1 DEF HasLine
  <2> QED
    BY <2>3, <2>4
<1>9. ASSUME NEW l \in Lines PROVE HasLine(l)' <=> HasLine(l)
  BY <1>7, <1>8 DEF HasLine
<1>10. ASSUME NEW l \in Lines PROVE handed'[l] \in Nat /\ handed[l] <= handed'[l]
  <2>1. PICK n \in Nat : n = IF l \in paid THEN added[l] ELSE 0
    BY <1>6
  <2>2. PICK h \in Nat : h = handed[l]
    BY <1>7
  <2>3. handed'[l] = h + n
    <3>1. CASE l \in paid
      <4>1. handed'[l] = handed[l] + added[l]
        BY <1>7, <3>1
      <4> QED
        BY <2>1, <2>2, <3>1, <4>1
    <3>2. CASE l \notin paid
      <4>1. handed'[l] = handed[l]
        BY <1>7, <3>2
      <4> QED
        BY <2>1, <2>2, <3>2, <4>1
    <3> QED
      BY <3>1, <3>2
  <2> QED
    BY <2>1, <2>2, <2>3
<1>11. PICK st \in {"FULFILLED", "PARTIALLY_FULFILLED"} :
          st = IF AllFulfilled(paid, line') THEN "FULFILLED" ELSE "PARTIALLY_FULFILLED"
  OBVIOUS
<1>12. /\ rq'.status = Saved(rq.status, q.status, st) /\ rq'.form = rq.form
       /\ rq' \in [status: RequisitionStatus \cup {"NONE", "GONE"}, form: BOOLEAN]
       /\ Exists'
  <2>1. rq' = [rq EXCEPT !.status = Saved(@, q.status, st)]
    BY <1>1, <1>5, <1>11 DEF FulfillWrites
  <2>2. Saved(rq.status, q.status, st) \in RequisitionStatus
    BY <1>2 DEF Saved, Exists, RequisitionStatus, FulfillAllowed
  <2> QED
    BY <2>1, <2>2, InvTypes DEF Exists
<1>13. req' \in [Workers -> Requests] /\ \A v \in Workers : req'[v] = IF v = w THEN Idle ELSE req[v]
  BY <1>0, <1>5, OneRequestMoves DEF FulfillWrites
<1>14. RequisitionTypeOK' /\ OneTenant'
  <2>1. line' \in [Lines -> LineRow \cup {NoLine}]
    <3>1. \A l \in Lines : line'[l] \in LineRow \cup {NoLine}
      BY <1>8, <1>9 DEF HasLine
    <3> QED
      BY <1>5, <3>1 DEF FulfillWrites
  <2>2. handed' \in [Lines -> Nat]
    BY <1>5, <1>10 DEF FulfillWrites
  <2>3. overtaken' \in BOOLEAN /\ (stock \in [Lines -> 0 .. MaxStock])' /\ AssetSideOK'
    BY <1>5 DEF FulfillWrites
  <2> QED
    BY <1>12, <1>13, <2>1, <2>2, <2>3, TypesInv
<1>15. RecordedIsHandedOut'
  <2>1. ASSUME NEW l \in Lines, HasLine(l)
        PROVE  line'[l].fulfilled <= line'[l].approved /\ line'[l].fulfilled <= handed'[l]
    <3>1. line[l].fulfilled <= line[l].approved /\ line[l].fulfilled <= handed[l]
      BY <2>1 DEF RequisitionInv, Quantities, RecordedIsHandedOut
    <3>2. CASE l \in paid
      <4>1. /\ line'[l].fulfilled = old[l].fulfilled + added[l]
            /\ line'[l].approved = old[l].approved
        BY <1>6, <1>8, <2>1, <3>2
      <4>2. handed'[l] = handed[l] + added[l]
        BY <1>7, <3>2
      <4>3. PICK f \in Nat, n \in Nat, h \in Nat :
               /\ f = old[l].fulfilled /\ n = added[l] /\ h = handed[l]
               /\ f <= h /\ f + n <= old[l].approved
        BY <1>6, <1>7, <3>2
      <4> QED
        BY <4>1, <4>2, <4>3
    <3>3. CASE l \notin paid
      BY <1>7, <1>8, <2>1, <3>1, <3>3
    <3> QED
      BY <3>2, <3>3
  <2> QED
    BY <1>9, <2>1 DEF RecordedIsHandedOut
<1>16. Accounted'
  <2>1. SUFFICES ASSUME ~overtaken', NEW l \in Lines, HasLine(l)
                 PROVE  /\ handed'[l] = line'[l].fulfilled
                        /\ rq'.status \in {"SUBMITTED", "REJECTED_INVALID"} => handed'[l] = 0
                        /\ rq'.status = "FULFILLED" => handed'[l] = line'[l].approved
    BY <1>9 DEF Accounted
  <2>2. /\ ~overtaken /\ rq.status = q.status
        /\ \A m \in paid : HasLine(m) => line[m].fulfilled = old[m].fulfilled
    BY <1>1, <1>5, <2>1 DEF FulfillWrites
  <2>3. handed[l] = line[l].fulfilled
    BY <2>1, <2>2 DEF RequisitionInv, Quantities, Accounted
  <2>4. handed'[l] = line'[l].fulfilled
    <3>1. CASE l \in paid
      <4>1. line'[l].fulfilled = line[l].fulfilled + added[l]
        BY <1>8, <2>1, <2>2, <3>1
      <4>2. handed'[l] = handed[l] + added[l]
        BY <1>7, <3>1
      <4> QED
        BY <2>3, <4>1, <4>2
    <3>2. CASE l \notin paid
      <4>1. line'[l].fulfilled = line[l].fulfilled /\ handed'[l] = handed[l]
        BY <1>7, <1>8, <2>1, <3>2
      <4> QED
        BY <2>3, <4>1
    <3> QED
      BY <3>1, <3>2
  <2>5. rq'.status = st
    BY <1>12, <2>2 DEF Saved
  <2>6. st = "FULFILLED" => line'[l].fulfilled = line'[l].approved
    <3>1. line'[l] # NoLine
      BY <1>8, <2>1 DEF HasLine
    <3> QED
      BY <1>11, <3>1 DEF AllFulfilled
  <2> QED
    BY <2>4, <2>5, <2>6
<1>17. ASSUME NEW v \in Workers PROVE CopyTrue(v)'
  <2>1. CASE v = w
    BY <1>0, <1>13, <2>1 DEF CopyTrue, Serving
  <2>2. CASE v # w
    <3>1. CopyTrue(v) /\ req'[v] = req[v] /\ req[v] \in Requests
      BY <1>13, <2>2, InvTypes DEF RequisitionInv, Quantities
    <3>2. ASSUME NEW l \in Lines, Serving(v, "Fulfill"), req[v].loaded[l] # NoLine
          PROVE  /\ req[v].loaded[l].fulfilled <= req[v].loaded[l].approved
                 /\ req[v].loaded[l].fulfilled <= handed'[l]
                 /\ HasLine(l)' => line'[l].approved = req[v].loaded[l].approved
      <4>1. req[v].loaded[l] \in LineRow
        BY <3>1, <3>2, RequestFields DEF Serving
      <4>2. PICK f \in Nat : f = req[v].loaded[l].fulfilled
        BY <4>1, RemainingFits
      <4>3. f <= handed[l] /\ f <= req[v].loaded[l].approved
            /\ (HasLine(l) => line[l].approved = req[v].loaded[l].approved)
        BY <3>1, <3>2, <4>2 DEF CopyTrue
      <4>4. f <= handed'[l]
        <5>1. handed[l] \in Nat /\ handed'[l] \in Nat /\ handed[l] <= handed'[l]
          BY <1>7, <1>10
        <5> QED
          BY <4>3, <5>1
      <4> QED
        BY <1>8, <1>9, <4>2, <4>3, <4>4
    <3> QED
      BY <3>1, <3>2 DEF CopyTrue, Serving
  <2> QED
    BY <2>1, <2>2
<1>18. Life'
  <2>1. ~Blank
    <3>1. PICK l \in Lines : l \in paid
      OBVIOUS
    <3> QED
      BY <1>1, <1>2, <1>3, <1>6, <3>1 DEF Blank
  <2>2. rq.status # "NONE" /\ rq'.status # "NONE"
    BY <1>2, <1>12 DEF Exists, RequisitionStatus, FulfillAllowed
  <2>3. \A v \in Workers : \A op \in {"CreateRequisition", "CleanUp"} :
           Serving(v, op)' <=> Serving(v, op)
    BY <1>0, <1>2, <1>13 DEF Serving
  <2> QED
    BY <1>2, <1>9, <1>12, <2>1, <2>2, <2>3, LifeKept
<1> QED
  BY <1>14, <1>15, <1>16, <1>17, <1>18 DEF RequisitionInv, Quantities

-----------------------------------------------------------------------------
LEMMA RequestPreserves ==
    ASSUME RequisitionInv, NEW w \in Workers, RequisitionStep(w)
    PROVE  RequisitionInv'
<1>0. Idle.op = "Idle" /\ (UNCHANGED <<item, asg>> => AssetSideOK')
  BY InvTypes DEF Idle, AssetSideOK, OneTenant, IsOpen
<1>1. ASSUME NEW l \in Lines, NEW t \in Mappings, MapLineRead(w, l, t)
      PROVE  RequisitionInv'
  <2>1. PICK r : r = [op |-> "MapLine", line |-> l, type |-> t, loaded |-> line[l]]
    OBVIOUS
  <2>2. line[l] \in LineRow /\ t \in LineTypes
    BY <1>1, IsALine, RequisitionConstants DEF MapLineRead, LineTypes
  <2>3. r \in Requests
    BY <2>1, <2>2 DEF Requests, RequisitionRequest
  <2>4. Bystands(w, r) /\ r.op # "Fulfill" /\ UNCHANGED <<item, asg, qvars>>
    BY <1>0, <1>1, <2>1, <2>3 DEF MapLineRead, Starts, Bystands, Creating
  <2> QED
    BY <1>0, <2>4, BystanderPreserves
<1>2. ASSUME NEW next \in {"APPROVED", "REJECTED_INVALID"}, VerifyRead(w, next)
      PROVE  RequisitionInv'
  <2>1. PICK r : r = [op |-> "Verify", next |-> next]
    OBVIOUS
  <2>2. r \in Requests
    BY <2>1 DEF Requests, RequisitionRequest
  <2>3. Bystands(w, r) /\ r.op # "Fulfill" /\ UNCHANGED <<item, asg, qvars>>
    BY <1>0, <1>2, <2>1, <2>2 DEF VerifyRead, Starts, Bystands, Creating
  <2> QED
    BY <1>0, <2>3, BystanderPreserves
<1>3. ASSUME FulfillRead(w) PROVE RequisitionInv'
  <2>1. PICK r : r = [op |-> "Fulfill", status |-> rq.status, loaded |-> line]
    OBVIOUS
  <2>2. r \in Requests
    BY <1>3, <2>1, InvTypes DEF FulfillRead, Requests, RequisitionRequest
  <2>3. Bystands(w, r) /\ r.loaded = line /\ UNCHANGED <<item, asg, qvars>>
    BY <1>0, <1>3, <2>1, <2>2 DEF FulfillRead, Starts, Bystands, Creating
  <2> QED
    BY <1>0, <2>3, BystanderPreserves
<1> QED
  BY <1>1, <1>2, <1>3, InsertPreserves, InsertLinesPreserves, LinkFormPreserves, AnswerPreserves,
     CreateFailsPreserves, CleanUpPreserves, MapLinePreserves, VerifyPreserves, FulfillPreserves
     DEF RequisitionStep

LEMMA StepPreserves == RequisitionInv /\ [RNext]_rvars => RequisitionInv'
<1> SUFFICES ASSUME RequisitionInv, [RNext]_rvars PROVE RequisitionInv'
  OBVIOUS
<1>1. ASSUME NEW w \in Workers, Elsewhere(w), UNCHANGED qvars PROVE RequisitionInv'
  BY <1>1, InvTypes, ElsewhereKeeps, BystanderPreserves
<1>2. ASSUME NEW w \in Workers, ~Creating(w), Fail(w), UNCHANGED <<item, asg, qvars>>
      PROVE  RequisitionInv'
  <2>1. Bystands(w, Idle) /\ Idle.op # "Fulfill"
    BY <1>2 DEF Fail, Ends, Bystands, Requests, Idle
  <2>2. AssetSideOK'
    BY <1>2, InvTypes DEF AssetSideOK, OneTenant, IsOpen
  <2> QED
    BY <1>2, <2>1, <2>2, BystanderPreserves
<1>3. ASSUME UNCHANGED rvars PROVE RequisitionInv'
  BY <1>3 DEF rvars, qvars, RequisitionInv, RequisitionTypeOK, OneTenant, IsOpen, Quantities,
              RecordedIsHandedOut, Accounted, CopyTrue, Life, WholeOrGone, MakerKnows, Blank,
              NoLines, AllLines, Exists, HasLine, Serving, Creating
<1> QED
  BY <1>1, <1>2, <1>3, AdjustPreserves, RequestPreserves DEF RNext

LEMMA ItemsStartTyped == ItemsInit => item \in [Items -> ItemRow]
<1>1. \A o \in Offices : InOffice(o) \in Holders
  BY DEF InOffice, Holders, Places
<1>2. \A h \in Holders : \A x \in Creatable : NewItem(h, x) \in ItemRow
  BY ItemConstants DEF NewItem, Creatable, ItemRow
<1> QED
  BY <1>1, <1>2 DEF ItemsInit, InStore, Holders, Places

LEMMA InitHolds == RInit => RequisitionInv
<1> SUFFICES ASSUME RInit PROVE RequisitionInv
  OBVIOUS
<1>1. /\ rq.status = "NONE" /\ ~rq.form /\ (\A l \in Lines : ~HasLine(l) /\ handed[l] = 0)
      /\ (\A w \in Workers : req[w] = Idle /\ Idle.op = "Idle")
      /\ (\A a \in Assignments : asg[a] = Unwritten)
  BY DEF RInit, AInit, AssignmentsInit, ItemsInit, HasLine, Idle
<1>2. RequisitionTypeOK
  <2>1. item \in [Items -> ItemRow]
    BY ItemsStartTyped DEF RInit, AInit
  <2>2. req = [w \in Workers |-> Idle]
    BY DEF RInit, AInit, ItemsInit
  <2> QED
    BY <2>1, <2>2 DEF RInit, AInit, AssignmentsInit, RequisitionTypeOK
<1>3. OneTenant
  BY <1>1 DEF OneTenant, IsOpen, Unwritten, Open
<1>4. Quantities
  BY <1>1 DEF Quantities, RecordedIsHandedOut, Accounted, CopyTrue, Serving
<1>5. Blank /\ ~Exists
  BY <1>1 DEF Blank, NoLines, Serving, Exists, RequisitionStatus, FulfillAllowed
<1>6. Life
  BY <1>1, <1>5 DEF Life, MakerKnows, WholeOrGone, Creating, Serving
<1> QED
  BY <1>2, <1>3, <1>4, <1>6 DEF RequisitionInv

(* The inductive invariant of the requisition. *)
THEOREM RequisitionInvariant == RSpec => []RequisitionInv
  BY InitHolds, StepPreserves, PTL DEF RSpec

(* Rows and requests keep their shape, and no balance goes below zero. *)
THEOREM RequisitionTypesHold == RSpec => []RequisitionTypeOK
<1>1. RequisitionInv => RequisitionTypeOK
  BY DEF RequisitionInv
<1> QED
  BY <1>1, RequisitionInvariant, PTL

(* Items that are handed out on a requisition, beside drafts made for them *)
(* and returns under way, have one tenant: the unique indexes see to it.   *)
THEOREM OneTenantHere == RSpec => []OneTenant
<1>1. RequisitionInv => OneTenant
  BY DEF RequisitionInv
<1> QED
  BY <1>1, RequisitionInvariant, PTL

(* fulfill, from whichever old copy of the lines, never records more than  *)
(* was handed out or approved.                                             *)
THEOREM NoMoreThanHandedOut == RSpec => []RecordedIsHandedOut
<1>1. RequisitionInv => RecordedIsHandedOut
  BY DEF RequisitionInv, Quantities
<1> QED
  BY <1>1, RequisitionInvariant, PTL

(* Until some request writes over another's status or quantity, what is    *)
(* recorded is exactly what was handed out, and only after an approval.    *)
THEOREM AlwaysAccounted == RSpec => []Accounted
<1>1. RequisitionInv => Accounted
  BY DEF RequisitionInv, Quantities
<1> QED
  BY <1>1, RequisitionInvariant, PTL

(* create's catch block removes what its request made, whatever others did *)
(* to it in the meantime: no requisition stays without its lines or form.  *)
THEOREM NeverHalfMade == RSpec => []WholeOrGone
<1>1. RequisitionInv => WholeOrGone
  BY DEF RequisitionInv, Life
<1> QED
  BY <1>1, RequisitionInvariant, PTL
=============================================================================
