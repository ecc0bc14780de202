--------------------------- MODULE ReturnRequests ---------------------------
(***************************************************************************)
(* returnRequest.controller.ts: an employee (or a manager for one) asks to *)
(* hand a set of items back; the office receives them, which closes their  *)
(* assignments, and then uploads the signed receipt.  This is a second way *)
(* to return an item, beside the return slip of Assignments, and neither   *)
(* path knows of the other.                                                *)
(***************************************************************************)
EXTENDS Assignments, Naturals, FiniteSets

CONSTANTS Requests,       \* bound: the return request ids that get used
          ReturnLines     \* bound: the item sets return requests are for

ASSUME ReturnConstants == ReturnLines \subseteq (SUBSET Items) \ {{}}

VARIABLE rrq   \* rrq[r]: the ReturnRequest document r, or NoRequest

(* RECEIVED_CONFIRMED and REJECTED are in the schema; no handler writes them. *)
ReturnStatus == {"SUBMITTED", "RECEIVED_CONFIRMED", "CLOSED_PENDING_SIGNATURE",
                 "CLOSED", "REJECTED"}
ReceiveAllowed == {"SUBMITTED", "RECEIVED_CONFIRMED"}
SignedUploadAllowed == {"CLOSED_PENDING_SIGNATURE"}

NoRequest == [status |-> "NONE"]

ReturnRow == [status: ReturnStatus, who: Employees, office: Offices,
              lines: SUBSET Items]

CreateReturnRequest ==
    [op: {"CreateReturn"}, who: Employees, office: Offices, lines: SUBSET Items]

ReturnsInit == rrq = [r \in Requests |-> NoRequest]

-----------------------------------------------------------------------------
(* The assignments a return of lines by e is about: employee_id e,         *)
(* is_active, no returned_date; any status.                                *)
Returnable(e, lines) ==
    {a \in Assignments : /\ asg[a].item \in lines /\ asg[a].who = e
                         /\ asg[a].active /\ ~asg[a].returned}

AtOffice(i, o) == item[i].holder = InOffice(o) /\ item[i].active

(* POST /return-requests.  returnAll takes the largest set that passes.    *)
CreateReturnRead(w, e, o, lines) ==
    /\ \A i \in lines : AtOffice(i, o) /\ Returnable(e, {i}) # {}
    /\ Starts(w, [op |-> "CreateReturn", who |-> e, office |-> o, lines |-> lines])
    /\ UNCHANGED <<item, asg, rrq>>

(* No check for another request of the same items. *)
CreateReturnWrite(w, r) ==
    /\ Serving(w, "CreateReturn")
    /\ rrq[r] = NoRequest
    /\ rrq' = [rrq EXCEPT ![r] = [status |-> "SUBMITTED", who |-> req[w].who,
                                  office |-> req[w].office, lines |-> req[w].lines]]
    /\ Ends(w)
    /\ UNCHANGED <<item, asg>>

(* The writes of receive.  save() validates the assignment, and derives    *)
(* is_active from the new status.                                          *)
Receipt(r) ==
    LET lines == rrq[r].lines
        closing == Returnable(rrq[r].who, lines)
    IN  /\ \A a \in closing : Valid(asg[a])
        /\ asg' = [a \in Assignments |->
                      IF a \in closing
                        THEN [asg[a] EXCEPT !.status = "RETURNED", !.active = FALSE,
                                            !.returned = TRUE]
                        ELSE asg[a]]
        /\ item' = [i \in Items |->
                      IF i \in lines
                        THEN [item[i] EXCEPT !.assignment = "Unassigned",
                                  !.status = IF @ = "Maintenance" THEN @ ELSE "Available"]
                        ELSE item[i]]
        /\ rrq' = [rrq EXCEPT ![r].status = "CLOSED_PENDING_SIGNATURE"]
        /\ UNCHANGED req

(* Mutant: whatever assignments are left are closed, without counting. *)
ReceiveUncounted(r) ==
    /\ rrq[r].status \in ReceiveAllowed
    /\ \A i \in rrq[r].lines : AtOffice(i, rrq[r].office)
    /\ Receipt(r)

(* POST /return-requests/:id/receive, one transaction that reads all it    *)
(* depends on.                                                             *)
Receive(r) ==
    /\ rrq[r].status \in ReceiveAllowed
    /\ Cardinality(Returnable(rrq[r].who, rrq[r].lines)) = Cardinality(rrq[r].lines)
    /\ \A i \in rrq[r].lines : AtOffice(i, rrq[r].office)
    /\ Receipt(r)

(* Mutant: the signed receipt confirms the request instead of closing it. *)
UploadConfirms(r) ==
    /\ rrq[r].status \in SignedUploadAllowed
    /\ rrq' = [rrq EXCEPT ![r].status = "RECEIVED_CONFIRMED"]
    /\ UNCHANGED <<item, req, asg>>

(* POST /return-requests/:id/signed-return, one transaction *)
UploadSignedReturn(r) ==
    /\ rrq[r].status \in SignedUploadAllowed
    /\ rrq' = [rrq EXCEPT ![r].status = "CLOSED"]
    /\ UNCHANGED <<item, req, asg>>

ReturnStep ==
    \/ \E w \in Workers :
          \/ \E e \in Employees, o \in Offices, lines \in ReturnLines :
                CreateReturnRead(w, e, o, lines)
          \/ \E r \in Requests : CreateReturnWrite(w, r)
    \/ \E r \in Requests : Receive(r) \/ UploadSignedReturn(r)

-----------------------------------------------------------------------------
(* Return requests beside the assignment handlers they race with. *)
rvars == <<item, req, asg, rrq>>

RInit == AInit /\ ReturnsInit

RNext == \/ ReturnStep
         \/ ANext /\ UNCHANGED rrq

RSpec == RInit /\ [][RNext]_rvars

(* Type invariant; RECEIVED_CONFIRMED and REJECTED never occur. *)
ReturnTypeOK ==
    /\ item \in [Items -> ItemRow]
    /\ req \in [Workers -> {Idle} \cup ItemRequest \cup AssignmentRequest
                                  \cup CreateReturnRequest]
    /\ asg \in [Assignments -> AssignmentRow \cup {Unwritten}]
    /\ rrq \in [Requests -> ReturnRow \cup {NoRequest}]
    /\ \A r \in Requests : rrq[r].status \notin {"RECEIVED_CONFIRMED", "REJECTED"}

Received(r) == rrq[r].status \in {"CLOSED_PENDING_SIGNATURE", "CLOSED"}

(* "Some requested asset items do not have active assignments to this      *)
(* employee": an item is received back from an employee once per           *)
(* assignment of it to them, however many requests were submitted for it,  *)
(* whichever of the two return paths came first, and also when an edit set *)
(* is_active of a returned assignment again or changed its employee_id.    *)
EachReturnOnce ==
    \A i \in Items, e \in Employees :
        Cardinality({r \in Requests : Received(r) /\ i \in rrq[r].lines /\ rrq[r].who = e})
          <= Cardinality({a \in Assignments :
                             asg[a].status \in Closed /\ asg[a].item = i /\ asg[a].to = e})

(* An item that is given out becomes free only when the assignment it is   *)
(* given out under is returned, or when it is retired: no request, of      *)
(* either return path, frees it from under a later tenant.                 *)
FreedByItsReturn ==
    [][\A a \in Assignments :
          LET i == asg[a].item IN
            asg[a].status \in {"ISSUED", "RETURN_REQUESTED"}
            /\ item[i].assignment = "Assigned" /\ item'[i].assignment # "Assigned"
               => asg'[a].status = "RETURNED" \/ ~item'[i].active]_rvars
=============================================================================
