---------------------------- MODULE Requisitions ----------------------------
(***************************************************************************)
(* requisition.controller.ts: an employee asks for moveable assets and     *)
(* consumables, the office head approves, and the caretaker hands out,     *)
(* line by line and in several goes, asset items as ISSUED assignments and *)
(* consumables from the office's balances.                                 *)
(*                                                                         *)
(* One requisition is followed, beside the handlers of the assignments it  *)
(* makes.  fulfill loads the requisition and its lines before its          *)
(* transaction starts and writes quantities computed from those copies;    *)
(* items, assignments and balances it reads inside.  Of the requisition's  *)
(* entry in the register nothing is kept here.  The statuses CANCELLED and *)
(* FULFILLED_PENDING_SIGNATURE no handler writes.                          *)
(***************************************************************************)
EXTENDS Assignments, Integers, FiniteSetsExt, Functions

CONSTANTS Lines,        \* bound: the lines of the requisition
          Target,       \* whom the requisition is for
          AnyApproved,  \* bound: the approved quantities of lines
          NewLines,     \* bound: the line types submitted, each mapped or not
          Mappings,     \* bound: the line types mapLine is called with
          MaxAsk,       \* bound: the quantity a fulfilment asks for a line
          MaxStock      \* bound: the office's stock of what a line asks for

ASSUME RequisitionConstants ==
    /\ Target \in Targets /\ IsFiniteSet(Items)
    /\ NewLines \subseteq {"MOVEABLE", "CONSUMABLE"} \X BOOLEAN
    /\ Mappings \subseteq {"MOVEABLE", "CONSUMABLE"}
    /\ AnyApproved \subseteq Nat /\ MaxAsk \in Nat /\ MaxStock \in Nat

VARIABLES rq,         \* rq.status: the Requisition document, NONE before it is
                      \*   made and GONE once removed; rq.form: its form is linked
          line,       \* line[l]: the RequisitionLine l, or NoLine
          stock,      \* stock[l]: the office's balance of the consumable of l
          handed,     \* handed[l]: what was handed out for line l
          overtaken   \* a status or quantity was written from an outdated copy

qvars == <<rq, line, stock, handed, overtaken>>
rvars == <<item, req, asg, qvars>>

LineTypes == {"MOVEABLE", "CONSUMABLE"}
FulfillAllowed == {"APPROVED", "PARTIALLY_FULFILLED"}
RequisitionStatus == {"SUBMITTED", "REJECTED_INVALID", "FULFILLED"} \cup FulfillAllowed

NoLine == [type |-> "NONE"]
LineRow == [type: LineTypes, asset: BOOLEAN, consumable: BOOLEAN,
            approved: AnyApproved, fulfilled: Nat]

RequisitionRequest ==
    [op: {"CreateRequisition", "CleanUp"}]
    \cup [op: {"MapLine"}, line: Lines, type: LineTypes, loaded: LineRow]
    \cup [op: {"Verify"}, next: {"APPROVED", "REJECTED_INVALID"}]
    \cup [op: {"Fulfill"}, status: FulfillAllowed,
          loaded: [Lines -> LineRow \cup {NoLine}]]

Exists == rq.status \in RequisitionStatus
HasLine(l) == line[l] # NoLine

RInit == /\ AInit
         /\ rq = [status |-> "NONE", form |-> FALSE]
         /\ line = [l \in Lines |-> NoLine]
         /\ stock \in [Lines -> 0 .. MaxStock]
         /\ handed = [l \in Lines |-> 0]
         /\ overtaken = FALSE

-----------------------------------------------------------------------------
(* POST /requisitions: the requisition, its lines, the uploaded form, each *)
(* a write of its own and each visible to other requests at once.          *)
InsertRequisition(w) ==
    /\ rq.status = "NONE"
    /\ Starts(w, [op |-> "CreateRequisition"])
    /\ rq' = [rq EXCEPT !.status = "SUBMITTED"]
    /\ UNCHANGED <<item, asg, line, stock, handed, overtaken>>

NewLine(t, mapped, n) ==
    [type |-> t, asset |-> mapped /\ t = "MOVEABLE",
     consumable |-> mapped /\ t = "CONSUMABLE", approved |-> n, fulfilled |-> 0]

(* One insertMany, taken as one write. *)
InsertLines(w) ==
    /\ Serving(w, "CreateRequisition") /\ \A l \in Lines : ~HasLine(l)
    /\ line' \in [Lines -> {NewLine(kind[1], kind[2], n) :
                               kind \in NewLines, n \in AnyApproved}]
    /\ UNCHANGED <<item, req, asg, rq, stock, handed, overtaken>>

LinkForm(w) ==
    /\ Serving(w, "CreateRequisition") /\ ~rq.form /\ \A l \in Lines : HasLine(l)
    /\ rq' = [rq EXCEPT !.form = TRUE]
    /\ UNCHANGED <<item, req, asg, line, stock, handed, overtaken>>

(* The notifications are out, too, and the request is answered. *)
CreateAnswers(w) ==
    /\ Serving(w, "CreateRequisition") /\ rq.form
    /\ Ends(w)
    /\ UNCHANGED <<item, asg, qvars>>

(* Mutant: the lines are left behind. *)
RemoveHeaderOnly(w) ==
    /\ Serving(w, "CreateRequisition")
    /\ rq' = [rq EXCEPT !.form = FALSE]
    /\ req' = [req EXCEPT ![w] = [op |-> "CleanUp"]]
    /\ UNCHANGED <<item, asg, line, stock, handed, overtaken>>

(* Its catch block: the form's link and the lines are deleted, and then    *)
(* the requisition.  It may fail after all the rows are written, when a    *)
(* notification cannot be stored.                                          *)
CreateFails(w) ==
    /\ Serving(w, "CreateRequisition")
    /\ rq' = [rq EXCEPT !.form = FALSE]
    /\ line' = [l \in Lines |-> NoLine]
    /\ req' = [req EXCEPT ![w] = [op |-> "CleanUp"]]
    /\ UNCHANGED <<item, asg, stock, handed, overtaken>>

CleanUp(w) ==
    /\ Serving(w, "CleanUp")
    /\ rq' = [rq EXCEPT !.status = "GONE"]
    /\ Ends(w)
    /\ UNCHANGED <<item, asg, line, stock, handed, overtaken>>

(* POST /requisitions/:id/lines/:lineId/map, at any status.  Of what a     *)
(* line is mapped to only whether it is; mapping a mapped line to another  *)
(* asset or consumable is no difference here.                              *)
MapLineRead(w, l, t) ==
    /\ Exists /\ HasLine(l)
    /\ Starts(w, [op |-> "MapLine", line |-> l, type |-> t, loaded |-> line[l]])
    /\ UNCHANGED <<item, asg, qvars>>

MapLineSave(w) ==
    /\ Serving(w, "MapLine")
    /\ LET l == req[w].line
           t == req[w].type
           old == req[w].loaded
       IN  /\ HasLine(l)
           /\ line' = [line EXCEPT
                         ![l].type = Saved(@, old.type, t),
                         ![l].asset = Saved(@, old.asset, t = "MOVEABLE"),
                         ![l].consumable = Saved(@, old.consumable, t = "CONSUMABLE")]
    /\ Ends(w)
    /\ UNCHANGED <<item, asg, rq, stock, handed, overtaken>>

(* POST /requisitions/:id/verify *)
VerifyRead(w, next) ==
    /\ rq.status = "SUBMITTED"
    /\ Starts(w, [op |-> "Verify", next |-> next])
    /\ UNCHANGED <<item, asg, qvars>>

VerifySave(w) ==
    /\ Serving(w, "Verify") /\ Exists
    /\ rq' = [rq EXCEPT !.status = req[w].next]
    /\ overtaken' = (overtaken \/ rq.status # "SUBMITTED")
    /\ Ends(w)
    /\ UNCHANGED <<item, asg, line, stock, handed>>

(* POST /requisitions/:id/adjust: one transaction that loads what it       *)
(* writes.  The quantities stay as they are.                               *)
Adjust ==
    /\ rq.status = "FULFILLED"
    /\ rq' = [rq EXCEPT !.status = "PARTIALLY_FULFILLED"]
    /\ UNCHANGED <<item, req, asg, line, stock, handed, overtaken>>

-----------------------------------------------------------------------------
(* POST /requisitions/:id/fulfill.  The requisition and then its lines are *)
(* loaded in two queries, one after the other; here in one step.           *)
FulfillRead(w) ==
    /\ rq.status \in FulfillAllowed
    /\ Starts(w, [op |-> "Fulfill", status |-> rq.status, loaded |-> line])
    /\ UNCHANGED <<item, asg, qvars>>

(* Mutant: all that was approved, however much was handed out before. *)
RemainingOfApproved(row) == row.approved

(* getRemainingQuantity *)
Remaining(row) == IF row.approved > row.fulfilled THEN row.approved - row.fulfilled ELSE 0

(* Mutant: the balance is not looked at. *)
TakenUnlimited(l, row, ask) == Min({ask, Remaining(row)})

(* What a consumable line takes: the least of what the caretaker asks for, *)
(* what remains of the line, and what the office has.                      *)
Taken(l, row, ask) == Min({ask, Remaining(row), stock[l]})

(* The payload: of a moveable line the items, of a consumable line the     *)
(* quantity.  Either is of no effect on a line of the other type.          *)
LineAccepts(row, items, ask) ==
    IF row.type = "MOVEABLE"
      THEN /\ Cardinality(items) <= Remaining(row)
           /\ items # {} => row.asset
      ELSE ask > 0 => Remaining(row) > 0 /\ row.consumable

Issued(i, e) == [status |-> "ISSUED", item |-> i, to |-> e, who |-> e,
                 active |-> TRUE, returned |-> FALSE]

(* Mutant: neither the lookup of open assignments nor the indexes. *)
HandOutBlindly(items, e) ==
    \E given \in [items -> Assignments] :
       /\ IsInjective(given)
       /\ \A i \in items : /\ HeldByOffice(i) /\ Assignable(item[i])
                           /\ ~Written(given[i])
       /\ asg' = [a \in Assignments |->
                    IF \E i \in items : given[i] = a
                      THEN Issued(CHOOSE i \in items : given[i] = a, e) ELSE asg[a]]
       /\ item' = [i \in Items |-> IF i \in items
                     THEN [item[i] EXCEPT !.assignment = "Assigned", !.status = "Assigned"]
                     ELSE item[i]]

(* insertMany of the assignments, updateMany of their items; given[i] is   *)
(* the assignment of item i.                                               *)
HandOut(items, e) ==
    \E given \in [items -> Assignments] :
       /\ IsInjective(given)
       /\ \A i \in items : /\ HeldByOffice(i) /\ Assignable(item[i])
                           /\ ~Written(given[i])
                           /\ IndexAllows(given[i], Issued(i, e))
       /\ asg' = [a \in Assignments |->
                    IF \E i \in items : given[i] = a
                      THEN Issued(CHOOSE i \in items : given[i] = a, e) ELSE asg[a]]
       /\ item' = [i \in Items |-> IF i \in items
                     THEN [item[i] EXCEPT !.assignment = "Assigned", !.status = "Assigned"]
                     ELSE item[i]]

(* Mutant: only the lines of the payload are looked at. *)
AllFulfilledOf(paid, rows) ==
    \A l \in paid : rows[l] # NoLine => rows[l].fulfilled = rows[l].approved

(* finalLines: every line the requisition has.  The code reads them in the *)
(* transaction's snapshot, here they are read when it commits.             *)
AllFulfilled(paid, rows) ==
    \A l \in Lines : rows[l] # NoLine => rows[l].fulfilled = rows[l].approved

(* What the payload of request w does to the lines in paid, from the copy  *)
(* of the lines and the status that w loaded. *)
FulfillLines(w, old, paid, items, ask) ==
    LET Outright(l) == old[l].type = "MOVEABLE"
        added == [l \in paid |-> IF Outright(l) THEN Cardinality(items[l])
                                                ELSE Taken(l, old[l], ask[l])]
        out == UNION {items[l] : l \in {m \in paid : Outright(m)}}
    IN  /\ \A l \in paid : /\ old[l] # NoLine
                           /\ LineAccepts(old[l], items[l], ask[l])
                           /\ (Outright(l) /\ ask[l] = 0) \/ (~Outright(l) /\ items[l] = {})
        /\ \A l, m \in paid : l # m => items[l] \cap items[m] = {}
        /\ HandOut(out, Target)
        /\ line' = [l \in Lines |-> IF l \in paid /\ HasLine(l)
                      THEN [line[l] EXCEPT !.fulfilled = old[l].fulfilled + added[l]]
                      ELSE line[l]]
        /\ stock' = [l \in Lines |-> IF l \in paid /\ ~Outright(l)
                      THEN stock[l] - added[l] ELSE stock[l]]
        /\ handed' = [l \in Lines |-> IF l \in paid THEN handed[l] + added[l] ELSE handed[l]]
        /\ rq' = [rq EXCEPT !.status = Saved(@, req[w].status,
                    IF AllFulfilled(paid, line') THEN "FULFILLED" ELSE "PARTIALLY_FULFILLED")]
        /\ overtaken' = (\/ overtaken \/ rq.status # req[w].status
                         \/ \E l \in paid : HasLine(l) /\ line[l].fulfilled # old[l].fulfilled)

FulfillCommit(w) ==
    /\ Serving(w, "Fulfill") /\ Exists
    /\ \E paid \in (SUBSET Lines) \ {{}} :
       \E items \in [paid -> SUBSET Items], ask \in [paid -> 0 .. MaxAsk] :
          FulfillLines(w, req[w].loaded, paid, items, ask)
    /\ Ends(w)

RequisitionStep(w) ==
    \/ InsertRequisition(w) \/ InsertLines(w) \/ LinkForm(w) \/ CreateAnswers(w)
    \/ CreateFails(w) \/ CleanUp(w)
    \/ \E l \in Lines, t \in Mappings : MapLineRead(w, l, t)
    \/ \E next \in {"APPROVED", "REJECTED_INVALID"} : VerifyRead(w, next)
    \/ MapLineSave(w) \/ VerifySave(w) \/ FulfillRead(w) \/ FulfillCommit(w)

Creating(w) == req[w].op \in {"CreateRequisition", "CleanUp"}

(* Bound: of the assignments' handlers, those that draft one for the same  *)
(* items and those that bring an item back.                                *)
Elsewhere(w) ==
    \/ \E i \in Items, e \in Targets : CreateRead(w, i, e)
    \/ \E a \in Assignments : CreateCommit(w, a) \/ SignedReturnRead(w, a)
    \/ SignedReturnCommit(w)

RNext == \/ Adjust
         \/ \E w \in Workers : \/ RequisitionStep(w)
                               \/ Elsewhere(w) /\ UNCHANGED qvars
                               \/ ~Creating(w) /\ Fail(w) /\ UNCHANGED <<item, asg, qvars>>

RSpec == RInit /\ [][RNext]_rvars

(* Type invariant: also, no balance goes below zero. *)
RequisitionTypeOK ==
    /\ item \in [Items -> ItemRow]
    /\ asg \in [Assignments -> AssignmentRow \cup {Unwritten}]
    /\ req \in [Workers -> {Idle} \cup AssignmentRequest \cup RequisitionRequest]
    /\ rq \in [status: RequisitionStatus \cup {"NONE", "GONE"}, form: BOOLEAN]
    /\ line \in [Lines -> LineRow \cup {NoLine}]
    /\ stock \in [Lines -> 0 .. MaxStock]
    /\ handed \in [Lines -> Nat]
    /\ overtaken \in BOOLEAN

(* 'exceeds approved quantity', 'already fully fulfilled' (fulfill): what  *)
(* a line says was fulfilled is within what was approved and was really    *)
(* handed out, whichever old copy of the line it was computed from.        *)
RecordedIsHandedOut ==
    \A l \in Lines : HasLine(l) => /\ line[l].fulfilled <= line[l].approved
                                   /\ line[l].fulfilled <= handed[l]

(* As long as no request wrote over another's quantities or status: what   *)
(* is recorded is all that was handed out, nothing was before the approval *)
(* or after a rejection, and FULFILLED means that every line got what was  *)
(* approved, through remapping, adjustment and goes in any order.          *)
Accounted ==
    overtaken \/ \A l \in Lines : HasLine(l) =>
        /\ handed[l] = line[l].fulfilled
        /\ rq.status \in {"SUBMITTED", "REJECTED_INVALID"} => handed[l] = 0
        /\ rq.status = "FULFILLED" => handed[l] = line[l].approved

(* create's catch block: once the request that makes a requisition has     *)
(* answered, the requisition is there with all its lines and its form, or  *)
(* nothing of it is, whatever others did to it in the meantime.            *)
WholeOrGone ==
    (\A w \in Workers : ~Creating(w)) =>
        \/ Exists /\ rq.form /\ \A l \in Lines : HasLine(l)
        \/ ~Exists /\ ~rq.form /\ \A l \in Lines : ~HasLine(l)
=============================================================================
