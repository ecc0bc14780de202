----------------------------- MODULE Transfers -----------------------------
(***************************************************************************)
(* transfer.controller.ts: asset items move from an office (or the head-   *)
(* office store) to another one by way of the store.  Every handler loads  *)
(* the transfer and checks the transition outside its transaction; the     *)
(* transaction then saves the new status over whatever the document holds  *)
(* by that time.                                                           *)
(***************************************************************************)
EXTENDS AssetItems

CONSTANTS Transfers,      \* bound: the transfer ids that get used
          LineSets        \* bound: the item sets transfers are made of

ASSUME TransferConstants == LineSets \subseteq (SUBSET Items) \ {{}}

VARIABLE trf   \* trf[t]: the Transfer document t, or NoTransfer

TransferStatus == {"REQUESTED", "APPROVED", "DISPATCHED_TO_STORE", "RECEIVED_AT_STORE",
                   "DISPATCHED_TO_DEST", "RECEIVED_AT_DEST", "REJECTED", "CANCELLED"}

StatusFlow ==
    [s \in TransferStatus |->
        CASE s = "REQUESTED" -> {"APPROVED", "REJECTED", "CANCELLED"}
          [] s = "APPROVED" -> {"DISPATCHED_TO_STORE", "REJECTED", "CANCELLED"}
          [] s = "DISPATCHED_TO_STORE" -> {"RECEIVED_AT_STORE", "CANCELLED"}
          [] s = "RECEIVED_AT_STORE" -> {"DISPATCHED_TO_DEST", "CANCELLED"}
          [] s = "DISPATCHED_TO_DEST" -> {"RECEIVED_AT_DEST", "CANCELLED"}
          [] OTHER -> {}]

(* Items are between two holders in these; undoing one rolls them back. *)
OnTheWay == {"DISPATCHED_TO_STORE", "RECEIVED_AT_STORE", "DISPATCHED_TO_DEST"}

NoTransfer == [status |-> "NONE"]

(* stages: the statuses whose timestamp field (approved_at, ...) is set *)
TransferRow == [status: TransferStatus, from: Places, to: Places,
                lines: SUBSET Items, stages: SUBSET TransferStatus]

TransferRequest ==
    [op: {"CreateTransfer"}, from: Places, to: Places, lines: SUBSET Items]
    \cup [op: {"SaveTransfer"}, trf: Transfers, next: TransferStatus, rollback: BOOLEAN]

Exists(t) == trf[t] # NoTransfer

TransfersInit == trf = [t \in Transfers |-> NoTransfer]

-----------------------------------------------------------------------------
(* POST /transfers.  A transfer out of the store starts as received there; *)
(* the items are untouched, and may be on other transfers' lines as well.  *)
SourceHolder(from) == IF from = Store THEN InStore ELSE InOffice(from)

CreateTransferRead(w, from, to, lines) ==
    /\ from # to
    /\ \A i \in lines : /\ item[i].active
                        /\ item[i].holder = SourceHolder(from)
                        /\ item[i].assignment = "Unassigned"
    /\ Starts(w, [op |-> "CreateTransfer", from |-> from, to |-> to, lines |-> lines])
    /\ UNCHANGED <<item, trf>>

CreateTransferCommit(w, t) ==
    /\ Serving(w, "CreateTransfer")
    /\ ~Exists(t)
    /\ LET atStore == req[w].from = Store
       IN trf' = [trf EXCEPT ![t] =
             [status |-> IF atStore THEN "RECEIVED_AT_STORE" ELSE "REQUESTED",
              from |-> req[w].from, to |-> req[w].to, lines |-> req[w].lines,
              stages |-> IF atStore THEN {"REQUESTED", "APPROVED", "RECEIVED_AT_STORE"}
                                    ELSE {"REQUESTED"}]]
    /\ Ends(w)
    /\ UNCHANGED item

(* Mutant: any status may follow. *)
AssertNothing(w, t, next) ==
    /\ Exists(t)
    /\ Starts(w, [op |-> "SaveTransfer", trf |-> t, next |-> next,
                  rollback |-> next \in {"REJECTED", "CANCELLED"} /\ trf[t].status \in OnTheWay])
    /\ UNCHANGED <<item, trf>>

(* Load the transfer and assertTransition(transfer, next). *)
AssertTransition(w, t, next) ==
    /\ Exists(t)
    /\ next \in StatusFlow[trf[t].status]
    /\ Starts(w, [op |-> "SaveTransfer", trf |-> t, next |-> next,
                  rollback |-> next \in {"REJECTED", "CANCELLED"} /\ trf[t].status \in OnTheWay])
    /\ UNCHANGED <<item, trf>>

(* transfer.save() in the transaction: the status and its timestamp are    *)
(* written whatever the document's status is now.                          *)
SaveTransfer(w, next) ==
    /\ Serving(w, "SaveTransfer") /\ req[w].next = next
    /\ trf' = [trf EXCEPT ![req[w].trf].status = next,
                          ![req[w].trf].stages = @ \cup {next}]
    /\ Ends(w)

(* AssetItem.updateMany({_id: {$in: lines}, ...}, change) *)
UpdateItems(ids, holder, assignment, status) ==
    item' = [i \in Items |->
                IF i \in ids THEN [item[i] EXCEPT !.holder = holder,
                                                  !.assignment = assignment,
                                                  !.status = status]
                             ELSE item[i]]

Lines(w) == trf[req[w].trf].lines
From(w) == trf[req[w].trf].from
To(w) == trf[req[w].trf].to

(* POST /transfers/:id/approve, once the approval matrix lets it through *)
ApproveRead(w, t) == AssertTransition(w, t, "APPROVED")
ApproveCommit(w) == SaveTransfer(w, "APPROVED") /\ UNCHANGED item

(* .../dispatch-to-store marks the lines still held by the source office *)
DispatchToStoreRead(w, t) == AssertTransition(w, t, "DISPATCHED_TO_STORE")
DispatchToStoreCommit(w) ==
    /\ SaveTransfer(w, "DISPATCHED_TO_STORE")
    /\ UpdateItems({i \in Lines(w) : item[i].holder = InOffice(From(w))},
                   InOffice(From(w)), "InTransit", "Transferred")

(* .../receive-at-store takes the lines from wherever they are *)
ReceiveAtStoreRead(w, t) == AssertTransition(w, t, "RECEIVED_AT_STORE")
ReceiveAtStoreCommit(w) ==
    /\ SaveTransfer(w, "RECEIVED_AT_STORE")
    /\ UpdateItems(Lines(w), InStore, "InTransit", "Transferred")

(* .../dispatch-to-dest *)
DispatchToDestRead(w, t) == AssertTransition(w, t, "DISPATCHED_TO_DEST")
DispatchToDestCommit(w) == SaveTransfer(w, "DISPATCHED_TO_DEST") /\ UNCHANGED item

(* .../receive-at-dest always writes an OFFICE holder *)
ReceiveAtDestRead(w, t) ==
    /\ AssertTransition(w, t, "RECEIVED_AT_DEST")
    /\ \A i \in trf[t].lines : item[i].assignment # "Assigned"
ReceiveAtDestCommit(w) ==
    /\ SaveTransfer(w, "RECEIVED_AT_DEST")
    /\ UpdateItems(Lines(w), InOffice(To(w)), "Unassigned", "Transferred")

(* Mutants: the items are left where they are; the two statuses swapped. *)
UndoStatusOnly(w, next) == SaveTransfer(w, next) /\ UNCHANGED item
UndoSwapped(w, next) ==
    /\ SaveTransfer(w, next)
    /\ UpdateItems(IF req[w].rollback THEN Lines(w) ELSE {},
                   SourceHolder(From(w)), "Available", "Unassigned")

(* .../reject and .../cancel put the lines back at the source, available,  *)
(* when the transfer was on the way as it was read                         *)
Undo(w, next) ==
    /\ SaveTransfer(w, next)
    /\ UpdateItems(IF req[w].rollback THEN Lines(w) ELSE {},
                   SourceHolder(From(w)), "Unassigned", "Available")

RejectRead(w, t) == AssertTransition(w, t, "REJECTED")
RejectCommit(w) == Undo(w, "REJECTED")

CancelRead(w, t) == AssertTransition(w, t, "CANCELLED")
CancelCommit(w) == Undo(w, "CANCELLED")

TransferStep(w) ==
    \/ \E from, to \in Places, lines \in LineSets : CreateTransferRead(w, from, to, lines)
    \/ \E t \in Transfers :
          \/ CreateTransferCommit(w, t) \/ ApproveRead(w, t)
          \/ DispatchToStoreRead(w, t) \/ ReceiveAtStoreRead(w, t)
          \/ DispatchToDestRead(w, t) \/ ReceiveAtDestRead(w, t)
          \/ RejectRead(w, t) \/ CancelRead(w, t)
    \/ ApproveCommit(w) \/ DispatchToStoreCommit(w) \/ ReceiveAtStoreCommit(w)
    \/ DispatchToDestCommit(w) \/ ReceiveAtDestCommit(w)
    \/ RejectCommit(w) \/ CancelCommit(w)

-----------------------------------------------------------------------------
(* The transfer component with the item edits that disturb it. *)
tvars == <<item, req, trf>>

TInit == ItemsInit /\ TransfersInit

TNext == \E w \in Workers : \/ TransferStep(w)
                            \/ ItemStep(w) /\ UNCHANGED trf
                            \/ Fail(w) /\ UNCHANGED <<item, trf>>

TSpec == TInit /\ [][TNext]_tvars

(* Type invariant of the transfer component. *)
TransferTypeOK ==
    /\ item \in [Items -> ItemRow]
    /\ req \in [Workers -> {Idle} \cup ItemRequest \cup TransferRequest]
    /\ trf \in [Transfers -> TransferRow \cup {NoTransfer}]

(* However requests overlap, no leg is skipped: an item is received at its *)
(* destination only by a transfer that was approved, passed through the    *)
(* store and was dispatched from it.                                       *)
NoLegSkipped ==
    \A t \in Transfers : Exists(t) =>
        /\ "DISPATCHED_TO_STORE" \in trf[t].stages => "APPROVED" \in trf[t].stages
        /\ "DISPATCHED_TO_DEST" \in trf[t].stages
              => {"APPROVED", "RECEIVED_AT_STORE"} \subseteq trf[t].stages
        /\ "RECEIVED_AT_DEST" \in trf[t].stages => "DISPATCHED_TO_DEST" \in trf[t].stages

(* An item in transit is on the lines of a transfer that is on the way, so *)
(* somebody can still receive it or roll it back.                          *)
TransitIsCovered ==
    \A i \in Items : item[i].assignment = "InTransit" =>
        \E t \in Transfers : /\ Exists(t) /\ i \in trf[t].lines
                             /\ trf[t].status \in OnTheWay
=============================================================================
