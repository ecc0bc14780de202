-------------------------- MODULE Transfers_proofs --------------------------
(***************************************************************************)
(* Proofs about the transfers, for any number of requests in progress,     *)
(* items, offices and transfers.  Of the proofs about assignments they use *)
(* the lemmas on the handlers of the asset item.                           *)
(***************************************************************************)
EXTENDS Transfers, Assignments_proofs

TransferRequests == {Idle} \cup ItemRequest \cup TransferRequest

-----------------------------------------------------------------------------
(* What a request in progress is known to carry, by its operation. *)
LEMMA TransferRequestFields ==
    ASSUME NEW r \in TransferRequests
    PROVE  /\ r.op = "UpdateItem" =>
                /\ r.item \in Items /\ r.functional \in FunctionalStatus
                /\ r.status \in ItemStatus \cup {Keep}
                /\ r.assignment \in AssignmentStatus \cup {Keep}
                /\ r.active \in BOOLEAN \cup {Keep}
           /\ r.op = "RemoveItem" => r.item \in Items /\ r.loaded \in ItemRow
           /\ r.op = "CreateTransfer" =>
                r.from \in Places /\ r.to \in Places /\ r.lines \subseteq Items
           /\ r.op = "SaveTransfer" =>
                r.trf \in Transfers /\ r.next \in TransferStatus /\ r.rollback \in BOOLEAN
<1>1. CASE r = Idle
  BY <1>1 DEF Idle
<1>2. CASE r \in [op: {"UpdateItem"}, item: Items, functional: FunctionalStatus,
                  status: ItemStatus \cup {Keep}, assignment: AssignmentStatus \cup {Keep},
                  active: BOOLEAN \cup {Keep}]
  BY <1>2
<1>3. CASE r \in [op: {"RemoveItem"}, item: Items, loaded: ItemRow]
  BY <1>3
<1>4. CASE r \in [op: {"CreateTransfer"}, from: Places, to: Places, lines: SUBSET Items]
  BY <1>4
<1>5. CASE r \in [op: {"SaveTransfer"}, trf: Transfers, next: TransferStatus,
                  rollback: BOOLEAN]
  BY <1>5
<1> QED
  BY <1>1, <1>2, <1>3, <1>4, <1>5 DEF TransferRequests, ItemRequest, TransferRequest

LEMMA TransferRequestsKnown == ItemRequestsIn(TransferRequests)
  BY TransferRequestFields, ItemConstants DEF ItemRequestsIn, TransferRequests, ItemRequest

-----------------------------------------------------------------------------
(* The inductive invariant.  NoLegSkipped says nothing of the requests in  *)
(* progress, which save their status over whatever the transfer has become: *)
(* what they checked has to be still true then, and it is because a stage  *)
(* once reached is never taken back.                                       *)

(* The stages a transfer has been through when a status is written. *)
Needs(s) == CASE s = "DISPATCHED_TO_STORE" -> {"APPROVED"}
              [] s = "RECEIVED_AT_STORE" -> {"APPROVED"}
              [] s = "DISPATCHED_TO_DEST" -> {"APPROVED", "RECEIVED_AT_STORE"}
              [] s = "RECEIVED_AT_DEST" ->
                    {"APPROVED", "RECEIVED_AT_STORE", "DISPATCHED_TO_DEST"}
              [] OTHER -> {}

StagesInOrder ==
    \A t \in Transfers : Exists(t) =>
        /\ trf[t].status \in trf[t].stages
        /\ \A s \in trf[t].stages : Needs(s) \subseteq trf[t].stages

(* The request of worker w saves a transfer that went through what its new *)
(* status needs.                                                           *)
SavesInOrder(w) ==
    Serving(w, "SaveTransfer") =>
        Exists(req[w].trf) /\ Needs(req[w].next) \subseteq trf[req[w].trf].stages

TransferInv == /\ TransferTypeOK /\ StagesInOrder
               /\ \A w \in Workers : SavesInOrder(w)

(* A transition adds at most the status it leaves to what is needed. *)
LEMMA NeedsOfNext ==
    ASSUME NEW s \in TransferStatus, NEW next \in StatusFlow[s]
    PROVE  next \in TransferStatus /\ Needs(next) \subseteq Needs(s) \cup {s}
  BY DEF TransferStatus, StatusFlow, Needs

(* A transfer that exists is a full row. *)
LEMMA ExistingRow ==
    ASSUME TransferTypeOK, NEW t \in Transfers
    PROVE  Exists(t) <=> trf[t] \in TransferRow
  BY DEF TransferTypeOK, Exists, NoTransfer, TransferRow, TransferStatus

-----------------------------------------------------------------------------
(* Requests that start or end leave what the others save alone, as long as *)
(* the transfers do not lose a stage.                                      *)
StagesKept ==
    \A t \in Transfers : Exists(t) => Exists(t)' /\ trf[t].stages \subseteq trf'[t].stages

LEMMA EndsKeepsOrder ==
    ASSUME TransferInv, NEW w \in Workers, Ends(w), StagesKept
    PROVE  \A v \in Workers : SavesInOrder(v)'
<1> SUFFICES ASSUME NEW v \in Workers, Serving(v, "SaveTransfer")'
             PROVE  (Exists(req[v].trf) /\ Needs(req[v].next) \subseteq trf[req[v].trf].stages)'
  BY DEF SavesInOrder
<1>1. req \in [Workers -> TransferRequests]
  BY DEF TransferInv, TransferTypeOK, TransferRequests
<1>2. v # w /\ req'[v] = req[v]
  BY <1>1 DEF Ends, Serving, Idle
<1>3. req[v].trf \in Transfers
  BY <1>1, <1>2, TransferRequestFields DEF Serving
<1>4. Exists(req[v].trf) /\ Needs(req[v].next) \subseteq trf[req[v].trf].stages
  BY <1>2 DEF TransferInv, SavesInOrder, Serving
<1> QED
  BY <1>2, <1>3, <1>4 DEF StagesKept, Exists

LEMMA StartsKeepsOrder ==
    ASSUME TransferInv, NEW w \in Workers, NEW r, Starts(w, r), UNCHANGED trf,
           r.op = "SaveTransfer" =>
               Exists(r.trf) /\ Needs(r.next) \subseteq trf[r.trf].stages
    PROVE  \A v \in Workers : SavesInOrder(v)'
<1>1. req \in [Workers -> TransferRequests]
  BY DEF TransferInv, TransferTypeOK, TransferRequests
<1>2. \A v \in Workers : req'[v] = IF v = w THEN r ELSE req[v]
  BY <1>1 DEF Starts
<1> QED
  BY <1>2 DEF TransferInv, SavesInOrder, Serving, Exists

-----------------------------------------------------------------------------
(* The effect of a step on the transfers: none, a new one, or one status   *)
(* saved by the request that was to save it.                               *)
NewRow(w, t) == /\ ~Exists(t)
                /\ \E row \in TransferRow :
                      /\ trf' = [trf EXCEPT ![t] = row]
                      /\ row.status \in row.stages
                      /\ \A s \in row.stages : Needs(s) \subseteq row.stages

LEMMA NewRowPreserves ==
    ASSUME TransferInv, NEW w \in Workers, NEW t \in Transfers, NewRow(w, t)
    PROVE  trf' \in [Transfers -> TransferRow \cup {NoTransfer}] /\ StagesKept /\ StagesInOrder'
<1> USE DEF TransferInv
<1>1. PICK row \in TransferRow :
            /\ trf' = [trf EXCEPT ![t] = row]
            /\ row.status \in row.stages
            /\ \A s \in row.stages : Needs(s) \subseteq row.stages
  BY DEF NewRow
<1>2. trf \in [Transfers -> TransferRow \cup {NoTransfer}] /\ ~Exists(t)
  BY DEF TransferTypeOK, NewRow
<1>3. \A u \in Transfers : trf'[u] = IF u = t THEN row ELSE trf[u]
  BY <1>1, <1>2
<1>4. trf' \in [Transfers -> TransferRow \cup {NoTransfer}]
  BY <1>1, <1>2
<1>5. StagesKept
  BY <1>2, <1>3 DEF StagesKept, Exists
<1>6. StagesInOrder'
  BY <1>1, <1>3 DEF StagesInOrder, Exists
<1> QED
  BY <1>4, <1>5, <1>6

LEMMA SavePreserves ==
    ASSUME TransferInv, NEW w \in Workers, NEW next \in TransferStatus, SaveTransfer(w, next)
    PROVE  trf' \in [Transfers -> TransferRow \cup {NoTransfer}] /\ StagesKept /\ StagesInOrder'
<1> USE DEF TransferInv
<1> DEFINE t == req[w].trf
           row == [trf[t] EXCEPT !.status = next, !.stages = @ \cup {next}]
<1>1. trf \in [Transfers -> TransferRow \cup {NoTransfer}] /\ req[w] \in TransferRequests
  BY DEF TransferTypeOK, TransferRequests
<1>2. /\ t \in Transfers /\ Exists(t)
      /\ Needs(next) \subseteq trf[t].stages
  BY <1>1, TransferRequestFields DEF SaveTransfer, SavesInOrder, Serving
<1>3. trf[t] \in TransferRow
  BY <1>2, ExistingRow
<1>4. row \in TransferRow /\ row.status = next /\ row.stages = trf[t].stages \cup {next}
  BY <1>3 DEF TransferRow
<1>5. trf' = [trf EXCEPT ![t] = row]
  BY <1>1, <1>2, <1>3 DEF SaveTransfer, TransferRow
<1>6. \A u \in Transfers : trf'[u] = IF u = t THEN row ELSE trf[u]
  BY <1>1, <1>5
<1>7. trf' \in [Transfers -> TransferRow \cup {NoTransfer}]
  BY <1>1, <1>4, <1>5
<1>8. row # NoTransfer
  BY <1>4 DEF NoTransfer, TransferStatus
<1>9. StagesKept
  BY <1>4, <1>6, <1>8 DEF StagesKept, Exists
<1>10. \A s \in row.stages : Needs(s) \subseteq row.stages
  BY <1>2, <1>4 DEF StagesInOrder
<1>11. StagesInOrder'
  BY <1>4, <1>6, <1>10 DEF StagesInOrder, Exists
<1> QED
  BY <1>7, <1>9, <1>11

-----------------------------------------------------------------------------
(* updateMany writes holders, assignments and statuses of their kinds. *)
LEMMA UpdateItemsTyped ==
    ASSUME item \in [Items -> ItemRow], NEW ids, NEW holder \in Holders,
           NEW assignment \in AssignmentStatus, NEW status \in ItemStatus,
           UpdateItems(ids, holder, assignment, status)
    PROVE  item' \in [Items -> ItemRow]
<1>1. \A i \in Items : [item[i] EXCEPT !.holder = holder, !.assignment = assignment,
                                       !.status = status] \in ItemRow
  BY DEF ItemRow
<1> QED
  BY <1>1 DEF UpdateItems

LEMMA HoldersKnown ==
    ASSUME NEW p \in Places
    PROVE  InOffice(p) \in Holders /\ InStore \in Holders /\ SourceHolder(p) \in Holders
  BY DEF Places, InOffice, InStore, SourceHolder, Holders

(* The commits: a status is saved and items of its lines are moved. *)
CommitOf(w, next) ==
    \/ next = "APPROVED" /\ ApproveCommit(w)
    \/ next = "DISPATCHED_TO_STORE" /\ DispatchToStoreCommit(w)
    \/ next = "RECEIVED_AT_STORE" /\ ReceiveAtStoreCommit(w)
    \/ next = "DISPATCHED_TO_DEST" /\ DispatchToDestCommit(w)
    \/ next = "RECEIVED_AT_DEST" /\ ReceiveAtDestCommit(w)
    \/ next = "REJECTED" /\ RejectCommit(w)
    \/ next = "CANCELLED" /\ CancelCommit(w)

LEMMA CommitTyped ==
    ASSUME TransferInv, NEW w \in Workers, NEW next, CommitOf(w, next)
    PROVE  next \in TransferStatus /\ SaveTransfer(w, next) /\ item' \in [Items -> ItemRow]
<1>1. next \in TransferStatus /\ SaveTransfer(w, next)
  BY DEF CommitOf, TransferStatus, ApproveCommit, DispatchToStoreCommit, ReceiveAtStoreCommit,
         DispatchToDestCommit, ReceiveAtDestCommit, RejectCommit, CancelCommit, Undo
<1>2. item \in [Items -> ItemRow] /\ req[w] \in TransferRequests
  BY DEF TransferInv, TransferTypeOK, TransferRequests
<1>3. req[w].trf \in Transfers /\ trf[req[w].trf] \in TransferRow
  BY <1>1, <1>2, TransferRequestFields, ExistingRow DEF SaveTransfer, TransferInv, SavesInOrder, Serving
<1>4. From(w) \in Places /\ To(w) \in Places
  BY <1>3 DEF From, To, TransferRow
<1>5. /\ InOffice(From(w)) \in Holders /\ InOffice(To(w)) \in Holders
      /\ InStore \in Holders /\ SourceHolder(From(w)) \in Holders
  BY <1>4, HoldersKnown
<1>6. /\ "InTransit" \in AssignmentStatus /\ "Unassigned" \in AssignmentStatus
      /\ "Transferred" \in ItemStatus /\ "Available" \in ItemStatus
  BY DEF AssignmentStatus, ItemStatus
<1>7. CASE ApproveCommit(w) \/ DispatchToDestCommit(w)
  BY <1>1, <1>2, <1>7 DEF ApproveCommit, DispatchToDestCommit
<1>8. CASE DispatchToStoreCommit(w)
  BY <1>1, <1>2, <1>5, <1>6, <1>8, UpdateItemsTyped DEF DispatchToStoreCommit
<1>9. CASE ReceiveAtStoreCommit(w)
  BY <1>1, <1>2, <1>5, <1>6, <1>9, UpdateItemsTyped DEF ReceiveAtStoreCommit
<1>10. CASE ReceiveAtDestCommit(w)
  BY <1>1, <1>2, <1>5, <1>6, <1>10, UpdateItemsTyped DEF ReceiveAtDestCommit
<1>11. CASE RejectCommit(w) \/ CancelCommit(w)
  BY <1>1, <1>2, <1>5, <1>6, <1>11, UpdateItemsTyped DEF RejectCommit, CancelCommit, Undo
<1> QED
  BY <1>1, <1>7, <1>8, <1>9, <1>10, <1>11 DEF CommitOf

(* The checks: a request starts, and what it checked needs no more than    *)
(* the transfer has been through.                                          *)
LEMMA AssertTransitionPreserves ==
    ASSUME TransferInv, NEW w \in Workers, NEW t \in Transfers, NEW next,
           AssertTransition(w, t, next)
    PROVE  TransferInv'
<1> DEFINE back == next \in {"REJECTED", "CANCELLED"} /\ trf[t].status \in OnTheWay
           r == [op |-> "SaveTransfer", trf |-> t, next |-> next, rollback |-> back]
<1>1. Exists(t) /\ trf[t] \in TransferRow /\ next \in StatusFlow[trf[t].status]
  BY ExistingRow DEF AssertTransition, TransferInv
<1>2. /\ next \in TransferStatus
      /\ Needs(next) \subseteq Needs(trf[t].status) \cup {trf[t].status}
  BY <1>1, NeedsOfNext DEF TransferRow
<1>3. Needs(next) \subseteq trf[t].stages
  BY <1>1, <1>2 DEF TransferInv, StagesInOrder
<1>4. r \in TransferRequests
  BY <1>2 DEF TransferRequests, TransferRequest
<1>5. Starts(w, r) /\ UNCHANGED <<item, trf>>
  BY DEF AssertTransition
<1>6. req' \in [Workers -> TransferRequests]
  BY <1>4, <1>5, StartsTyped DEF TransferInv, TransferTypeOK, TransferRequests
<1>7. \A v \in Workers : SavesInOrder(v)'
  BY <1>1, <1>3, <1>5, StartsKeepsOrder
<1> QED
  BY <1>5, <1>6, <1>7 DEF TransferInv, TransferTypeOK, TransferRequests, StagesInOrder, Exists

LEMMA CommitPreserves ==
    ASSUME TransferInv, NEW w \in Workers, NEW next, CommitOf(w, next)
    PROVE  TransferInv'
<1>1. next \in TransferStatus /\ SaveTransfer(w, next) /\ item' \in [Items -> ItemRow]
  BY CommitTyped
<1>2. trf' \in [Transfers -> TransferRow \cup {NoTransfer}] /\ StagesKept /\ StagesInOrder'
  BY <1>1, SavePreserves
<1>3. req' \in [Workers -> TransferRequests]
  BY <1>1, TransferRequestsKnown, EndsTyped DEF SaveTransfer, TransferInv, TransferTypeOK, TransferRequests
<1>4. \A v \in Workers : SavesInOrder(v)'
  BY <1>1, <1>2, EndsKeepsOrder DEF SaveTransfer
<1> QED
  BY <1>1, <1>2, <1>3, <1>4 DEF TransferInv, TransferTypeOK, TransferRequests

LEMMA CreatePreserves ==
    ASSUME TransferInv, NEW w \in Workers,
           \/ \E from, to \in Places, lines \in LineSets : CreateTransferRead(w, from, to, lines)
           \/ \E t \in Transfers : CreateTransferCommit(w, t)
    PROVE  TransferInv'
<1>t. req \in [Workers -> TransferRequests] /\ req[w] \in TransferRequests
  BY DEF TransferInv, TransferTypeOK, TransferRequests
<1>1. ASSUME NEW from \in Places, NEW to \in Places, NEW lines \in LineSets,
             CreateTransferRead(w, from, to, lines)
      PROVE  TransferInv'
  <2> DEFINE r == [op |-> "CreateTransfer", from |-> from, to |-> to, lines |-> lines]
  <2>1. r \in TransferRequests
    BY TransferConstants DEF TransferRequests, TransferRequest
  <2>2. Starts(w, r) /\ UNCHANGED <<item, trf>>
    BY <1>1 DEF CreateTransferRead
  <2>3. req' \in [Workers -> TransferRequests]
    BY <1>t, <2>1, <2>2, StartsTyped
  <2>4. \A v \in Workers : SavesInOrder(v)'
    BY <2>2, StartsKeepsOrder
  <2> QED
    BY <2>2, <2>3, <2>4 DEF TransferInv, TransferTypeOK, TransferRequests, StagesInOrder, Exists
<1>2. ASSUME NEW t \in Transfers, CreateTransferCommit(w, t)
      PROVE  TransferInv'
  <2> DEFINE atStore == req[w].from = Store
             row == [status |-> IF atStore THEN "RECEIVED_AT_STORE" ELSE "REQUESTED",
                     from |-> req[w].from, to |-> req[w].to, lines |-> req[w].lines,
                     stages |-> IF atStore THEN {"REQUESTED", "APPROVED", "RECEIVED_AT_STORE"}
                                           ELSE {"REQUESTED"}]
  <2>1. req[w].from \in Places /\ req[w].to \in Places /\ req[w].lines \subseteq Items
    BY <1>2, <1>t, TransferRequestFields DEF CreateTransferCommit, Serving
  <2>2. row \in TransferRow
    BY <2>1 DEF TransferRow, TransferStatus
  <2>3. row.status \in row.stages /\ \A s \in row.stages : Needs(s) \subseteq row.stages
    BY DEF Needs
  <2>4. NewRow(w, t)
    BY <1>2, <2>2, <2>3 DEF NewRow, CreateTransferCommit
  <2>5. trf' \in [Transfers -> TransferRow \cup {NoTransfer}] /\ StagesKept /\ StagesInOrder'
    BY <2>4, NewRowPreserves
  <2>6. Ends(w) /\ UNCHANGED item
    BY <1>2 DEF CreateTransferCommit
  <2>7. req' \in [Workers -> TransferRequests] /\ \A v \in Workers : SavesInOrder(v)'
    BY <1>t, <2>5, <2>6, TransferRequestsKnown, EndsTyped, EndsKeepsOrder
  <2> QED
    BY <2>5, <2>6, <2>7 DEF TransferInv, TransferTypeOK, TransferRequests
<1> QED
  BY <1>1, <1>2

(* The requests of the asset item save no transfer. *)
LEMMA ItemStepPreserves ==
    ASSUME TransferInv, NEW w \in Workers,
           \/ ItemStep(w) /\ UNCHANGED trf
           \/ Fail(w) /\ UNCHANGED <<item, trf>>
    PROVE  TransferInv'
<1>t. item \in [Items -> ItemRow] /\ req \in [Workers -> TransferRequests]
  BY DEF TransferInv, TransferTypeOK, TransferRequests
<1>s. UNCHANGED trf /\ StagesKept
  BY DEF StagesKept, Exists
<1>1. item' \in [Items -> ItemRow] /\ req' \in [Workers -> TransferRequests]
  BY <1>t, TransferRequestsKnown, ItemHandlersTyped, EndsTyped DEF Fail
<1>2. ASSUME NEW i \in Items, NEW s, NEW f, NEW a, NEW act, UpdateItemRead(w, i, s, f, a, act)
      PROVE  \A v \in Workers : SavesInOrder(v)'
  BY <1>2, <1>s, StartsKeepsOrder DEF UpdateItemRead
<1>3. ASSUME NEW i \in Items, RemoveItemRead(w, i)
      PROVE  \A v \in Workers : SavesInOrder(v)'
  BY <1>3, <1>s, StartsKeepsOrder DEF RemoveItemRead
<1>4. ASSUME UpdateItemWrite(w) \/ RemoveItemWrite(w) \/ Fail(w)
      PROVE  \A v \in Workers : SavesInOrder(v)'
  BY <1>4, <1>s, EndsKeepsOrder DEF UpdateItemWrite, RemoveItemWrite, Fail
<1>5. \A v \in Workers : SavesInOrder(v)'
  BY <1>2, <1>3, <1>4, ItemConstants DEF ItemStep
<1> QED
  BY <1>s, <1>1, <1>5 DEF TransferInv, TransferTypeOK, TransferRequests, StagesInOrder, Exists

LEMMA StepPreserves ==
    ASSUME TransferInv, NEW w \in Workers, TransferStep(w)
    PROVE  TransferInv'
<1>1. ASSUME NEW t \in Transfers,
             \/ ApproveRead(w, t) \/ DispatchToStoreRead(w, t) \/ ReceiveAtStoreRead(w, t)
             \/ DispatchToDestRead(w, t) \/ ReceiveAtDestRead(w, t)
             \/ RejectRead(w, t) \/ CancelRead(w, t)
      PROVE  TransferInv'
  <2>1. \E next \in TransferStatus : AssertTransition(w, t, next)
    BY <1>1 DEF ApproveRead, DispatchToStoreRead, ReceiveAtStoreRead, DispatchToDestRead,
                ReceiveAtDestRead, RejectRead, CancelRead, TransferStatus
  <2> QED
    BY <2>1, AssertTransitionPreserves
<1>2. CASE \/ ApproveCommit(w) \/ DispatchToStoreCommit(w) \/ ReceiveAtStoreCommit(w)
           \/ DispatchToDestCommit(w) \/ ReceiveAtDestCommit(w)
           \/ RejectCommit(w) \/ CancelCommit(w)
  <2>1. \E next \in TransferStatus : CommitOf(w, next)
    BY <1>2 DEF CommitOf, TransferStatus
  <2> QED
    BY <2>1, CommitPreserves
<1> QED
  BY <1>1, <1>2, CreatePreserves DEF TransferStep

LEMMA InitHolds == TInit => TransferInv
<1> SUFFICES ASSUME TInit PROVE TransferInv
  OBVIOUS
<1>1. \A x \in Creatable : /\ NewItem(InStore, x) \in ItemRow
                           /\ \A o \in Offices : NewItem(InOffice(o), x) \in ItemRow
  BY ItemConstants DEF NewItem, Creatable, ItemRow, InStore, InOffice, Holders, Places
<1>2. item \in [Items -> ItemRow]
  BY <1>1 DEF TInit, ItemsInit
<1>3. req \in [Workers -> TransferRequests] /\ \A w \in Workers : req[w] = Idle
  BY DEF TInit, ItemsInit, TransferRequests
<1>4. \A t \in Transfers : trf[t] = NoTransfer
  BY DEF TInit, TransfersInit
<1>5. \A w \in Workers : SavesInOrder(w)
  BY <1>3 DEF SavesInOrder, Serving, Idle
<1> QED
  BY <1>2, <1>3, <1>4, <1>5
     DEF TransferInv, TransferTypeOK, TransferRequests, StagesInOrder, Exists, TInit, TransfersInit

(* The inductive invariant of the transfers. *)
THEOREM TransferInvariant == TSpec => []TransferInv
<1>1. TransferInv /\ TNext => TransferInv'
  BY StepPreserves, ItemStepPreserves DEF TNext
<1>2. TransferInv /\ UNCHANGED tvars => TransferInv'
  BY DEF tvars, TransferInv, TransferTypeOK, StagesInOrder, SavesInOrder, Serving, Exists
<1> QED
  BY InitHolds, <1>1, <1>2, PTL DEF TSpec

(* Items, requests and transfers keep their shape under every interleaving *)
(* of transfer requests and item edits.                                    *)
THEOREM TransferTypesHold == TSpec => []TransferTypeOK
<1>1. TransferInv => TransferTypeOK
  BY DEF TransferInv
<1> QED
  BY <1>1, TransferInvariant, PTL

(* assertTransition is made on a copy loaded before the transaction, and   *)
(* the save overwrites whatever status came between: still no transfer     *)
(* reaches its destination past the approval, the store or the dispatch.   *)
THEOREM LegsInOrder == TSpec => []NoLegSkipped
<1>1. TransferInv => NoLegSkipped
  BY DEF TransferInv, StagesInOrder, NoLegSkipped, Needs
<1> QED
  BY <1>1, TransferInvariant, PTL

-----------------------------------------------------------------------------
(* The items in transit.  A rollback is decided on the status the transfer *)
(* had when it was read, and a line is marked by whatever transfer has it: *)
(* what makes the two agree is that no two requests are saving the same    *)
(* transfer.  Requests about different transfers may overlap, also when    *)
(* these have lines in common, and so may item edits.                      *)
OneSavePerTransfer ==
    \A v, w \in Workers : /\ Serving(v, "SaveTransfer") /\ Serving(w, "SaveTransfer")
                          /\ req[v].trf = req[w].trf
                          => v = w

(* What the request of w checked and decided is still so. *)
StillMatches(w) ==
    Serving(w, "SaveTransfer") =>
        /\ req[w].next \in StatusFlow[trf[req[w].trf].status]
        /\ req[w].rollback <=> /\ req[w].next \in {"REJECTED", "CANCELLED"}
                               /\ trf[req[w].trf].status \in OnTheWay

(* No edit says an item is in transit, and none is entered as such. *)
NoTransitEdits == /\ "InTransit" \notin AssignmentEdits
                  /\ \A x \in NewStates : x.assignment # "InTransit"

(* No edit of an item in progress puts it in transit. *)
EditsElsewhere(w) == Serving(w, "UpdateItem") => req[w].assignment # "InTransit"

TransitInv == /\ TransitIsCovered
              /\ \A w \in Workers : StillMatches(w)
              /\ \A w \in Workers : EditsElsewhere(w)

(* i is in transit on the lines of t *)
Carries(t, i) == Exists(t) /\ i \in trf[t].lines /\ trf[t].status \in OnTheWay

LEMMA CoveredByCarrier ==
    TransitIsCovered <=> \A i \in Items : item[i].assignment = "InTransit" =>
                                              \E t \in Transfers : Carries(t, i)
  BY DEF TransitIsCovered, Carries

(* A request that starts or ends leaves the others as they match. *)
LEMMA MatchesAfterStart ==
    ASSUME TransferInv, TransitInv, NEW w \in Workers, NEW r, Starts(w, r), UNCHANGED trf,
           r.op = "SaveTransfer" =>
               /\ r.next \in StatusFlow[trf[r.trf].status]
               /\ r.rollback <=> /\ r.next \in {"REJECTED", "CANCELLED"}
                                 /\ trf[r.trf].status \in OnTheWay
    PROVE  \A v \in Workers : StillMatches(v)'
<1>1. req \in [Workers -> TransferRequests]
  BY DEF TransferInv, TransferTypeOK, TransferRequests
<1>2. \A v \in Workers : req'[v] = IF v = w THEN r ELSE req[v]
  BY <1>1 DEF Starts
<1> QED
  BY <1>2 DEF TransitInv, StillMatches, Serving

LEMMA MatchesAfterEnd ==
    ASSUME TransferInv, TransitInv, NEW w \in Workers, Ends(w),
           \A v \in Workers \ {w} : Serving(v, "SaveTransfer") =>
                                        trf'[req[v].trf] = trf[req[v].trf]
    PROVE  \A v \in Workers : StillMatches(v)'
<1> SUFFICES ASSUME NEW v \in Workers, Serving(v, "SaveTransfer")'
             PROVE  StillMatches(v)'
  BY DEF StillMatches
<1>1. req \in [Workers -> TransferRequests]
  BY DEF TransferInv, TransferTypeOK, TransferRequests
<1>2. v # w /\ req'[v] = req[v]
  BY <1>1 DEF Ends, Serving, Idle
<1> QED
  BY <1>2 DEF TransitInv, StillMatches, Serving

-----------------------------------------------------------------------------
(* The steps that write no transfer and put no item in transit. *)
LEMMA CoveredWhileKept ==
    ASSUME TransitIsCovered,
           \A i \in Items : item'[i].assignment = "InTransit" => item[i].assignment = "InTransit",
           \A t \in Transfers : Exists(t) => trf'[t] = trf[t]
    PROVE  TransitIsCovered'
<1>1. ASSUME NEW i \in Items, item'[i].assignment = "InTransit"
      PROVE  \E t \in Transfers : Carries(t, i)'
  <2>1. PICK t \in Transfers : Carries(t, i)
    BY <1>1, CoveredByCarrier
  <2>2. Carries(t, i)'
    BY <2>1 DEF Carries, Exists
  <2> QED
    BY <2>2
<1> QED
  BY <1>1 DEF TransitIsCovered, Carries

LEMMA ItemStepKeepsTransit ==
    ASSUME NoTransitEdits, TransferInv, TransitInv, NEW w \in Workers,
           \/ ItemStep(w) /\ UNCHANGED trf
           \/ Fail(w) /\ UNCHANGED <<item, trf>>
    PROVE  TransitInv'
<1>t. /\ item \in [Items -> ItemRow] /\ req \in [Workers -> TransferRequests]
      /\ req[w] \in TransferRequests
  BY DEF TransferInv, TransferTypeOK, TransferRequests
<1>1. UNCHANGED trf
  OBVIOUS
<1>2. \A i \in Items : item'[i].assignment = "InTransit" => item[i].assignment = "InTransit"
  <2>1. CASE item' = item
    BY <2>1
  <2>2. CASE UpdateItemWrite(w)
    <3>1. req[w].item \in Items /\ req[w].assignment # "InTransit"
      BY <1>t, <2>2, TransferRequestFields DEF UpdateItemWrite, Serving, TransitInv, EditsElsewhere
    <3>2. \A x \in ItemRow :
             EditedRow(x, req[w]).assignment = "InTransit" => x.assignment = "InTransit"
      BY <3>1 DEF EditedRow, Edited, ItemRow
    <3> QED
      BY <1>t, <2>2, <3>1, <3>2 DEF UpdateItemWrite
  <2>3. CASE RemoveItemWrite(w)
    <3>1. req[w].item \in Items
      BY <1>t, <2>3, TransferRequestFields DEF RemoveItemWrite, Serving
    <3>2. \A x \in ItemRow :
             RetiredRow(x, req[w].loaded).assignment = "InTransit" => x.assignment = "InTransit"
      BY DEF RetiredRow, Saved, ItemRow
    <3> QED
      BY <1>t, <2>3, <3>1, <3>2 DEF RemoveItemWrite
  <2>4. ASSUME NEW i, NEW s, NEW f, NEW a, NEW act, UpdateItemRead(w, i, s, f, a, act)
        PROVE  item' = item
    BY <2>4 DEF UpdateItemRead
  <2>5. ASSUME NEW i, RemoveItemRead(w, i)
        PROVE  item' = item
    BY <2>5 DEF RemoveItemRead
  <2>6. item' = item \/ UpdateItemWrite(w) \/ RemoveItemWrite(w)
    BY <2>4, <2>5 DEF ItemStep
  <2> QED
    BY <2>1, <2>2, <2>3, <2>6
<1>3. TransitIsCovered'
  BY <1>1, <1>2, CoveredWhileKept DEF TransitInv
<1>4. \A v \in Workers : StillMatches(v)'
  <2>1. ASSUME NEW i \in Items, NEW s, NEW f, NEW a, NEW act, UpdateItemRead(w, i, s, f, a, act)
        PROVE  \A v \in Workers : StillMatches(v)'
    BY <1>1, <2>1, MatchesAfterStart DEF UpdateItemRead
  <2>2. ASSUME NEW i \in Items, RemoveItemRead(w, i)
        PROVE  \A v \in Workers : StillMatches(v)'
    BY <1>1, <2>2, MatchesAfterStart DEF RemoveItemRead
  <2>3. ASSUME UpdateItemWrite(w) \/ RemoveItemWrite(w) \/ Fail(w)
        PROVE  \A v \in Workers : StillMatches(v)'
    BY <1>1, <2>3, MatchesAfterEnd DEF UpdateItemWrite, RemoveItemWrite, Fail
  <2> QED
    BY <2>1, <2>2, <2>3, ItemConstants DEF ItemStep
<1>5. \A v \in Workers : EditsElsewhere(v)'
  <2>1. ASSUME NEW i \in Items, NEW s, NEW f, NEW a \in AssignmentEdits, NEW act,
               UpdateItemRead(w, i, s, f, a, act)
        PROVE  req'[w].assignment # "InTransit"
    BY <1>t, <2>1 DEF NoTransitEdits, UpdateItemRead, Starts
  <2>2. ASSUME NEW i, RemoveItemRead(w, i)
        PROVE  req'[w].op # "UpdateItem"
    BY <1>t, <2>2 DEF RemoveItemRead, Starts
  <2>3. ASSUME Ends(w)
        PROVE  req'[w].op # "UpdateItem"
    BY <1>t, <2>3 DEF Ends, Idle
  <2>4. EditsElsewhere(w)'
    BY <2>1, <2>2, <2>3 DEF ItemStep, UpdateItemWrite, RemoveItemWrite, Fail, EditsElsewhere, Serving
  <2>5. \A v \in Workers \ {w} : req'[v] = req[v]
    BY <1>t, ItemStepOfOneWorker
  <2> QED
    BY <2>4, <2>5 DEF TransitInv, EditsElsewhere, Serving
<1> QED
  BY <1>3, <1>4, <1>5 DEF TransitInv

-----------------------------------------------------------------------------
(* The steps of the transfers. *)
LEMMA TransferReadKeepsTransit ==
    ASSUME TransferInv, TransitInv, NEW w \in Workers,
           \/ \E from, to \in Places, lines \in LineSets : CreateTransferRead(w, from, to, lines)
           \/ \E t \in Transfers, next \in TransferStatus : AssertTransition(w, t, next)
    PROVE  TransitInv'
<1>1. UNCHANGED <<item, trf>>
  BY DEF CreateTransferRead, AssertTransition
<1>2. TransitIsCovered'
  BY <1>1 DEF TransitInv, TransitIsCovered, Exists
<1>3. \A v \in Workers : StillMatches(v)'
  <2>1. ASSUME NEW from, NEW to, NEW lines, CreateTransferRead(w, from, to, lines)
        PROVE  \A v \in Workers : StillMatches(v)'
    BY <1>1, <2>1, MatchesAfterStart DEF CreateTransferRead
  <2>2. ASSUME NEW t \in Transfers, NEW next, AssertTransition(w, t, next)
        PROVE  \A v \in Workers : StillMatches(v)'
    <3> DEFINE back == next \in {"REJECTED", "CANCELLED"} /\ trf[t].status \in OnTheWay
               r == [op |-> "SaveTransfer", trf |-> t, next |-> next, rollback |-> back]
    <3>1. Starts(w, r) /\ r.next \in StatusFlow[trf[r.trf].status]
      BY <2>2 DEF AssertTransition
    <3>2. r.rollback <=> /\ r.next \in {"REJECTED", "CANCELLED"}
                         /\ trf[r.trf].status \in OnTheWay
      OBVIOUS
    <3> QED
      BY <1>1, <3>1, <3>2, MatchesAfterStart
  <2> QED
    BY <2>1, <2>2
<1>4. \A v \in Workers : req'[v].op = "UpdateItem" => req'[v] = req[v]
  BY DEF CreateTransferRead, AssertTransition, Starts, TransferInv, TransferTypeOK
<1> QED
  BY <1>2, <1>3, <1>4 DEF TransitInv, EditsElsewhere, Serving

LEMMA CreateCommitKeepsTransit ==
    ASSUME TransferInv, TransitInv, NEW w \in Workers, NEW t \in Transfers,
           CreateTransferCommit(w, t)
    PROVE  TransitInv'
<1>t. /\ req \in [Workers -> TransferRequests]
      /\ trf \in [Transfers -> TransferRow \cup {NoTransfer}]
  BY DEF TransferInv, TransferTypeOK, TransferRequests
<1>1. /\ UNCHANGED item /\ Ends(w) /\ ~Exists(t)
      /\ \A u \in Transfers \ {t} : trf'[u] = trf[u]
  BY <1>t DEF CreateTransferCommit
<1>2. TransitIsCovered'
  BY <1>1, CoveredWhileKept DEF TransitInv
<1>3. ASSUME NEW v \in Workers, Serving(v, "SaveTransfer")
      PROVE  trf'[req[v].trf] = trf[req[v].trf]
  BY <1>1, <1>3, <1>t, TransferRequestFields DEF Serving, TransferInv, SavesInOrder
<1>4. \A v \in Workers : StillMatches(v)'
  BY <1>1, <1>3, MatchesAfterEnd
<1>5. \A v \in Workers : req'[v].op = "UpdateItem" => req'[v] = req[v]
  BY <1>1, <1>t DEF Ends, Idle
<1> QED
  BY <1>2, <1>4, <1>5 DEF TransitInv, EditsElsewhere, Serving

(* A status saved leaves every item in transit with a carrier: the saved   *)
(* transfer carries on, or carried nothing, or has put its lines down.     *)
LEMMA CarriersAfterSave ==
    ASSUME TransferInv, TransitInv, NEW w \in Workers, NEW next \in TransferStatus,
           SaveTransfer(w, next),
           \/ next \in OnTheWay
           \/ trf[req[w].trf].status \notin OnTheWay
           \/ \A i \in Lines(w) : item'[i].assignment # "InTransit",
           \A i \in Items : item'[i].assignment = "InTransit" =>
               item[i].assignment = "InTransit" \/ (i \in Lines(w) /\ next \in OnTheWay)
    PROVE  TransitIsCovered'
<1>0. req[w].trf \in Transfers /\ Exists(req[w].trf)
  BY TransferRequestFields
     DEF TransferInv, TransferTypeOK, TransferRequests, SaveTransfer, Serving, SavesInOrder
<1> PICK t \in Transfers : t = req[w].trf
  BY <1>0
<1>1. /\ trf[t] \in TransferRow
      /\ trf \in [Transfers -> TransferRow \cup {NoTransfer}]
  BY <1>0, ExistingRow DEF TransferInv, TransferTypeOK
<1>2. /\ \A u \in Transfers \ {t} : trf'[u] = trf[u]
      /\ trf'[t].status = next /\ trf'[t].lines = trf[t].lines
  BY <1>1 DEF SaveTransfer, TransferRow
<1>3. Exists(t)'
  BY <1>2 DEF Exists, NoTransfer, TransferStatus
<1>4. ASSUME NEW i \in Items, item'[i].assignment = "InTransit"
      PROVE  \E u \in Transfers : Carries(u, i)'
  <2>1. CASE i \in Lines(w) /\ next \in OnTheWay
    <3>1. Carries(t, i)'
      BY <1>2, <1>3, <2>1 DEF Carries, Lines
    <3> QED
      BY <1>1, <3>1
  <2>2. CASE item[i].assignment = "InTransit"
    <3>1. PICK u \in Transfers : Carries(u, i)
      BY <2>2, CoveredByCarrier DEF TransitInv
    <3>2. CASE u # t
      BY <1>2, <3>1, <3>2 DEF Carries, Exists
    <3>3. CASE u = t
      <4>1. next \in OnTheWay
        BY <1>4, <3>1, <3>3 DEF Carries, Lines
      <4> QED
        BY <1>2, <1>3, <3>1, <3>3, <4>1 DEF Carries
    <3> QED
      BY <3>2, <3>3
  <2> QED
    BY <1>4, <2>1, <2>2
<1> QED
  BY <1>4 DEF TransitIsCovered, Carries

(* What updateMany leaves in transit. *)
LEMMA UpdatedAssignments ==
    ASSUME item \in [Items -> ItemRow], NEW ids, NEW holder, NEW assignment, NEW status,
           UpdateItems(ids, holder, assignment, status)
    PROVE  \A i \in Items : item'[i].assignment = IF i \in ids THEN assignment
                                                               ELSE item[i].assignment
  BY DEF UpdateItems, ItemRow

LEMMA CommitKeepsTransit ==
    ASSUME TransferInv, TransitInv, OneSavePerTransfer, NEW w \in Workers, NEW next,
           CommitOf(w, next)
    PROVE  TransitInv'
<1>t. /\ item \in [Items -> ItemRow] /\ req \in [Workers -> TransferRequests]
      /\ trf \in [Transfers -> TransferRow \cup {NoTransfer}]
  BY DEF TransferInv, TransferTypeOK, TransferRequests
<1>1. next \in TransferStatus /\ SaveTransfer(w, next)
  BY CommitTyped
<1>2. /\ Serving(w, "SaveTransfer") /\ req[w].next = next /\ Ends(w)
      /\ next \in StatusFlow[trf[req[w].trf].status]
      /\ req[w].rollback <=> /\ next \in {"REJECTED", "CANCELLED"}
                             /\ trf[req[w].trf].status \in OnTheWay
  BY <1>1 DEF SaveTransfer, TransitInv, StillMatches
<1>3. req[w].trf \in Transfers /\ trf[req[w].trf] \in TransferRow /\ Lines(w) \subseteq Items
  BY <1>2, <1>t, TransferRequestFields, ExistingRow
     DEF TransferInv, SavesInOrder, Serving, Lines, TransferRow
<1>4. TransitIsCovered'
  <2>1. CASE next = "APPROVED" /\ ApproveCommit(w)
    <3>1. trf[req[w].trf].status \notin OnTheWay
      BY <1>2, <1>3, <2>1 DEF TransferRow, StatusFlow, OnTheWay, TransferStatus
    <3> QED
      BY <1>1, <2>1, <3>1, CarriersAfterSave DEF ApproveCommit
  <2>2. CASE next = "DISPATCHED_TO_DEST" /\ DispatchToDestCommit(w)
    BY <1>1, <2>2, CarriersAfterSave DEF DispatchToDestCommit, OnTheWay
  <2>3. CASE next = "DISPATCHED_TO_STORE" /\ DispatchToStoreCommit(w)
    <3>1. \A i \in Items : item'[i].assignment = "InTransit" =>
                              item[i].assignment = "InTransit" \/ i \in Lines(w)
      BY <1>t, <2>3, UpdatedAssignments DEF DispatchToStoreCommit
    <3> QED
      BY <1>1, <2>3, <3>1, CarriersAfterSave DEF OnTheWay
  <2>4. CASE next = "RECEIVED_AT_STORE" /\ ReceiveAtStoreCommit(w)
    <3>1. \A i \in Items : item'[i].assignment = "InTransit" =>
                              item[i].assignment = "InTransit" \/ i \in Lines(w)
      BY <1>t, <2>4, UpdatedAssignments DEF ReceiveAtStoreCommit
    <3> QED
      BY <1>1, <2>4, <3>1, CarriersAfterSave DEF OnTheWay
  <2>5. CASE next = "RECEIVED_AT_DEST" /\ ReceiveAtDestCommit(w)
    <3>1. \A i \in Items : item'[i].assignment = IF i \in Lines(w) THEN "Unassigned"
                                                                  ELSE item[i].assignment
      BY <1>t, <2>5, UpdatedAssignments DEF ReceiveAtDestCommit
    <3> QED
      BY <1>1, <1>3, <3>1, CarriersAfterSave
  <2>6. CASE next \in {"REJECTED", "CANCELLED"} /\ Undo(w, next)
    <3> DEFINE ids == IF req[w].rollback THEN Lines(w) ELSE {}
    <3>1. \A i \in Items : item'[i].assignment = IF i \in ids THEN "Unassigned"
                                                             ELSE item[i].assignment
      BY <1>t, <2>6, UpdatedAssignments DEF Undo
    <3>2. trf[req[w].trf].status \in OnTheWay => ids = Lines(w)
      BY <1>2, <2>6
    <3> QED
      BY <1>1, <1>3, <3>1, <3>2, CarriersAfterSave
  <2> QED
    BY <2>1, <2>2, <2>3, <2>4, <2>5, <2>6 DEF CommitOf, RejectCommit, CancelCommit
<1>5. ASSUME NEW v \in Workers \ {w}, Serving(v, "SaveTransfer")
      PROVE  trf'[req[v].trf] = trf[req[v].trf]
  <2>1. req[v].trf \in Transfers /\ req[v].trf # req[w].trf
    BY <1>2, <1>5, <1>t, TransferRequestFields DEF OneSavePerTransfer, Serving
  <2> QED
    BY <1>1, <1>t, <2>1 DEF SaveTransfer
<1>6. \A v \in Workers : StillMatches(v)'
  BY <1>2, <1>5, MatchesAfterEnd
<1>7. \A v \in Workers : req'[v].op = "UpdateItem" => req'[v] = req[v]
  BY <1>2, <1>t DEF Ends, Idle
<1> QED
  BY <1>4, <1>6, <1>7 DEF TransitInv, EditsElsewhere, Serving

LEMMA StepKeepsTransit ==
    ASSUME NoTransitEdits, TransferInv, TransitInv, OneSavePerTransfer, TNext
    PROVE  TransitInv'
<1> PICK w \in Workers : \/ TransferStep(w)
                         \/ ItemStep(w) /\ UNCHANGED trf
                         \/ Fail(w) /\ UNCHANGED <<item, trf>>
  BY DEF TNext
<1>1. ASSUME NEW t \in Transfers,
             \/ ApproveRead(w, t) \/ DispatchToStoreRead(w, t) \/ ReceiveAtStoreRead(w, t)
             \/ DispatchToDestRead(w, t) \/ ReceiveAtDestRead(w, t)
             \/ RejectRead(w, t) \/ CancelRead(w, t)
      PROVE  \E next \in TransferStatus : AssertTransition(w, t, next)
  BY <1>1 DEF ApproveRead, DispatchToStoreRead, ReceiveAtStoreRead, DispatchToDestRead,
              ReceiveAtDestRead, RejectRead, CancelRead, TransferStatus
<1>2. ASSUME \/ ApproveCommit(w) \/ DispatchToStoreCommit(w) \/ ReceiveAtStoreCommit(w)
             \/ DispatchToDestCommit(w) \/ ReceiveAtDestCommit(w)
             \/ RejectCommit(w) \/ CancelCommit(w)
      PROVE  \E next \in TransferStatus : CommitOf(w, next)
  BY <1>2 DEF CommitOf, TransferStatus
<1> QED
  BY <1>1, <1>2, TransferReadKeepsTransit, CreateCommitKeepsTransit, CommitKeepsTransit,
     ItemStepKeepsTransit DEF TransferStep

(* An item in transit is on the lines of a transfer that can still deliver *)
(* it or roll it back, as long as no two requests save the same transfer   *)
(* at once (the code does not see to that: a cancellation read before the  *)
(* dispatch and saved after it strands the lines) and no edit of an item   *)
(* says it is in transit, nor does the body it is created with.            *)
THEOREM TransitCovered ==
    ASSUME NoTransitEdits
    PROVE  TSpec /\ []OneSavePerTransfer => []TransitIsCovered
<1>1. TInit => TransitInv
  <2>1. ASSUME TInit
        PROVE  /\ \A i \in Items : item[i].assignment # "InTransit"
               /\ \A w \in Workers : req[w] = Idle
    BY <2>1 DEF NoTransitEdits, TInit, ItemsInit, NewItem, Creatable
  <2> QED
    BY <2>1 DEF TransitInv, TransitIsCovered, StillMatches, EditsElsewhere, Serving, Idle
<1>2. TransferInv /\ TransitInv /\ OneSavePerTransfer /\ [TNext]_tvars => TransitInv'
  <2>1. ASSUME TransitInv, UNCHANGED tvars
        PROVE  TransitInv'
    BY <2>1 DEF tvars, TransitInv, TransitIsCovered, StillMatches, EditsElsewhere, Serving, Exists
  <2> QED
    BY <2>1, StepKeepsTransit
<1>3. TransitInv => TransitIsCovered
  BY DEF TransitInv
<1> QED
  BY <1>1, <1>2, <1>3, TransferInvariant, PTL DEF TSpec

(* So it is when one request is served at a time, whatever the transfers   *)
(* have in common.                                                         *)
COROLLARY TransitCoveredSerially ==
    ASSUME NoTransitEdits, \A v, w \in Workers : v = w
    PROVE  TSpec => []TransitIsCovered
<1>1. OneSavePerTransfer
  BY DEF OneSavePerTransfer
<1> QED
  BY <1>1, TransitCovered, PTL
=============================================================================
