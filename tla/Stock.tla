------------------------------- MODULE Stock -------------------------------
(***************************************************************************)
(* inventory.service.ts: the stock of consumables, kept as balances per    *)
(* place, consumable and lot, and again as the contents of containers.     *)
(* Each operation runs wholly inside one MongoDB transaction that writes   *)
(* the balances it reads, so each is one action; what is hard is that the  *)
(* two stay in step over any sequence of operations, overrides and         *)
(* containers among them.  Of the transaction rows the model keeps what    *)
(* the properties need: which keys were overdrawn on purpose, and what of  *)
(* a key is opening balance.                                               *)
(***************************************************************************)
EXTENDS Integers, FiniteSets, SequencesExt

CONSTANTS Consumables,
          Offices, Store,       \* the HEAD_OFFICE_STORE
          Persons,              \* the employees and sub-locations that hold stock
          Labs,                 \* the places that support chemicals
          Lots, NoLot,          \* bound: the lot ids that get used
          Containers,           \* bound: the container ids that get used
          Kinds,                \* bound: the kinds of consumable set up,
          Moving,               \*   those the inventory moves and uses,
          Boxed,                \*   and those in containers that need not be
          Expiries,             \* bound: the expiry dates of each kind, as ranks
          MaxQty,               \* bound: the quantity of one operation
          MaxStock,             \* bound: the stock under one key or in one container
          MaxDebt,              \* bound: how far below zero a key goes
          Openings,             \* bound: the keys that get an opening balance,
          MaxOpening,           \*   and how much of one
          Overriding,           \* bound: where allowNegative is asked for
          Outside               \* where stock comes from and goes to

Places == Offices \cup {Store} \cup Persons
LotIds == Lots \cup {NoLot}
Keys == Places \X Consumables \X LotIds

AnyKind == {"Plain", "Lot", "Chemical", "Container"}

ASSUME StockConstants ==
    /\ NoLot \notin Lots
    /\ Outside \notin Places
    /\ Kinds \subseteq AnyKind /\ Moving \subseteq Kinds /\ Boxed \subseteq Kinds
    /\ Overriding \subseteq Places /\ Openings \subseteq Keys
    /\ \A k \in Kinds : Expiries[k] \subseteq Nat
    /\ MaxQty \in Nat /\ MaxStock \in Nat /\ MaxDebt \in Nat /\ MaxOpening \in Nat

VARIABLES kind,        \* kind[c]: how the ConsumableItem c is set up
          lots,        \* lots[l]: the ConsumableLot l, or NoRow
          box,         \* box[k]: the ConsumableContainer k, or NoRow
          bal,         \* bal[<<p, c, l>>]: qty_on_hand_base of the balance row
          opening,     \* opening[key]: the sum of the OPENING_BALANCE rows, of
                       \*   a consumable that must be in containers
          overridden   \* the keys a row with an overrideNote took from

svars == <<kind, lots, box, bal, opening, overridden>>

NoRow == [place |-> Outside]
LotRow == [item: Consumables, expiry: Nat, received: Nat, available: Nat,
           place: Offices \cup {Store}]
(* A container's status is written, EMPTY or DISPOSED with the last of it, *)
(* but no operation looks at it.                                           *)
ContainerRow == [lot: Lots, place: Places, qty: Nat]

Quantities == 1 .. MaxQty

(* requires_lot_tracking; requires_container_tracking or is_controlled;    *)
(* these or is_chemical: received in containers only.                      *)
LotTracked(c) == kind[c] # "Plain"
NeedsContainer(c) == kind[c] = "Container"
ReceivedInContainers(c) == kind[c] \in {"Chemical", "Container"}

(* ensureChemicalsHolder, ensureLabOnlyHolder *)
Suitable(c, p) == kind[c] = "Chemical" => p \in Labs \cup {Store}

LotOf(l, c) == lots[l].place # Outside /\ lots[l].item = c
ContainerAt(k, p) == box[k].place = p

(* Bound: a consumable is set up once.  PUT /consumables/items/:id may ask  *)
(* for containers or lots of one with stock at hand; no step here does.    *)
SInit == /\ kind \in [Consumables -> Kinds]
         /\ lots = [l \in Lots |-> NoRow]
         /\ box = [k \in Containers |-> NoRow]
         /\ bal = [k \in Keys |-> 0]
         /\ opening = [k \in Keys |-> 0]
         /\ overridden = {}

-----------------------------------------------------------------------------
(* take[l]: how much of lot l an operation is about *)
Only(l, q) == [m \in LotIds |-> IF m = l THEN q ELSE 0]
Part(p, c, take, key) == IF key[1] = p /\ key[2] = c THEN take[key[3]] ELSE 0

(* Mutant: of a move, only the arrival is written. *)
MovedIn(p, r, c, take) ==
    [key \in Keys |-> bal[key] - (IF r = Outside THEN Part(p, c, take, key) ELSE 0)
                                + Part(r, c, take, key)]

(* The balances once take left place p for place r. *)
Moved(p, r, c, take) ==
    [key \in Keys |-> bal[key] - Part(p, c, take, key) + Part(r, c, take, key)]

(* Mutant: any stock will do. *)
CoveredBySome(p, c, take, override) ==
    override \/ \A key \in Keys : Part(p, c, take, key) > 0 => bal[key] > 0

(* updateBalance on the keys stock is taken from: 'Insufficient stock for  *)
(* requested operation' unless the operation may go below zero.            *)
Covered(p, c, take, override) ==
    override \/ \A key \in Keys :
                   Part(p, c, take, key) > 0 => bal[key] >= Part(p, c, take, key)

Noted(p, c, take, override) ==
    {key \in Keys : override /\ Part(p, c, take, key) > 0}

InBounds == \A key \in Keys : bal'[key] >= -MaxDebt /\ bal'[key] <= MaxStock

(* The balances and the transaction row of one operation. *)
Post(p, r, c, take, override) ==
    /\ Covered(p, c, take, override)
    /\ bal' = Moved(p, r, c, take) /\ InBounds
    /\ overridden' = overridden \cup Noted(p, c, take, override)
    /\ UNCHANGED opening

-----------------------------------------------------------------------------
(* pickLotsByFefo: the lots of c with stock at p, first expired first out, *)
(* those that expire together in any order; balances without a lot are     *)
(* passed over.                                                            *)
Stocked(p, c) == {l \in Lots : LotOf(l, c) /\ bal[<<p, c, l>>] > 0}

(* Mutant: the balances are used in the order the query returns them. *)
AnyOrder(p, c) == SetToSeqs(Stocked(p, c))

ByExpiry(p, c) ==
    {s \in SetToSeqs(Stocked(p, c)) :
        \A i, j \in DOMAIN s : i < j => lots[s[i]].expiry <= lots[s[j]].expiry}

Fefo(p, c, q, s) ==
    FoldLeft(LAMBDA pick, l :
                 LET n == Min({bal[<<p, c, l>>], pick.left})
                 IN  [left |-> pick.left - n, take |-> [pick.take EXCEPT ![l] = n]],
             [left |-> q, take |-> Only(NoLot, 0)],
             s)

(* What an operation on q of c at p may be charged to, without containers. *)
Allocations(p, c, q) ==
    LET picks == {Fefo(p, c, q, s) : s \in ByExpiry(p, c)}
    IN  IF NeedsContainer(c) THEN {}
        ELSE IF ~LotTracked(c) THEN {Only(NoLot, q)}
        ELSE {Only(l, q) : l \in {m \in Lots : LotOf(m, c)}}
             \cup {pick.take : pick \in {v \in picks : v.left = 0}}

(* ensureLotMatchesItem, asked of a lot that a consumable must have; what  *)
(* a body names of another consumable becomes the key as it is.            *)
LotMatches(c, l) == LotTracked(c) => l # NoLot /\ LotOf(l, c)

(* As Allocations, for the operations that want the lot named. *)
Named(c, l) == ~NeedsContainer(c) /\ LotMatches(c, l)

-----------------------------------------------------------------------------
(* POST /inventory/receive: of a new lot, or more of a lot there is, whose *)
(* quantities then stay as they were.  The containers it comes in, if any, *)
(* hold what was received.                                                 *)
LotReceived(p, c, l, q) ==
    \/ /\ lots[l] = NoRow
       /\ \E x \in Expiries[kind[c]] :
             lots' = [lots EXCEPT ![l] = [item |-> c, expiry |-> x, received |-> q,
                                          available |-> q, place |-> p]]
    \/ LotOf(l, c) /\ UNCHANGED lots

Filled(p, l, fill) ==
    box' = [k \in Containers |->
               IF k \in DOMAIN fill
                 THEN [lot |-> l, place |-> p, qty |-> fill[k]]
                 ELSE box[k]]

Received(p, c, l, q) ==
    /\ Suitable(c, p) /\ (LotTracked(c) <=> l # NoLot)
    /\ Post(Outside, p, c, Only(l, q), FALSE)
    /\ UNCHANGED kind
    /\ IF LotTracked(c)
         THEN /\ LotReceived(p, c, l, q)
              /\ \E S \in SUBSET {k \in Containers : box[k] = NoRow} :
                    \E fill \in [S -> 1 .. q] :
                       /\ IF S = {} THEN ~ReceivedInContainers(c)
                                    ELSE /\ ReceivedInContainers(c) \/ kind[c] \in Boxed
                                         /\ SumFunction(fill) = q
                       /\ Filled(p, l, fill)
         ELSE UNCHANGED <<lots, box>>

Receive(c, l, q) == Received(Store, c, l, q)

(* POST /inventory/receive-office *)
ReceiveOffice(o, c, l, q) == Received(o, c, l, q)

-----------------------------------------------------------------------------
(* POST /inventory/transfer.  A container moves whole, and only between    *)
(* offices and the store.                                                  *)
MoveLots(p, r, c, q, override) ==
    /\ Suitable(c, p) /\ Suitable(c, r)
    /\ \E take \in Allocations(p, c, q) :
          take \in [LotIds -> 0 .. MaxQty] /\ Post(p, r, c, take, override)
    /\ UNCHANGED <<kind, lots, box>>

(* Mutant: the container is not saved at its new place. *)
MoveContainerUnsaved(p, r, k, override) ==
    LET l == box[k].lot
        c == lots[l].item
    IN  /\ ContainerAt(k, p) /\ box[k].qty > 0
        /\ Suitable(c, p) /\ Suitable(c, r)
        /\ Post(p, r, c, Only(l, box[k].qty), override)
        /\ UNCHANGED <<kind, lots, box>>

MoveContainer(p, r, k, override) ==
    LET l == box[k].lot
        c == lots[l].item
    IN  /\ ContainerAt(k, p) /\ box[k].qty > 0
        /\ Suitable(c, p) /\ Suitable(c, r)
        /\ Post(p, r, c, Only(l, box[k].qty), override)
        /\ box' = [box EXCEPT ![k].place = r]
        /\ UNCHANGED <<kind, lots>>

Transfer(p, r, c, q, override) == MoveLots(p, r, c, q, override)
TransferContainer(p, r, k, override) ==
    p \notin Persons /\ r \notin Persons /\ MoveContainer(p, r, k, override)

(* POST /inventory/return: from an office to the HEAD_OFFICE_STORE *)
ReturnToCentral(o, c, q, override) == MoveLots(o, Store, c, q, override)
ReturnContainer(o, k, override) == MoveContainer(o, Store, k, override)

-----------------------------------------------------------------------------
(* What is left in a container that q is taken from *)
Drained(k, q) == box' = [box EXCEPT ![k].qty = IF q < @ THEN @ - q ELSE 0]

TakeFromContainer(p, k, q, override) ==
    /\ ContainerAt(k, p) /\ Suitable(lots[box[k].lot].item, p)
    /\ Post(p, Outside, lots[box[k].lot].item, Only(box[k].lot, q), override)
    /\ Drained(k, q)
    /\ UNCHANGED <<kind, lots>>

(* POST /inventory/consume *)
Consume(p, c, q, override) ==
    /\ Suitable(c, p)
    /\ \E take \in Allocations(p, c, q) :
          take \in [LotIds -> 0 .. MaxQty] /\ Post(p, Outside, c, take, override)
    /\ UNCHANGED <<kind, lots, box>>

ConsumeContainer(p, k, q, override) ==
    /\ ContainerAt(k, p) /\ (box[k].qty >= q \/ override)
    /\ TakeFromContainer(p, k, q, override)

(* POST /inventory/dispose, once the approval gate lets it through *)
Dispose(p, c, l, q, override) ==
    /\ Suitable(c, p) /\ Named(c, l)
    /\ Post(p, Outside, c, Only(l, q), override)
    /\ UNCHANGED <<kind, lots, box>>

DisposeContainer(p, k, q, override) ==
    /\ ContainerAt(k, p) /\ (box[k].qty >= q \/ override)
    /\ TakeFromContainer(p, k, q, override)

(* POST /inventory/adjust, direction DECREASE: a container may be asked    *)
(* for more than it holds without an override.                             *)
Decrease(p, c, l, q, override) ==
    /\ Suitable(c, p) /\ Named(c, l)
    /\ Post(p, Outside, c, Only(l, q), override)
    /\ UNCHANGED <<kind, lots, box>>

DecreaseContainer(p, k, q, override) == TakeFromContainer(p, k, q, override)

(* INCREASE: of a debt that stays one, only with an override. *)
Repaid(key, q, override) == override \/ bal[key] + q >= 0

Increase(p, c, l, q, override) ==
    /\ Suitable(c, p) /\ Named(c, l) /\ Repaid(<<p, c, l>>, q, override)
    /\ Post(Outside, p, c, Only(l, q), FALSE)
    /\ UNCHANGED <<kind, lots, box>>

IncreaseContainer(p, k, q, override) ==
    LET l == box[k].lot
        c == lots[l].item
    IN  /\ ContainerAt(k, p) /\ Suitable(c, p) /\ Repaid(<<p, c, l>>, q, override)
        /\ Post(Outside, p, c, Only(l, q), FALSE)
        /\ box[k].qty + q <= MaxStock
        /\ box' = [box EXCEPT ![k].qty = @ + q]
        /\ UNCHANGED <<kind, lots>>

(* POST /inventory/opening-balance: all entries of a call or none.         *)
(* Bounds: entries of one quantity for different keys.                     *)
OpeningBalance(E, q) ==
    /\ \A key \in E :
          /\ Suitable(key[2], key[1]) /\ LotMatches(key[2], key[3])
          /\ opening[key] + q <= MaxOpening
    /\ bal' = [key \in Keys |-> IF key \in E THEN bal[key] + q ELSE bal[key]] /\ InBounds
    /\ opening' = [key \in Keys |-> IF key \in E /\ NeedsContainer(key[2])
                                      THEN opening[key] + q ELSE opening[key]]
    /\ UNCHANGED <<kind, lots, box, overridden>>

-----------------------------------------------------------------------------
(* The answers allowNegative may have at p *)
Overrides(p) == IF p \in Overriding THEN BOOLEAN ELSE {FALSE}

UseStep(p, c, q, override) ==
    /\ kind[c] \in Moving
    /\ \/ Consume(p, c, q, override)
       \/ \E r \in Places : Transfer(p, r, c, q, override)
       \/ p \in Offices /\ ReturnToCentral(p, c, q, override)
       \/ \E l \in LotIds :
             \/ Dispose(p, c, l, q, override)
             \/ Decrease(p, c, l, q, override) \/ Increase(p, c, l, q, override)

UseContainerStep(p, k, override) ==
    /\ ContainerAt(k, p) /\ kind[lots[box[k].lot].item] \in Moving
    /\ \/ \E r \in Places : TransferContainer(p, r, k, override)
       \/ p \in Offices /\ ReturnContainer(p, k, override)
       \/ \E q \in Quantities :
             \/ ConsumeContainer(p, k, q, override) \/ DisposeContainer(p, k, q, override)
             \/ DecreaseContainer(p, k, q, override) \/ IncreaseContainer(p, k, q, override)

StockStep ==
    \/ \E c \in Consumables, q \in Quantities, l \in LotIds :
          Receive(c, l, q) \/ \E o \in Offices : ReceiveOffice(o, c, l, q)
    \/ \E p \in Places : \E override \in Overrides(p) :
          \/ \E c \in Consumables, q \in Quantities : UseStep(p, c, q, override)
          \/ \E k \in Containers : UseContainerStep(p, k, override)
    \/ \E E \in SUBSET Openings, q \in Quantities :
          E # {} /\ Cardinality(E) <= 2 /\ OpeningBalance(E, q)

SSpec == SInit /\ [][StockStep]_svars

(* Type invariant of the inventory. *)
StockTypeOK ==
    /\ kind \in [Consumables -> Kinds]
    /\ lots \in [Lots -> LotRow \cup {NoRow}]
    /\ box \in [Containers -> ContainerRow \cup {NoRow}]
    /\ bal \in [Keys -> Int]
    /\ opening \in [Keys -> Nat]
    /\ overridden \subseteq Keys

(* A balance is below zero only where an operation that noted an override  *)
(* took the stock: 'Override note is required when allowing negative       *)
(* stock'; no other sequence of operations leads there, not even one that  *)
(* moves what a container holds or one that picks the lots itself.         *)
NegativeOnlyByOverride ==
    \A key \in Keys : bal[key] < 0 => key \in overridden

(* The stock of an item that must be in containers is in containers: a     *)
(* place has no more of a lot on its books than its containers of that lot *)
(* hold, opening balances apart, which are posted without containers.      *)
(* It is about items set up so from the start: one that PUT begins to ask  *)
(* containers of keeps the stock it had without.                           *)
StockIsInContainers ==
    \A key \in Keys : NeedsContainer(key[2]) =>
        LET there == {k \in Containers : ContainerAt(k, key[1]) /\ box[k].lot = key[3]}
        IN  bal[key] <= opening[key] + SumFunction([k \in there |-> box[k].qty])

(* First expired first out: a step that takes from two lots of a place     *)
(* finishes the one that expires first.                                    *)
EarliestFirst ==
    [][\A p \in Places, c \in Consumables : \A l \in Lots : \A m \in Lots \ {l} :
          /\ bal'[<<p, c, l>>] < bal[<<p, c, l>>] /\ bal'[<<p, c, m>>] < bal[<<p, c, m>>]
          /\ lots[l].expiry < lots[m].expiry
          => bal'[<<p, c, l>>] = 0]_svars

(* The balances, added up over the lots, and where one was overdrawn, keep *)
(* the simple book of StockBook.                                           *)
AddedUp == [a \in Places \X Consumables |->
               SumFunction([l \in LotIds |-> bal[<<a[1], a[2], l>>]])]
NotedAt == {a \in Places \X Consumables : \E l \in LotIds : <<a[1], a[2], l>> \in overridden}

Book == INSTANCE StockBook WITH held <- AddedUp, overridden <- NotedAt
KeepsStockBook == Book!Spec
=============================================================================
