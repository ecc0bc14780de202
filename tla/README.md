# EPA Asset Management: TLA+ models and proofs

A TLA+ verification project for the server of this repository
(`src/server`, an Express/Mongoose application over MongoDB). Modules model the
handlers as the code has them, TLC configurations check them on small
instances, and TLAPS proves the central facts for every size.

All paths below are relative to `src/server/src/` unless they start with `src/`.

## 1. The system and its parts

Physical assets (*asset items*) are held by an office or by the head-office
store, are given to employees, are moved between offices, are repaired, and are
returned. Consumables (chemicals and the like) are received in lots, issued to
offices and used up. Requisitions ask for either. Every one of these is a set of
HTTP handlers over a handful of MongoDB collections; there is no other
concurrency than requests in progress at the same time, in one or several server
processes.

| component | state it keeps | operations that change it | interacts with | what makes it correct |
|---|---|---|---|---|
| Asset items (`controllers/assetItem.controller.ts`, `utils/assetItemStatusRules.ts`) | per item: holder, assignment status, item status, functional status, is_active | create, createBatch, PUT, DELETE | every other asset component writes these fields | the fields tell the truth about assignments, transfers and repairs |
| Assignments (`controllers/assignment.controller.ts`) | per assignment: status, item, assignee, is_active, returned_date | create, handover slip signed, request return, return slip signed, PUT, reassign, DELETE | writes the item at handover and return | one tenant per item; the lifecycle; only an assignable item is issued |
| Return requests (`controllers/returnRequest.controller.ts`) | status and lines of a request | create, receive, signed receipt | closes assignments and frees items: a second return path | one return per assignment; no item freed from under a later tenant |
| Transfers (`controllers/transfer.controller.ts`, `.helpers.ts`) | status, stage timestamps, route and lines | create, approve, two dispatches, two receipts, reject, cancel | moves items between holders; approval matrix gates the approval | no leg skipped; nothing lost in transit |
| Maintenance (`controllers/maintenance.controller.ts`) | status, item and is_active of a record | create, PUT, complete, DELETE | puts items in and out of the Maintenance state | an item in repair is not given out |
| Approval matrix (`services/approvalMatrix.service.ts`) | status, required approvals and decisions of a workflow | gate (create/find), decide, mark executed | gates transfers, consumable issues and disposals | quorum; never one person alone; consumed once |
| Inventory of consumables (`modules/consumables/services/inventory.service.ts`) | balances per place, consumable and lot; contents of containers; transaction rows | receive (store, office), transfer, return to the store, consume, adjust, dispose, opening balance | disposal gated by the matrix; requisitions take from its balances | balances, lots and containers in step; below zero only by an override; first expired first out |
| Issues of consumables (`consumableIssue`, `consumableConsumption`, `consumableReturn` controllers, `balance.service.ts`) | what is left of a lot, a balance per holder and consumable | issue, record consumption, return (to an office, to a lot) | shares the lots with the inventory and nothing else | nothing lost or made |
| Requisitions (`controllers/requisition.controller.ts`) | status, lines with approved and fulfilled quantities | create, map, verify, adjust, fulfil | fulfilment issues assignments and takes consumables | what is recorded was handed out; no line over-fulfilled; no half-made requisition |
| Records register (`modules/records/`) | status of a register entry, approval requests, documents, links, versions | create, change status, request and decide an approval, link, upload | each workflow step creates or moves an entry | transition table; document and approval gates; versions without gaps |
| Workflow configuration, policies, delegation | rules, policies, delegation windows | edits by administrators, caches | read by the gates and the scheduler | which rule applies; a change takes effect |
| Scheduler and workers (`services/backgroundScheduler.service.ts`, `maintenanceReminderWorker.service.ts`) | timers, the cursor of a job | start, job cycles | read maintenance records, create notifications | one chain of cycles; it goes on; nothing due is passed over |
| Notifications (`services/notification.service.ts`) | rows, and the settings kept in memory for 30 seconds | send, one or many, without duplicates | every handler and the jobs send some | the same reminder once a day |
| Authentication, reference data, reports, PDF slips, web client | rows of their own, or none | CRUD, sessions, rendering | | outside the asset, stock and approval state |

PROJECT.json lists these parts as `components`, with what is modelled of each
and why the others are not.

### Where the difficulty is

* **Check, then act.** Most handlers load documents and validate them first, and
  write later, after awaits on other queries and on uploads. Some writes repeat
  the check in their filter (`findOneAndUpdate({_id, status: 'DRAFT'})`), some do
  not (`transfer.save()`).
* **Transactions cover part of it.** `withTransaction` bodies are snapshot
  transactions: they abort when a document they *write* changed meanwhile; what
  they only read, and everything loaded before they began, may be stale.
* **Partial writes.** Mongoose's `save()` writes the fields that differ from the
  *loaded* document. Two saves over one document interleave field by field.
* **Two ways to the same end.** Items come back by return slip or by return
  request; items change hands by assignment, transfer, maintenance, rollback and
  by direct edits, and each handler writes the item with its own idea of it.
* **Gates outside the transaction.** The approval workflow is consumed after the
  transaction it allowed.
* **No recovery.** Nothing re-examines a half-finished sequence after a stop.
  `POST /requisitions` cleans up after itself in a catch block, in several
  deletes, while others already see what it made.
* **Two books.** A lot that is received counts in the inventory's balances and in
  the lot's own quantity, and from then on the two are moved by different
  handlers. The inventory itself keeps each quantity twice more, as a balance and
  as the contents of containers.
* **A chain of timers.** A job goes on only because each cycle, on whatever path
  it ends, arms the next one; and it reads through a cache that a load begun
  before a change can fill after it.

PROJECT.json lists the places at their lines under `hazards`, with the properties
that cover them or the reason why none does.

## 2. How requests are modelled

A *worker* `w` is one HTTP request in progress; `req[w]` is what it keeps from
its reads. A handler is two actions, or more where the code writes in more than
one step:

* `...Read` is everything up to the last check before the write: the guards are
  the code's conditions, and `req[w]` keeps the values used later;
* `...Write` / `...Commit` is the single document write or the transaction. It
  re-checks what the code's filter re-checks, and nothing else. Conditions on a
  document that a transaction writes are taken as holding at the commit, because
  a snapshot transaction aborts on a write conflict; conditions on documents it
  only reads belong to the `...Read` action.

`Fail(w)` ends a request without effect: a failed check, upload or insert, or an
aborted transaction. Requests of different workers interleave everywhere between
these steps, so a configuration with one worker is the serial system and one
with two or three is the concurrent one.

Data are model values: items, offices, assignments, requests, employees. A
holder is the pair `<<holder_type, holder_id>>`. Dates are abstracted to whether
they are set. Who may call a handler is left out: the actions are what a
permitted caller can do.

| module | code | content |
|---|---|---|
| `AssetItems` | `controllers/assetItem.controller.ts`, `utils/assetItemStatusRules.ts`, `utils/assetHolder.ts` | the item row, the status rules, PUT and DELETE, and the request frame the asset modules share |
| `Tenancy` | (specification) | the abstract promise of the assignments: an item has at most one tenancy at a time, and a tenancy that is over is never taken up again |
| `Assignments` | `controllers/assignment.controller.ts`, `models/assignment.model.ts` | all assignment handlers and the two unique partial indexes; refines `Tenancy` |
| `ReturnRequests` | `controllers/returnRequest.controller.ts` | return requests composed with `Assignments` and `AssetItems` |
| `Transfers` | `controllers/transfer.controller.ts`, `.helpers.ts` | all legs, rejection and cancellation, composed with `AssetItems` |
| `Maintenance` | `controllers/maintenance.controller.ts` | create and complete (transactions), PUT and DELETE (a save, then synchronisation writes), composed with `Assignments` and `AssetItems` |
| `ApprovalMatrix` | `services/approvalMatrix.service.ts` | gate, decisions, consumption; stands alone, its caller is the action `CarryOut` |
| `StockBook` | (specification) | what the inventory promises of its sums: an operation brings stock, takes some of one account, or moves some between two places without loss, and a sum sinks below zero only by an override |
| `Stock` | `modules/consumables/services/inventory.service.ts` and its models | every operation of the inventory, one action each because each is one transaction on what it reads; refines `StockBook` |
| `LotIssues` | `consumableIssue`, `consumableConsumption`, `consumableReturn` controllers, `balance.service.ts` | the second book, composed with `Stock` over the same lots |
| `Requisitions` | `controllers/requisition.controller.ts`, `.helpers.ts` | one requisition from its creation to its last fulfilment, composed with `Assignments` |
| `Register` | `modules/records/services/`, `utils/transitions.ts` | records, approval requests, documents, links and versions |
| `Reminders` | `services/backgroundScheduler`, `maintenanceReminderWorker`, `notification` | the maintenance job with its timers, pages, cache and failures, a crash and restart of the server, under fairness |
| `Custody_proofs` | | theorems about return requests and maintenance, with the lemmas on assignment and item handlers they take from `Assignments_proofs` |
| `..._proofs` of `Assignments` (with the item handlers), `Transfers`, `ApprovalMatrix`, `Stock`, `Requisitions`, `Register`, `Reminders` | | theorems and their proofs |
| `MC...` | | model values and symmetry for TLC |

State and code correspond as follows. `item[i]` is an AssetItem document,
`asg[a]` an Assignment, `rrq[r]` a ReturnRequest, `trf[t]` a Transfer (`stages`
is the set of its timestamp fields that are set), `mnt[m]` a MaintenanceRecord
(`open` is "Scheduled or InProgress", `registered` is "its register entry is
Completed"), `wf[r]` an ApprovalMatrixRequest, and `spent[r]` counts the gated
transactions committed on it, which no document of the code does. `bal`, `lots`
and `box` are the balance rows, the lots and the containers of the inventory,
`onHand` the balances of the second book, `opening` and `overridden` what its
transaction rows say of opening balances and override notes. `rq` and `line` are a
Requisition and its lines, `handed` counts what was really handed out, and
`overtaken` notes that a request wrote over another's quantities or status; no
document has either. `rec`, `approval`, `doc`, `links` and `versions` of `Register` are its
documents. In `Reminders`, `due`, `fresh`, `enabled` and `wants` are rows of the
database and the other variables the memory of the server, which a crash loses. `map` in
PROJECT.json gives the lines of every definition. Definitions whose comment says
*Mutant* are wrong on purpose: each is a plausible defect of the definition after
it, and replacing the one by the other must break the property it is paired with.

Places where the code is subtler than it looks, and the models follow it:

* `Assignments!CreateCommit` does not repeat the look-up of an open assignment:
  two requests may both have found the item free. Only `IndexAllows` stops the
  second.
* `Assignments!HandoverCommit` marks the item the assignment named *when it was
  read*, and does not look at the item again.
* `ReturnRequests!Receipt` closes whatever `Returnable` finds, by employee,
  is_active and returned_date, whatever the assignment's status.
* `Transfers!SaveTransfer` writes the new status whatever the stored one is.
* `Maintenance!UpdateMaintenanceSave` and the actions after it (`ForceItem`,
  `SyncRecords`, `SyncItem`, `Settle`) are separate writes with reads between.
* `AssetItems!RemoveItemWrite` and all `save()` actions write only the fields that
  differ from the document as it was loaded (`Saved`).
* `Stock!MoveContainer` moves the balance of a lot by what the container holds, and
  `Drained` empties a container at zero while the balance takes it all.
* `Stock!LotReceived` leaves the quantities of a lot that is there as they were:
  only the balance knows of the second receipt.
* `Requisitions!FulfillLines` writes quantities and status from the copies its
  `FulfillRead` took, inside a transaction that would have aborted on a conflict
  had it loaded them itself.
* `Register!DecideApproval` saves the approval, and `DecideRecord` the record, from
  the status it had when both were loaded.
* `Reminders!Resolve` keeps what a load brought even if the settings changed, and
  the cache was dropped, since it was asked for.
* `ApprovalMatrix!DecideWrite` appends the entry to the stored array but writes
  the status computed from the loaded one.

## 3. What is checked

Twelve runs, all of which pass. Sizes are distinct states under symmetry.

| run | instance | properties | what it shows |
|---|---|---|---|
| `assignments_overlap` | 2 workers, 2 assignments, 2 items, 1 office (274 k) | `AssignmentTypeOK`, `OneTenant`, `FollowsLifecycle`, `KeepsTenancy` | whatever two requests validated, one item never has two tenants, statuses move along the lifecycle, and the component implements `Tenancy` |
| `assignments_serial` | 1 worker, 3 assignments, 2 items, item edits (708 k) | `BrokenStaysOut` | through any sequence of handovers, returns, retirement, revival and edits, but edits that say Damaged, InTransit or Transferred, an item in use that needs repair never shows as available or assigned |
| `returns` | 2 workers, 2 assignments, 2 items, 2 requests with overlapping lines, an employee and a sub-location (1.1 M) | `ReturnTypeOK`, `EachReturnOnce`, `FreedByItsReturn` | the two return paths, duplicate requests and edits of `employee_id` do not count a return twice or free an item from under a later tenant |
| `transfers_serial` | 1 worker, 2 transfers over all line sets of 2 items, 2 offices and the store (315 k) | `TransferTypeOK`, `TransitIsCovered` | an item in transit is always on a transfer that can still deliver it or roll it back, although two transfers may hold the same item |
| `transfers_overlap` | 3 workers, 1 transfer, 1 item (380 k) | `NoLegSkipped` | although stale saves overwrite each other, no transfer is received without having been approved, at the store and dispatched |
| `maintenance_serial` | 1 worker, 2 records, 2 items, 1 assignment, edits that note damage (2.6 M) | `MaintenanceTypeOK`, `RepairKeepsOut` | an item with an open record is not assignable after any sequence of handlers, also when records move between items, are reopened or deleted |
| `maintenance_overlap` | 2 workers, 2 records, 2 items, edits that note damage (1.2 M) | `RepairKeepsOut` | the two transactional handlers, create and complete, keep it when they overlap, with PUT of the item in between |
| `approvals_overlap` | 3 workers, 3 users, rules asking for 1, 2 or 3 approvals (612 k) | `ApprovalTypeOK`, `Quorum`, `NoLoneApprover` | nothing goes through below quorum or on one person's word, although votes of one user may be recorded twice and statuses overwritten |
| `stock` | 1 consumable of any of 4 kinds, 2 lots, 2 containers, an office, the store and a user (49 k) | `LotIssuesTypeOK`, `NothingLost`, `NegativeOnlyByOverride`, `StockIsInContainers`, `EarliestFirst`, `KeepsStockBook` | whatever sequence of receipts, moves, uses, overrides and opening balances: balances below zero come from overrides alone, the stock of a container item is in containers, lots go first expired first, the sums keep `StockBook`; and issues and returns neither lose nor make anything |
| `requisitions` | 2 workers, 1 requisition of 2 lines, 2 assignments, 1 item (416 k) | `RequisitionTypeOK`, `OneTenant`, `RecordedIsHandedOut`, `Accounted`, `WholeOrGone` | fulfilment from stale copies never records more than was handed out or approved, hands no item to two, and is exact until a request overwrites another; a creation that fails leaves nothing |
| `register` | 2 workers, 1 record of 3 types, 1 approval request, 1 document with 2 versions (1.4 M) | `RegisterTypeOK`, `CompletedHasDocuments`, `SignedOff`, `VersionsInOrder`, `FollowsTransitions` | the gates for documents and approvals, read before the status is saved, hold of what was saved; no version is lost or written twice |
| `reminders` | 2 records in pages of 1, 1 recipient, 1 other request, 1 fault (278 k) | `RemindersTypeOK`, `RemindedOnce`, `OneChain`, `DueIsReminded`, `JobGoesOn`, `CacheCatchesUp` | one chain of cycles, which goes on; each reminder is sent, and once in 24 hours; the cache does not keep an old setting |

### Bounds, and why they are enough

* **Workers.** Every handler's race is between one request's read and another
  one's write, so two workers show each pairwise race. `Transfers` and
  `ApprovalMatrix` use three, so that a third request acts on the outcome of such
  a race (a dispatch after a cancellation was overwritten; a submission after two
  votes that did not see each other).
* **Items.** Two: edits and transfers with a common item need a second one to go
  to or come from. The single-item runs are about one document's status.
* **Assignments, requests, transfers, records.** Two of each, three assignments
  where a serial history may need a predecessor, a current one and a successor.
  Ids are used once, so these also bound the length of histories.
* **Approvals.** `RequiredCounts` 1 to 3 with three users, one of them the maker
  and an administrator: below, at and above what two people can give. One
  workflow, because decisions and consumption never relate two; the theorems are
  for any number. `SpendLimit` is 2, one more than the code means to allow.
* **Stock.** One consumable: no operation relates two, and its kind is any of the
  four that differ in what the code asks of them. Two lots that expire together or
  one before the other (`Expiries`, for the kind that lots are picked for) make a
  choice of FEFO, two containers a split receipt. Quantities up to 2 and balances
  from -1 to 2 (`MaxQty`, `MaxStock`, `MaxDebt`) reach "not enough", "exactly" and a
  debt that is repaid in part;
  opening balances and overrides are at the office only. Plain and lot-tracked items
  can be received in containers, too (`Boxed`); that instance is too large for a run
  and left out of it, and the theorems of section 4 are for any `Boxed`.
* **Requisition.** One, of one mapped and one unmapped line, or two alike, of two
  pieces each: in one go, in two, or in part. `Elsewhere` keeps those assignment
  handlers that compete for the item.
* **Register.** One record. Nothing in the handlers relates two; approvals, documents
  and links are looked up by record. Two versions are the first and a race for
  the second.
* **Reminders.** Two records in pages of one: the cursor is used within a date and
  across dates. `MaxFaults` 1 puts one crash or failed call at every point of
  every cycle. Behaviours are infinite, so cycles, changes and restarts repeat.
* **Edits.** `StatusEdits`, `FunctionalEdits`, `AssignmentEdits`, `ActiveEdits`,
  `ItemEdits`, `EmployeeEdits`, `IsActiveEdits`, `ReturnedEdits`,
  `MaintenanceItems` and `MaintenanceOpens` are the values PUT bodies carry;
  `Keep` is "not in the body". A run takes those its question is about:
  `employee_id` is edited in `returns`, whose receipts look rows up by it and whose
  property counts by `assigned_to_id` (every PUT of an assignment there carries
  is_active true and an employee, often the one the row has); nothing else decides
  on it. `NewStates` are
  the states items are created in: in `assignments_serial` also as broken, which
  `Creatable` admits or refuses as the code does. `Retirements` and `Removals`
  name the items and records that may be deleted; `ReturnLines` and `LineSets`
  the item sets of requests and transfers.

Some restrictions are not only about size and are to be read with the results:

* No run has a PUT of an item that writes `assignment_status` directly
  (`AssignmentEdits`); the handler accepts it, and then the field says whatever
  the caller wants.
* `BrokenStaysOut` leaves out three statuses an edit may give an item,
  `StatusEdits` without Damaged, InTransit and Transferred, because it does not
  hold with them: `validateFunctionalStatusCombination` lets the three pass with
  every functional status (`utils/assetItemStatusRules.ts:113`), and the return
  slip keeps Maintenance only (`controllers/assignment.controller.ts:866`). An item
  that is given out, edited to Damaged with Needs Repair, and returned by slip is
  Available and still needs repair, with one request at a time. The rule the
  property quotes is about the other statuses, so this is no contradiction of
  what the repository says, but it is a gap in it. The property is also about
  requests that do not overlap (the slip's status is computed before its
  transaction), about Needs Repair only (an item beyond repair comes back as
  Available), and about the handlers of items and assignments: completing a
  maintenance record makes an item Available and leaves functional_status
  (`controllers/maintenance.controller.ts:370`).
* PUT of the asset item in the maintenance runs notes damage, Needs Repair or
  Non-Repairable, and does not say that an item works. When the body says
  nothing of item_status and the item is Functional but in Maintenance, which is
  how creating a record leaves it, the handler itself resets it to Available
  (`controllers/assetItem.controller.ts:95`), open record or not: that breaks
  `RepairKeepsOut` serially. The theorems exclude exactly this, and the revival of a
  retired item, as `NoPutReleases`.
* A PUT of an assignment may also carry `asset_item_id: null`; the model has items
  only. `Stock` takes what a consumable is tracked by as set up once (`SInit`): PUT
  `/consumables/items/:id` may change it while there is stock
  (`modules/consumables/controllers/consumableItem.controller.ts:216`), and `StockIsInContainers` would not survive
  containers being required of stock that came without.
* `maintenance_overlap` has neither assignments nor PUT and DELETE of records. The
  synchronisation of PUT and DELETE runs outside a transaction, and a creation
  between its search for open records and its write leaves an item with an open
  record Available; so does a return slip whose item status was computed before
  the maintenance was created (`controllers/assignment.controller.ts:866`). Nothing in the
  repository promises otherwise, so these are described here and under `hazards`
  and not counted as findings. For the same reason a request does not stop
  between two synchronisation writes in these runs (`Unfinished`).

CHECK_DEADLOCK is off in `stock`, `requisitions` and `register`, where the bounds
let a history end: every id is used, every quantity at its limit. It stays on in
the others: `Fail` ends any request in progress, and a state with no request in
progress always lets another begin. In `reminders` it says that the job never
waits for what cannot come.

### Fairness

Nothing in the code schedules a handler: an assignment stays a draft until
somebody uploads a slip, a pending workflow waits for people. So no fairness is
assumed of requests, and no liveness is claimed of what they do.

The one component with a schedule of its own is the job of `Reminders`.
`RemindersFairness` assumes

* WF of `JobStep`: a timer that is armed fires, an await whose promise is settled
  goes on, and the process manager starts a server again that went down. At any
  time at most one disjunct of it is enabled, for there is one chain (`OneChain`);
* WF of `LoadStep(l)`: a query of the settings is answered and its answer arrives;
* WF of `CacheExpires`: 30 seconds pass.

No fairness is assumed of users, of `Replan` and `GrowsOld` (dates coming nearer,
rows growing old), of settings or of faults; a fault may hit any step, but there
are at most `MaxFaults`. Weak fairness is enough because nothing that the job
waits for is disabled by others once it is enabled, except that a load it joined
is settled.

`DueIsReminded` therefore has exceptions where the code has them: a record that is
no longer due, reminders that are switched off, and a chain that ended because its
configuration could not be read (`ConfigFails`), after which nothing arms a timer
until the server is started again.

## 4. What is proved

TLAPS proves the following for every value of the constants that satisfies the
named assumptions of the modules: reserved values differ from the data, and the
bounds on what requests carry (edits, quantities, line types, rule sizes) hold
values of their kind. No size is assumed of anything, and no finiteness except
where something is counted or added up: `Items` in `Requisitions`, and the sets a
theorem names in its own ASSUME. Each invariant is proved from an inductive one,
which is named below with what it adds and why the property needs it.

Some theorems have hypotheses of two other kinds, each with its reason below:

* on what PUT bodies carry: `NoLooseStatuses`, `NoTransitEdits`,
  `NoReopeningEdits`, `NoFreeingEdits`, `NoPutReleases`. The handlers accept more.
  Mostly they then write what the caller says; in the case `NoPutReleases` excludes
  the caller says nothing of the status and the handler itself resets it
  (`controllers/assetItem.controller.ts:95`). Each names what breaks the property,
  with a history of it in section 3 or 5;
* on which requests overlap (`[]OneWriterPerItem`, `[]OneSavePerTransfer`,
  `[]OpenedApart`). The code guarantees none of these. They name the overlaps that
  break the property and leave every other interleaving in, so that they are
  weaker than "one request at a time", the bound of the serial runs; the
  corollaries `...Serially` derive the property for one worker from them.

`Assignments_proofs`, for `ASpec`:

| theorem | statement |
|---|---|
| `TypeCorrect` | `[]AssignmentTypeOK` |
| `OneTenantAlways` | `[]OneTenant` |
| `LifecycleFollowed` | `FollowsLifecycle` |
| `ImplementsTenancy` | `KeepsTenancy`, the refinement of `Tenancy` |

The inductive invariant is `AssignmentTypeOK /\ OneTenant`. The type invariant
carries one conjunct that is not about types: `NamesWritten`, that the assignment
a request in progress is about exists. Without it a stale handover could write
the status of a document nobody created, and the row it writes would have no
item. It is preserved because no handler deletes an assignment (`WrittenStays`).
The argument then rests on one lemma, `OneRowAtATime`: whatever assignment action
is taken, it leaves `asg` alone or writes one well-formed row that the unique
indexes allow and that continues the row it replaces. `OneTenant` follows from
the indexes alone (the look-ups before the writes are not used anywhere in its
proof), the lifecycle from the second half, and the refinement from both: a row
written is a tenancy begun, ended, moved, or a stutter.

| theorem | statement | under |
|---|---|---|
| `BrokenIsOut` | `[]BrokenStaysOut` | `[]OneWriterPerItem`; `NoLooseStatuses`: no edit and no new item says Transferred, InTransit or Damaged |
| `BrokenIsOutSerially` | the same | one worker instead |

`BrokenStaysOut` is about the stored item, and handlers decide on a loaded one.
`CustodyInv` adds that what a request in progress decided on is still so of the item
it will write (`Decided`), which is where `OneWriterPerItem` comes in, and that an
item has one of four statuses (`SettledRow`), for all of which the status rules tie
"Needs Repair" to Maintenance. The other three statuses of the schema are written
by edits and for new items alone; why the property cannot hold with them is in
section 3.

`ApprovalMatrix_proofs`, for `Spec`:

| theorem | statement |
|---|---|
| `AlwaysBacked` | `[](ApprovalTypeOK /\ Backed)`, the inductive invariant |
| `TypeCorrect` | `[]ApprovalTypeOK` |
| `QuorumAlways` | `[]Quorum` |
| `NeverAlone` | `[]NoLoneApprover` |

`Quorum` is not inductive: a request that passed the gate still carries the
workflow after a later decision turned it to Rejected, and will mark it
Executed; and a decision in progress carries a verdict computed from an array
that has grown since. `Backed` adds what those requests promise: whoever will let
a workflow through has its approvals (`Enough`), and whoever will approve it
completes them with the entry it carries (`Completes`). Both survive every step
because entries are only ever appended (`ApprovalsGrow`, `EnoughStays`,
`CompletesStays`). That two entries of one user cannot satisfy a rule for two or
more, although both can be recorded, is `CompletedIsEnough`: the verdict was
computed on a loaded array in which the user had not yet decided, so the other
entries it counted are another user's.

`Transfers_proofs`, for `TSpec`:

| theorem | statement |
|---|---|
| `TransferInvariant` | `[]TransferInv`, the inductive invariant |
| `TransferTypesHold` | `[]TransferTypeOK` |
| `LegsInOrder` | `[]NoLegSkipped` |

Statuses do not help here: a stale save may overwrite any status by another.
Timestamps are only ever added, so `StagesInOrder` says of every stage that is
set, and of the status, that the stages they need (`Needs`) are set as well;
`SavesInOrder` says it of the status a request is about to save.

| theorem | statement | under |
|---|---|---|
| `TransitCovered` | `[]TransitIsCovered` | `[]OneSavePerTransfer`; `NoTransitEdits`: no edit and no new item says InTransit |
| `TransitCoveredSerially` | the same | one worker instead |

A rollback is decided on the loaded status; `StillMatches` says that the stored one
still calls for it. Transfers that share an item may overlap: the one that takes
the item out of transit for both either delivers or rolls it back, so an item that
is still in transit after a save is on the line of a transfer that was not saved,
or was dispatched by the save.

`Custody_proofs`, for `RSpec` (return requests beside assignments and items) and
`MSpec` (maintenance beside both):

| theorem | statement | under |
|---|---|---|
| `ReturnTypesHold` | `RSpec => []ReturnTypeOK` | |
| `OneTenantWithReturns` | `RSpec => []OneTenant` | |
| `EachReturnCounted` | `RSpec => []EachReturnOnce` | `ReturnsFinite`, `NoReopeningEdits` |
| `FreedOnlyByReturn` | `RSpec => FreedByItsReturn` | `Items` finite, `NoReopeningEdits`, `NoFreeingEdits` |
| `MaintenanceTypesHold` | `MSpec => []MaintenanceTypeOK` | |
| `InRepairIsOut` | `MSpec => []RepairKeepsOut` | `[]OpenedApart`, `[]NoPutReleases` |
| `InRepairIsOutSerially` | the same | one worker, `[]NoPutReleases` |
| `TransactionsKeepOut` | the same | creations, completions, retirements and edits of items only, any overlap of them, `[]NoPutReleases` |

The first four are for any interleaving of any number of requests. Both return
paths close an assignment under a filter on the open ones, and a receipt looks for
a row without a returned_date. `ClosedIsReturned`, which `NoReopeningEdits` keeps
(PUT does not move assignments nor take the date away), makes the two agree: a
receipt closes rows that no other return counted, so for each employee and item
the receipts stay within the closed assignments. Receipts find rows by
`employee_id`, which PUT may change at any status; they are counted by
`assigned_to_id`, which nothing changes, and a receipt goes through `save()`, which
refuses a row in which the two differ (`Valid`). `FollowsRead` adds for
`FreedByItsReturn` that a return slip in progress still names the item of its
assignment and that a retired item stays retired; `NoFreeingEdits` (no PUT of the
item that writes another assignment_status or brings it back) is what the
property cannot hold without.

`RepairKeepsOut` excuses requests that are still bringing items up to date.
`RepairInv` says for which item: an item with an open record is in Maintenance, or
a request is about to force exactly that item (`OutForRepair`); and a request that
is about to free an item found no open record that is still there (`KnowsRepair`).
The second is stable unless another request opens a record meanwhile, hence
`OpenedApart`. Creation writes the record and the item in one transaction, and
completion looks for other open records in the transaction that writes both:
neither decides on anything that can go stale, so they need no such hypothesis.
`NoPutReleases` is what an edit of the item could do without asking for records: no
PUT in progress makes an item with an open record functional, or one that is retired
active; every other edit is allowed, in any overlap.

`Requisitions_proofs`, for `RSpec`:

| theorem | statement |
|---|---|
| `RequisitionInvariant` | `[]RequisitionInv`, the inductive invariant |
| `RequisitionTypesHold` | `[]RequisitionTypeOK` |
| `OneTenantHere` | `[]OneTenant`, also with several assignments in one insert |
| `NoMoreThanHandedOut` | `[]RecordedIsHandedOut` |
| `AlwaysAccounted` | `[]Accounted` |
| `NeverHalfMade` | `[]WholeOrGone` |

What a fulfilment writes is computed from its copy of the lines, so
`RecordedIsHandedOut` rests on `CopyTrue`: what a copy records was handed out
(`handed` only grows) and was approved (no handler changes an approved quantity
while its line is there). A copy could outlive a line and meet another one under
its id, were lines ever inserted twice; that they are not is `Life`: one request
makes the requisition, and until it has inserted the lines the requisition is
`Blank`, which includes that no fulfilment in progress knows of a line. `Life`
gives `WholeOrGone` as well.

`Register_proofs`, for `RegisterSpec`:

| theorem | statement |
|---|---|
| `RegisterInvariant` | `[]RegisterInv`, the inductive invariant |
| `RegisterTypesHold` | `[]RegisterTypeOK` |
| `AlwaysSignedOff` | `[]SignedOff` |
| `AlwaysDocumented` | `[]CompletedHasDocuments` |
| `VersionsNumbered` | `[]VersionsInOrder` |
| `TransitionsFollowed` | `FollowsTransitions` |

`KnowsTrue` says what each request in progress found is still so: an approval it
looked up was given, the documents it looked up are linked, the version it counted
to is at most one past the last. It lasts because entries, links, approvals given
and versions are added and never taken away (`Grows`), which is why gates that
are read before the save hold of what is saved. The statuses are not among what
lasts, hence the exception in `FollowsTransitions`.

`Stock_proofs`, for `SSpec` (the inventory alone) and `LSpec` (beside the second
book):

| theorem | statement | under |
|---|---|---|
| `StockInvariant` | `SSpec => []StockInv`, inductive | |
| `StockTypesHold` | `SSpec => []StockTypeOK` | |
| `DebtIsNoted` | `SSpec => []NegativeOnlyByOverride` | |
| `IssueInvariant` | `LSpec => []IssueInv`, inductive | |
| `IssueTypesHold` | `LSpec => []LotIssuesTypeOK` | |
| `DebtIsNotedWithIssues` | `LSpec => []NegativeOnlyByOverride` | |
| `NothingIsLost` | `LSpec => []NothingLost` | `Lots`, `Accounts` finite |
| `ContainersHoldTheStock` | `LSpec => []StockIsInContainers` | `Containers` finite; consumables set up once |
| `FirstExpiredFirstOut` | `LSpec => EarliestFirst` | `Lots`, `Containers` finite |
| `InventoryKeepsStockBook` | `LSpec => KeepsStockBook`, the refinement of `StockBook` | `Lots`, `Containers` finite |

Every operation of the inventory is a posting of quantities by place and key;
`PostKeeps` shows once that a posting keeps the invariant, and one lemma per
operation that it makes such a posting.

The last four are about sums, `SumFunction` of the community modules, whose
definition chooses elements one by one with a recursive function. The first part of
`Stock_proofs` is a small theory of it: for a finite domain the fold exists and is
unique (`AddsUpExists`, `AddsUpUnique`), does not depend on the order of choice
(`SumWithout`), and changes with one entry by that entry's difference
(`SumChanged`, `TotalChanged`, `TotalExtended`), and adds up (`SumsAdd`). Induction over the domain is done
by the smallest counterexample (`SmallestSubset`), which needs no theorem with an
operator parameter.

`NothingLost` is then inductive over `LotIssuesTypeOK`: an issue, a use or a
return changes one lot's and one or two accounts' entries by amounts that cancel
(`StillWhole`), and the operations of the inventory keep a lot's quantities but for
the receipt, which adds a lot with both (`TotalExtended`).

`StockIsInContainers` is not: a movement of a container that the books know
nothing of, or of a lot whose row is another item's, would break it. `BoxInv` adds
`LotsOfContainers`, that the lot of a container was received, and replaces the
property by `StockIsBoxed`: a place has of a lot no more than its containers hold of
it plus opening balances, and of a lot of another item, or of no lot, no more than
opening balances. TLC checked both conjuncts on the instance of `stock`.

What FEFO picks is the same kind of fold over the lots in their order.
`PickedSoFar` says where it stands after the first k of them: as much was picked as
is no longer asked for, and of a lot before another that was picked from all there
is; `PicksNext` is one step, `PicksAll` the induction over k. `Posting` then says of
every operation but the opening balance that a quantity above zero leaves one side
for another, in the order of `PickedInOrder` (`StockStepPosts`), which is all that the
last two theorems need. For `StockBook` a posting changes the sums of at most two
accounts by what was taken in all (`PostChangesSums`), notes an override nowhere but
where it takes (`PostNotes`), and a sum below zero has a balance below zero
(`OwingOfSome`), which `NegativeOnlyByOverride` says was noted. Container operations
post under the lot of the container, hence `BoxInv` in both.

`Reminders_proofs`, for `RemindersSpec`:

| theorem | statement |
|---|---|
| `RemindersInvariant` | `[]RemindersInv`, the inductive invariant |
| `RemindersTypesHold` | `[]RemindersTypeOK` |
| `RemindedAtMostOnce` | `[]RemindedOnce` |
| `OneChainOnly` | `[]OneChain` |

`OneChain` says nothing of a server that is down; `OneTimer` adds that no timer is
pending then, so that a restart makes the only one. `RemindedOnce` needs that what
the filter of duplicates let through is still new when it is inserted
(`OnlyNewToSend`), and it is because the one chain is the only one that inserts.

Only model-checked, by TLC on the instances of section 3: liveness under fairness,
`DueIsReminded`, `JobGoesOn` and `CacheCatchesUp`, which is out of the provers' reach.

## 5. Observations that are not runs

Behaviour met while modelling, reachable in the models or excluded from them by
a bound that says so, and not stated otherwise by anything the runs check.

Assignments, transfers, maintenance, approvals:

* the item of a handover is checked before its transaction and not in it
  (`controllers/assignment.controller.ts:636`, `:669`): an item taken out of use in
  between is handed over all the same, although "Only available asset items can be
  assigned" (`utils/assetItemStatusRules.ts:49`). Requests that do not overlap keep
  to it;
* `transfer.save()` writes the status over whatever is stored, which may be one
  STATUS_FLOW does not lead from (`controllers/transfer.controller.helpers.ts:221`):
  `NoLegSkipped` says what holds all the same;
* a transfer to the head-office store ends with holder_type OFFICE and the store's
  id (`controllers/transfer.controller.ts:737`);
* an approval workflow is consumed after and outside of the transaction it
  allowed (`services/approvalMatrix.service.ts:217`): two submissions can commit on
  one approval;
* two overlapping decisions of one user are both recorded on a workflow, and of
  two overlapping decisions the later save replaces the status of the earlier
  one, an approval by a rejection or the reverse
  (`services/approvalMatrix.service.ts:346-368`);
* an item on the lines of two transfers can go from one office to another without
  passing through the store: the receipt at the destination takes the lines from
  wherever they are (`controllers/transfer.controller.ts:737`);
* scheduling maintenance leaves functional_status Functional, a combination the
  status rules refuse to PUT;
* an item that is given out, edited to Damaged with Needs Repair and returned by
  slip is Available and needs repair (`utils/assetItemStatusRules.ts:113`,
  `controllers/assignment.controller.ts:866`); so is an item that was noted as
  needing repair and whose maintenance is then completed
  (`controllers/maintenance.controller.ts:370`);
* PUT of an assignment may give it an `employee_id` that is not its
  `assigned_to_id`, past the model's validation
  (`controllers/assignment.controller.ts:989`, `models/assignment.model.ts:49`); a
  return request that reaches the row then always fails in `save()`, while the
  return slip, which updates without validation, still closes it;
* cancelling an issued assignment leaves its item Assigned;
* a draft can be received back by a return request;
* a transfer does not look at assignments between its creation and its last
  receipt, so an item assigned on the way arrives with its assignment open; and a
  rollback sets an item in repair or retired to Available.

Consumables:

* a container that is asked for more than it holds is emptied while the balance
  drops by all that was asked, by DECREASE even without an override; an INCREASE of
  an EMPTY container leaves it EMPTY;
* a receipt into an existing lot does not raise the lot's quantities; a return
  to a lot is not compared with what was received in it
  (`modules/consumables/controllers/consumableReturn.controller.ts:299`);
* the issue a consumption of LAB_ONLY stock refers to may be of any quantity;
* adjustment, disposal and opening balance of a consumable that is not lot-tracked
  take whatever lot id the body names, another consumable's included
  (`modules/consumables/services/inventory.service.ts:1708`);
* tracking of a consumable by containers or lots can be turned on while it has
  stock without any (`modules/consumables/controllers/consumableItem.controller.ts:216`);
* the requests of `consumableContainer.controller.ts` create, change and delete
  containers, contents included, without touching a balance; fulfilment of a
  requisition takes container items from the balance without a container.

Requisitions:

* two fulfilments of one line that overlap can hand out more than was approved,
  and record one's quantity (`controllers/requisition.controller.ts:1462`); two
  decisions of verify may overwrite each other;
* the status is not written when it equals the loaded one, so an overlapping
  change of it stays;
* others can verify and fulfil a requisition before its creation has failed and
  deleted it; when the deletes fail, or the server stops between them, the rows
  stay;
* no handler writes CANCELLED or FULFILLED_PENDING_SIGNATURE, so
  `uploadSignedIssuance` (`:1206`) always refuses;
* `POST /assignments` on a requisition's line looks at neither the requisition's
  status nor what remains of the line.

Register:

* `POST /records` may create an entry in any status;
* `decideApproval` decides a request again that was decided before, and approves a
  disposal without the DisposalApproval document that updateRecordStatus asks for;
* overlapping saves can bring a Cancelled or Archived record back;
* a link may name a record that does not exist; the register entries of transfers
  and requisitions are also written past these services, and
  `updateTransferRecordStatus` swallows its errors.

Reminders and settings:

* a configuration that cannot be read once ends a job's chain until the server is
  started again (`services/backgroundScheduler.service.ts:40`, `:27`);
* `stopBackgroundScheduler` is never called, and the `running` flag is never found
  set;
* several server processes would each have a chain, and break `RemindedOnce`; the
  dashboard and the asset items send alerts of other types by the same check and
  insert;
* the configuration cache of `workflowConfig.service.ts` can be filled late by an
  old read, as the one in `Reminders` can;
* `updateSettings` saves whole sections from a loaded copy: one of two changes at
  once is lost (`controllers/settings.controller.ts:285-335`).

## 6. Plan

Done: asset items, assignments, return requests, transfers, maintenance and the
approval matrix; then both books of consumables, requisitions, the register and
the maintenance job with the notifications it sends.

What could follow:

1. `AssetCustody`: assignments, transfers, maintenance and fulfilment over the
   same items, with the relations that survive every interleaving; the retried
   transaction whose second `save()` omits the status.
2. `Staff`: employees, users and offices with their check-then-save rules (one
   head office, no transfer of an employee with active assignments).
3. `RuleSelection`: `pickMatchingRule` against a declarative definition.

### Not modelled

* Role delegation, authentication, sessions, rate limits, access policies: who may
  call a handler. Every module has the steps of permitted callers only, and no
  property is about who is one.
* Employees, users, offices, stores and other reference data: constants. Their
  rules are look-ups before a save with no index behind them ("Only one active
  Head Office is allowed", `controllers/office.controller.ts:103`), and an employee
  is kept from moving with active assignments by one of three handlers that move
  one (`controllers/employee.controller.ts:590`).
* The threshold job: the cycle of the maintenance job over balances, with no pages.
* Container requests outside the inventory, changes of what a consumable is
  tracked by (PUT `/consumables/items/:id`), units of measure, rounding of
  quantities: stock is counted in whole numbers of the base unit.
* The signed issuance of a requisition, which cannot be reached.
* Master assets, purchase orders, dashboards, reports, rendering and storage of
  files, seed scripts, and the web client, which has no state beyond what it asks
  of the server.
* Differences the properties do not see, named where they are: a maintenance
  record going from Scheduled to InProgress, a line mapped anew to another asset,
  the two queries in which `fulfill` loads the requisition and its lines, the moment
  at which its transaction reads all lines, the instant between saving the settings
  and dropping their cache, and records whose item no office holds, which the
  reminder job skips.
* Retried transactions: the committed run of a `withTransaction` body is taken as
  its first.

## 7. Running

    tlc -config Assignments_overlap.cfg MCAssignments.tla
    tlapm Assignments_proofs.tla

and likewise for the other configurations; PROJECT.json pairs each with its
module. The runs take up to about three minutes each, the proofs a few minutes.
