# A TLA+ model of the furniture ERP

This directory models the business core of the ERP backend (NestJS, TypeORM,
Postgres; `src/src`): who may promise, move, ship, receive and bill what, when
several requests are served at the same time. The modules are translated from
the services, TLC checks them on small instances, and TLAPS proves the
invariants that matter most for instances of any size.

    tlc -config FulfilmentDesk.cfg MCFulfilment     # and so on, see "Runs"
    tlapm FulfilmentProofs.tla                      # and so on, see "Proofs"

## 1. Inventory

State is in Postgres tables; services are stateless and change the tables in
one transaction per request. Concurrency is the overlap of such transactions at
READ COMMITTED, and each of the hard questions is about a value that is read
without a lock in one statement and relied on in a later one.

| Part | State | Operations that change it | What makes it correct |
|---|---|---|---|
| Stock engine, `transactions/stock-engine.ts` | none (works on rows) | decrement, increment, best-effort reservation, release, delivery from reservations | counts never negative; takes what it reports; showroom first |
| Inventory and transactions, `transactions/` | `item_stocks`, `items.qty_sold`, `transactions` | transfer, sale, return, adjustment; internal adjustments for purchase orders | every unit accounted for; no lost update of a row |
| Sales orders, `sales-orders/` | `sales_orders`, `sales_order_lines`, `reservations` | create, from quotation, line edits, confirm, cancel, sale on an order | reservations = reserved counters; content fixed once confirmed; closes exactly when complete |
| Deliveries, `deliveries/` | `deliveries`, `delivery_lines`; changes stock, lines, reservations, order status | create (read, permit gate, locks, hand over, reconcile) | never more than ordered; reservations follow the goods |
| Release permits, `release-permits/` | `release_permits` and lines | create, status, add and remove line | goods leave only when released; no more released than ordered |
| Quotations, `quotations/`, `quotation-details/` | `quotations`, `quotation_details`, `quotation_revisions` | create, status, expiry job; add, change and delete details, with revisions | an offer stands once sent; no detail lost; one active order each |
| Money totals, `quotations/totals.ts`, lines of `sales-orders/`, `finance/` | none | totals, line amounts | documents agree to the cent that rounding may take |
| Numbering, `common/services/numbering.service.ts` | `number_sequences` | next | numbers unique and not behind the documents |
| Purchase orders, `purchase-orders/` | `purchase_orders`, lines, `goods_receipts`, `supplier_price_lists` | create, suggestions, send, cancel, close, receive, return | no over-receipt; status follows receipts; stock follows both |
| Finance, `finance/` | `invoices`, `payments`, `payment_allocations` | invoice from order, manual invoice, payment | no double allocation; oldest first; status tells the balance |
| Requests for quotation, `rfqs/` | `rfqs`, `rfq_lines` | create, edit, status; add, change and delete lines | follows its workflow; lines stay with it |
| Items, `items/` | `items`, the first `item_stocks` row | create, update, soft delete | an edit does not undo what stock moves count |
| Stock alerts, `stock-alerts/`, with notifications and the timers of `tasks/` | `stock_alert_configs`, `notifications` | configuration, evaluation after a commit, digest, expiry | a low item reaches everyone; at most one alert per quiet period |
| Brands, suppliers, locations, clients, users, auth, audit log, uploads, settings, gateway | master data, records, output | edits of one row | |
| Reports, dashboard | none | queries | |

How they meet: a sale that names an order calls the orders service; deliveries
and orders call the stock engine on the same locked rows; purchase orders call
the transactions service; a confirmation converts the quotation; a delivery asks
the release permits of its order; invoices read what deliveries and sales have
counted on the order's lines; every document draws its number from the numbering
service inside its own transaction; alerts, notifications and socket events
follow the commit of a stock move, and a timer sends the digest.

What is hard, and so what the properties are about (`hazards` in
`PROJECT.json` has every case with its line): checks on unlocked reads
(confirm, cancel, line edits, deliveries, quotation status, permits), entities
saved as they were read (together with the rows that were read with them),
best-effort reservation over several rows,
reservations that deliveries trim by another rule than sales, the first row of
a sequence, row locks taken in the order of the lines, several payments that
share invoices, and what a rollback in the middle leaves behind.

## 2. Modules

`StockEngine` has the arithmetic as operators (`Reservations`, `FromReserved`,
`FromFree`, `WithReserved`, ...), stated as what the loops compute:
`StockEngineCheck` has the loops themselves, as folds over the locations in the
order in which they are visited, and compares. `ErpTables` declares
the selling tables, the private state of requests, and the database's part
(row locks, `Saved`, the unique index `SoleActive`, `Finish`).
`SalesOrders`, `Deliveries`, `Transactions` and `Quotations` each have the
actions of one service on those tables; `Fulfilment` composes them, adds the
sum of a line's released permits and `Rollback`, and states the properties.
`OrderLifecycle` is the abstract specification of an order, without stock,
lines or requests, which `Fulfilment` implements one request at a time
(`LifecycleSpec`).

`DocumentTables` is what quotations, RFQs and release permits have in common:
headers and the rows that point to them, a request between its reads and its
writes, and what TypeORM's `save` does to both (`SaveSelect`, `SaveUpdate`,
`Orphans`). `QuotationSheets`, `Rfqs` and `ReleasePermits` have the handlers of
the three services, the last with the delivery that asks the permits;
`Documents` composes them. `Workflows` has the tables of transitions.

`Items` is the row of an item, the requests that edit it, its stock as a whole
(units available, which may be less than none when more is reserved than is there,
and reserved) and the stock moves that write both; `StockAlerts` the configuration of its alerts and the
evaluation that follows a move; `Catalogue` adds the timer of the digest and the
clock. `Money` computes totals and lines in cents; `Arithmetic` puts it beside
`StockEngineCheck` and checks both on all inputs within bounds.

`Numbering` is one scope of the numbering service, with the statements that
`save` really executes. `Procurement` is purchase orders with their receipts
and returns, locking row by row. `Finance` is invoices and payments;
`Receivables` is what it promises, an account per client, and `AccountSpec` the
refinement. `MC*` give the constants their values for TLC. The theorems are in
`FulfilmentProofs`, `ArithmeticProofs`, `NumberingProofs`, `DocumentProofs`,
`CatalogueProofs`, `ProcurementProofs` and `FinanceProofs`; the facts about sums
that they share in `SumTheorems`.

A handler is a sequence of actions, cut where it reads without a lock; `pc[r]`
says where request `r` is. For instance

| code | actions |
|---|---|
| `confirm` | `ConfirmRead` (unlocked), `ConfirmLock` (stock rows FOR UPDATE), `ReserveLine` per line, `ConfirmFindQuotation` (unlocked), `ConfirmCommit` or `ConfirmRefused` |
| `cancel` | `CancelRead`, `CancelFind` (reservations, unlocked), `CancelCommit` or `CancelRefused` |
| `deliveries.create` | `DeliverRead`, `PermitGate` or `PermitRefused`, `DeliverLock`, `HandOverLine` per line or `HandOverRefused`, `DeliverCommit` or `DeliverRefused` |
| `NumberingService.next` | `FindRow`, or `FindNone`, `DeriveLast`, `SaveSelect`, `SaveInsert` / `SaveOverwrite`; then `Create` by the caller |
| `receiveWithin` | `ReceiveStart` (order FOR UPDATE), `ReceiveNumber`, per line `NextLine` and `LockItem`, `ReceiveCommit` |
| `returnWithin` | `ReturnStart`, per line `NextLine` and `LockItem`, `ReturnCommit` or `ReturnRefused` |
| `createPayment` | `PayFind`, `PayLock`, `PayRead`, `PayCommit` or `PayRefused` |
| `updateStatus` of the three documents | `QuotationStatusRead`, `RfqStatusRead` or `PermitStatusRead`; then `SaveSelect` and `SaveUpdate` or `SaveRefused` |
| `updateItem` of a quotation | `UpdateItem`, `EditCheck` or `EditRefused`, `EditSelect`, `RevisionRead`, `RevisionSelect`, `EditCommit` |
| `addLine` of a permit | `AddLineRead`, `OrderLineRead`, `OthersRead` or `AddLineRefused`, `AddLineInsert` |
| `update`, `softDelete` of an item | `EditRead`, `EditSelect`, `EditUpdate` |
| `evaluateAfterTransaction` | `LoadItem`, `FindConfig`, `InsertConfig` or `InsertRefused`, `ReadAvailable`, `SaveSelect`, `SaveUpdate`, `Notify` per user |

All writes of a transaction appear in the step that commits it, and every step
may be followed by a `Rollback` instead (`Fail` in `Numbering`): an exception,
a lost connection, a deadlock victim or a crash of the server are the same to
the tables. The evaluation of an alert is in no transaction: its `Fail` keeps
what it has written.

### What the model takes for granted

- Postgres at READ COMMITTED: an unlocked read sees what is committed; FOR
  UPDATE waits, then reads the committed row; unique constraints refuse.
- Whether queries give the handlers what they go on to use is a constant,
  `QueriesAsMeant`. As written they do not: no relation is eager, and some
  handlers read `row.item.id`, `row.location.id` or `order.quotation` off
  entities found without naming that relation (`confirm`,
  sales-orders.service.ts:287 and :361; `cancel`, :411; deliveries,
  deliveries.service.ts:138), so that they throw, or skip a branch; and Postgres
  refuses FOR UPDATE on a query with a left join (stock moves,
  inventory.service.ts:37; sales on an order, sales-orders.service.ts:453 and
  :482; receipts and returns, purchase-orders.service.ts:506). FALSE is that code:
  the action that would go on is not enabled, and `Rollback` is what is left
  (`RowsReadable` says for which items), and a confirmation finds no quotation.
  TRUE is what the lines that follow each query, and the end-to-end tests
  `golden-path` and `concurrency`, suppose, and what a repair of the queries
  would make of the code. The passing runs take TRUE, since with FALSE no stock
  moves and their properties would say little; the theorems hold for both; the
  run FindQuotationKept takes FALSE.
- `save(entity)` is a SELECT of the record and an UPDATE of the columns in which
  the entity differs from what that SELECT saw; it inserts the entity again when
  it was deleted meanwhile. Children that the entity was read with are saved
  with it: one that the database has and the entity does not is detached, its
  foreign key set to NULL. `DocumentTables` and `Items` have these steps one by
  one. In `Fulfilment` a save is one step: `Savable` lets an order be saved with
  the lines it was read with, since `sales_order_lines` may not be without an
  order, and `NoNewReservations` a cancellation when no reservation was added.
- A stock row that does not exist is a row of zeros; items are never deleted;
  one location is the showroom. Rows without ORDER BY come in any order.
- In `Fulfilment` a request gets the stock rows of all its items at once, and a
  sale on an order, which holds the order row from its first statement on, is
  one step. `Procurement` takes locks one by one and has the deadlocks.
- A document and its number commit together, so a rollback leaves no gap.
- Release permits are there from the start, as Drafts in `Documents` and as
  sums in `Fulfilment` (`permitted`): `create` cannot leave one (see
  FindPermitCreate), and nothing could be delivered in the model otherwise.
- The three kinds of documents share no rows, so one behaviour of `Documents` is
  about one `kind`; items share no rows either, so `Catalogue` has one item.
- In `Catalogue` time passes in ticks, `Quiet` of them being the quiet period.
  It does not pass while a stamp is being saved and its users are being told,
  which takes milliseconds against hours. `desk` divides the behaviours: about
  the row, with edits, or about its alerts, with configurations.
- In `Procurement` an order has at most one line per item (so lines are named
  by items), and stock is one number per item. In `Finance` money is counted in
  whole units and delivered goods cost one each; what discounts, VAT and
  rounding make of a total does not change what is done with it. No code sets
  an invoice to `Cancelled`.

## 3. Runs

States are distinct states. Symmetry is over orders, lines and requests, items
that start with the same stock, permits and the rows of documents, which the
specifications never tell apart, in `Catalogue` requests and users (`Procurement`,
which has a liveness property, uses none).
CHECK_DEADLOCK is FALSE throughout: with the bounds used up nothing more
happens, and a shop may stop.

| Run | Question | Properties | Bounds |
|---|---|---|---|
| FulfilmentDesk | Do confirm, cancel, edits, sales and moves keep reserved counters, rows, lines and flags in step, one request at a time and without deliveries? | ReservedIsHeld, HeldWithinOutstanding, ShortageFlagged, OverHoldsNothing | 2 locations, 2 orders, 2 lines of up to 2 units, up to 2 units a row; 77 000 states |
| FulfilmentSerial | With deliveries, does an order live as OrderLifecycle says? | TypeOK, DeliveredIsShipped, ClosedWhenDelivered, LifecycleSpec | 2 locations, 2 items, 2 lines; 139 000 states |
| FulfilmentRaces | What survives two overlapping requests, every interleaving? | NonNegativeStock, UnitsConserved, DraftHoldsNothing, OneActiveOrderPerQuotation | 2 requests, 2 orders, 1 quotation, 1 unit, permits of 0 or 1, the way of the quotation to its order (`OnTheWay`); 790 000 states |
| Documents | What survives of lines, offers and permits when edits, changes of status and deliveries overlap? | TypeOK, NoLineLost, ClearedWithinOrdered, GoodsWereCleared, OfferStands | 2 requests; 1 quotation with 1 detail, or 1 RFQ with 2 lines, or 2 permits with 2 lines on an order line of 2 units; 428 000 states |
| Catalogue | Does the row of an item stay true under edits and moves, and does an alert of a low item reach everyone, and not too often? | RecordIsTrue, LowIsAlerted, AlertsKeepQuiet | 2 requests, 2 users, thresholds 0 and 1, 1 unit, a quiet period of 2 ticks; 1.2 million states |
| Arithmetic | Do the loops of the stock engine compute what the operators state? Do the amounts of documents agree? | ReserveAgrees, DeliverAgrees, MoneyAgrees | 3 locations, up to 2 units a row, up to 3 asked: all 177 147 inputs; two lines (`LineCount`), prices of 1 to 1999 cents, percentages with halves and thirds: 16 384 documents |
| Numbering | Is the sequence never behind, and a number that was found fresh? | TypeOK, SequenceCovers, FoundIsFresh | 4 creations, from no row at all |
| Procurement | Receipts and returns that overlap, lock by lock | TypeOK, ReceivedIsReceipted, GoodsBalance, StatusFromReceipts, OnePricePerItem, ReceiptsDoNotDeadlock, RequestsEnd | 2 orders, 2 items, 2 requests, 1 unit a line; 174 000 states |
| Finance | Invoices and overlapping payments of a client | TypeOK, NeverOverAllocated, StatusTellsBalance, PaymentsSpent, OldestFirst, AccountSpec | 2 invoices on 2 days, totals from -2 to 2, 2 requests; 378 000 states |

FulfilmentDesk and FulfilmentSerial have one element in `Requests` and
`OneAtATime` as ACTION_CONSTRAINT: no sale, move or decision commits between
two steps of the request, which leaves each handler's own logic.

Why this is enough to see the interesting cases: two requests are what a lost
update, a stale read and a circular wait need; two locations make a reservation
split and "showroom first" differ from "by id"; two lines of one item make a
line short while the other is served; two orders let one release or take what
the other holds; a quantity of two makes partial delivery possible and one unit
is enough for races; two invoices with dates in either order make a payment
spread, and negative totals are credit notes; two permits of one order line
compete for its two units, and one detail is enough for a quotation to lose it.
One revision is enough too: with it an edit of a sent quotation races with the
change of status that made it one. A quiet period of two ticks has an age before
it, within it and after it, and two users let an alert reach one of them.
`DocsOf`, `RowsOf`, `MaxRevisions`, `Thresholds`, `Quiet`, `LineCount`, `LineQuantities`,
`Prices`, `Percents`, `MaxQty`, `MaxOnHand`, `MaxSold`,
`PermitSums`, `MaxUnits`, `MaxNumber`, `MaxOther`, `MaxInvoice`, `MaxDate`,
`MaxMoney` bound what the tables hold; none of them is a limit of the code.

The desk run leaves deliveries out because with them `ReservedIsHeld` and
`OverHoldsNothing` do not hold in the code (see below), and the races run claims
only what holds under races: the rest fails there, and that is known. The
properties of `Documents` and `Catalogue` that hold only without an overlap, or
without a stale save, name it (`raced`, `stale`), and the steps that break them
are in the model. The type invariant of `Fulfilment` is in FulfilmentSerial only;
that of `Items` is stated for its proofs.

Three runs look for something a document or comment says, and find the code
doing otherwise:

| Run | What is said | What happens |
|---|---|---|
| FindQuotationKept | a confirmation "marks the source quotation Converted" (sales-orders.service.ts:252) | `order.quotation` was never loaded (:256-259): an order for items without stock rows is confirmed, and its quotation stays Approved |
| FindPermitCreate | `POST /release-permits` makes a Draft permit (FRONTEND-HANDOFF.md:1035) | `create` reads its answer through another connection before it commits, does not find it, throws and rolls back |
| FindStuckRfq | RFQs move along their workflow and can be cancelled (FRONTEND-HANDOFF.md:456) | a change of status saves the RFQ without its deleted lines, which would set a column to NULL that may not be: after a deletion it always fails |

Met on the way and left without a run:

- Orders. As written, `confirm`, `cancel` and deliveries throw once an ordered
  item has a stock row, and Postgres refuses stock moves, sales on orders and
  receipts (see `QueriesAsMeant` above). With queries as meant, a confirmation
  can bring a cancelled order back; a line edit can land on a confirmed order;
  an order can be confirmed whose quotation was cancelled, which then stays so;
  a cancelled order leaves its quotation Converted; two overlapping
  cancellations release twice, at the expense of another order
  (ERP-PLAN-V2.md:235). Once deliveries get their rows, `reconcileReservations`
  compares the row of each location with all that the order has received of the
  item (deliveries.service.ts:243-250; `Reconciled`): a row of a location that
  nothing was taken from is dropped and its unit stays reserved for nobody,
  although :224 speaks of rows that were consumed, and a partly consumed row is
  not trimmed, so that a closed order may hold it. As written a delivery throws
  before it comes to that.
- Stock. Moves without an order look at on hand only, so reserved may exceed it
  (ERP-MASTER-PLAN.md:272); two overlapping deliveries both pass the cap
  (deliveries.service.ts:84); goods that deliveries shipped are not counted in
  `qty_sold` and so cannot be returned.
- Permits. A delivery counts Released permits only, where FRONTEND-HANDOFF.md:473
  says all that are not cancelled; each delivery is compared with the whole sum
  again; golden-path.e2e-spec.ts:471-545 delivers without any permit, which the
  gate refuses.
- Quotations and RFQs. A change of status that overlaps an added detail detaches
  it from its quotation; one that overlaps another overwrites it; details that
  were deleted are detached by the next change of status; the supplier's price of an RFQ line can
  be changed in Draft only, although FRONTEND-HANDOFF.md:456 says it is captured
  once received.
- Purchasing. Supplier returns are compared with all that was received, so
  several can send back more than came in; a receipt whose lines belong to other
  orders makes a Sent order partially received; a purchase order can be cancelled
  when partially received (CHANGELOG.md:131 says Draft or Sent); a receipt inserts
  a supplier's price when it has none, and does not update it (CHANGELOG.md:141
  says upsert); returns can deadlock with receipts and with each other.
- Finance and numbers. Each invoice of an order bills all that was delivered so
  far (ERP-MASTER-PLAN.md:209 says at most one per order); a negative quantity on
  a manual line is no credit; two first creations of a scope can receive the same
  number (one of them then fails).
- Catalogue. A stale edit of an item restores the units sold, so that later
  returns are refused, or the deleted item; a stale PUT of an alert
  configuration restores an old stamp and an evaluation old settings; an alert
  whose users could not be told is not repeated for the quiet period;
  reservations and deliveries evaluate no alert; the digest compares with the
  threshold of the item, not with the configured one that its comment calls
  effective (stock-alerts.service.ts:49), and leaves out items without stock
  rows, which the page of low items shows.

### Fairness

`Procurement`: each request has strong fairness on its own
steps: Postgres grants a row lock first come, first served, and a handler whose
statement has returned goes on. The deadlock detector is weakly fair, because
Postgres runs it after `deadlock_timeout`. Nothing is assumed of requests
arriving or of rollbacks. `RequestsEnd` says that every receipt and return ends;
it would fail without the detector, since circular waits are reachable.

No other module assumes any fairness.

## 4. Proofs

All are safety; the constants are arbitrary up to the named assumptions of the
modules, in particular the numbers of requests, orders, lines, documents,
locations, recipients, clients and invoices, and the quantities. Each module has
an inductive invariant (defined in the component, checked by TLC first), one
lemma per handler that it is kept, and the properties that follow from it.

- `SumTheorems`: the library's induction takes an operator, which the provers
  cannot instantiate. A family of subsets of a finite set has a minimal member
  (`MinimalSubset`, from the library's well-foundedness of strict inclusion), and
  a set of sets is something the provers do take: `FiniteInduction`. From it,
  that `SumFunctionOnSet` unfolds, and how sums change; `GreedyTotal` is what a
  loop that takes "what is there, until enough" takes in all.
- `FulfilmentProofs`: `IInv` is inductive (`Invariance`), so `TypeCorrect` and
  `StockNeverNegative`. Types alone are not inductive: a commit writes the
  request's copy of the rows, so the copies must be counts as well; a copy is
  decremented by units that `FromReserved` and `FromFree` chose, which the lemmas
  about the stock engine bound; and a step may only look at lines that its
  request has read (`RequestsWellFormed`). Then `DraftsHoldNothing` and
  `OneActiveOrder`: the second needs that an order which does not exist yet has
  no quotation (`SourceInv`) and the unique index at each step that makes an order
  active, the confirmation that revives a cancelled one included.
  `UnitsAreConserved` also holds for any overlap: `BooksInv` says that stock rows
  are locked by one request at a time and that the copy of a locked row with what
  was taken from it makes up the committed row (`CopyFits`), so what a commit
  writes and what it records as shipped are the same units.
  The second half of the module is what holds of one request at a time, the specification
  `SerialSpec` of the runs whose `Requests` has one element. What a request has
  read then stays so until it ends (`ReadIsSo`), and `LineBooks` says line by line
  what the properties say of sums: `DeliveriesAddUp`, `CompleteOrdersClose` (sums
  of smaller numbers are equal only if the numbers are: `SumTight`), and the
  refinement `OrdersLiveAsPromised`. To an order a step does one of four things
  (`Idles`, `Opens`, `Becomes`, `Gets`); each is a step of `OrderLifecycle`.
  Without deliveries (`SerialDeskSpec`, whose states are those of the run
  `FulfilmentDesk`) the reservations add up too: `DeskInv` says of each order that
  it holds at most what is outstanding and that its flags tell the truth
  (`BooksOf`), and of a confirmation under way that its copy of the locked rows is
  the table's plus what it holds, and that what it holds falls short of what its
  loop has passed exactly when it has flagged a line (`HoldsSo`). Then
  `ReservedUnitsAreHeld`, `HoldingsStayOutstanding`, `FlagsTellTheTruth` and, from
  these and the closing of complete orders, `OverOrdersHoldNothing`.
- `ArithmeticProofs`: a behaviour of `Arithmetic` is one call, and `IInv` says that
  `call` holds what the function returned for inputs that stay, so the properties are
  about functions. For the loops: a fold that takes the last element of a finite set
  last is a function of the elements visited (`Visits`; unique and existing by minimal
  subsets), so a fact kept from one visit to the next holds at the end
  (`LoopInduction`). The fact is that what a loop has taken is `Taken`: at each
  location what the quantity leaves after the locations before it. The predicates of
  `StockEngine` admit this one allocation (`GreedyIs`); hence `ReserveIsGreedy`. For
  `DeliverIsGreedy` the second loop starts from the rows that the first has changed,
  and needs that free units are the same there; a first loop that throws stops both.
  For money: `Rounded` is within half a cent (`RoundedIs`), a share of an amount grows
  with it and no faster (`ShareGrows`), and shares of amounts that cancel, cancel up to
  a cent (`SharesCancel`). A grand total is a sum of lines with two such shares, so
  lines that are a cent apart make totals two cents a line apart (`SumWithin`,
  `TotalsWithin`, `TotalsCancel`); with what rounding does to one line (`QuotedLine`,
  `CreditedLine`) this is `MoneyIsConsistent`. Products are named before they are
  compared, since the provers reason about sums and not about products of unknowns.
- `NumberingProofs`: `NumberingInv` says that the documents are exactly the
  numbers up to the top of the sequence and what each creation has received
  relative to it; then `SequenceNeverBehind` and `FoundNumbersFresh`.
- `DocumentProofs`: `DocumentsInv` says what a request that has read headers and
  rows may still suppose of them when it writes, with or without an overlap
  (`raced`). Then `NoLineIsLost`, `NothingLeavesUncleared`,
  `PermitsStayWithinOrder` (a sum over the rows) and the action property
  `OffersStand`.
- `CatalogueProofs`: `CatalogueInv` says what an edit or an evaluation carries
  (`Carries`), that it is fresh unless something was saved meanwhile (`FreshRow`,
  `FreshConfig`), that one evaluation at a time tells the users of an alert
  (`OneAlert`), how old the last stamp and what was told are (`AgesAreTold`), and
  who still has to look at a low item (`LowIsSeen`). Then `RowTellsTruth`,
  `LowItemsAreTold` and the action property `AlertsAreQuiet`.
- `ProcurementProofs`: `ProcurementInv` says that row locks have one holder and
  that what a receipt or return has read of a locked row is still so. Then
  `ReceiptsAddUp`, `StatusFollowsReceipts`, `PricesAreAddedOnce`,
  `StockIsTheBalance` (sums over orders) and `ReceiptsWaitForOne`: a circle of
  waits would need receipts to hold and wait for the same kind of row.
- `FinanceProofs`: `FinanceInv` says that locked invoices have one holder and
  that what a payment has read of them is still so; then `NoDoubleAllocation`,
  `StatusIsRight`, the action property `PaymentsAreOldestFirst`, `NoMoneyIsLost`
  and the refinement `AccountsAreKept`: each step of `Finance` is a step of
  `Receivables` or leaves the client's account alone.

Only model-checked is liveness (`RequestsEnd`), which is beyond the prover: every invariant and action property of a passing run, and both
refinements, are stated by a theorem. Each theorem is about the specification and
the constants of its module; what the runs bound by constants (`MaxUnits`,
`MaxQty`, `LineCount`, prices, percentages up to 100, ...) is there a parameter.

## 5. What could come next

The lock order of fulfilment: item by item and order row, as `Procurement` has it
for receipts and returns.

## 6. Not modelled

The gateway, audit log, uploads, reports and dashboard (with the margin of an
order) put out or record, and nothing that decides reads them; the same holds of
the inbox of notifications, of which only the rows that an alert writes are
modelled, and of the e-mail texts and PDFs. Brands, suppliers, locations, clients
and settings are edits of one row; photos of items are files and an order among
them. Users and authentication are outside the correctness of documents and
stock. Migrations and configuration appear as the constraints that the services
rely on. Searches, pages and filters are queries.
`consumeReserved` and `deliverReserved` of the stock engine are called by nothing
but their tests.
