----------------------------- MODULE ErpTables -----------------------------
(***************************************************************************)
(* The tables that selling shares, and the private state of the requests   *)
(* being served.                                                           *)
(*                                                                         *)
(* Every handler runs in one Postgres transaction at READ COMMITTED:       *)
(*   - an unlocked read sees what is committed when that statement runs;   *)
(*   - SELECT ... FOR UPDATE on the stock rows of an item waits until no   *)
(*     other transaction holds them, reads the committed rows, and keeps   *)
(*     them until commit or rollback;                                      *)
(*   - the writes of a transaction appear together when it commits.        *)
(* So a request is a process that reads into its own variables (seen,      *)
(* held), works on a copy of the stock rows it has locked (work), and      *)
(* writes the tables in the step that commits it.                          *)
(***************************************************************************)
EXTENDS StockEngine

CONSTANTS
    Items,        \* stocked articles
    Orders,       \* sales order ids
    Lines,        \* sales order line ids
    Quotations,   \* quotation ids
    Requests,     \* requests the server works on at the same time
    NoOrder, NoItem, NoQuotation,
    MaxOnHand,    \* bound: most units of an item one location ever holds
    MaxSold,      \* bound: largest lifetime counter qtySold of an item
    PermitSums,   \* sums of released permit quantities a line may have
    OpeningStock, \* units on hand before the first request
    QueriesAsMeant \* whether queries give the handlers what they go on to use

ASSUME NoValueAssumption ==
    NoOrder \notin Orders /\ NoItem \notin Items /\ NoQuotation \notin Quotations
ASSUME TablesAssumption == IsFiniteSet(Orders) /\ IsFiniteSet(Lines)
ASSUME BoundAssumption ==
    /\ MaxOnHand \in Nat /\ MaxSold \in Nat
    /\ PermitSums \subseteq Nat
    /\ OpeningStock \in [Items -> [Locations -> Nat]]

(* FALSE is the code as it is: TypeORM loads a relation only if the query   *)
(* names it (none is eager), and Postgres refuses FOR UPDATE on a query     *)
(* with a left join. Handlers that need the one or the other then throw.    *)
(* TRUE is what the lines that follow those queries, and the end-to-end     *)
(* tests, suppose.                                                          *)
ASSUME QueriesAssumption == QueriesAsMeant \in BOOLEAN

OrderStatus == {"None", "Draft", "Confirmed", "Delivered", "Closed", "Cancelled"}
QuotationStatus ==
    {"Draft", "Sent", "Approved", "Rejected", "Cancelled", "Expired", "Converted"}

LineRow == [order : Orders, item : Items, qty : Nat, delivered : Nat, shortage : BOOLEAN]
NoLine == [order |-> NoOrder, item |-> NoItem, qty |-> 0, delivered |-> 0, shortage |-> FALSE]
LineTable == [Lines -> LineRow \cup {NoLine}]
EmptyLines == [l \in Lines |-> NoLine]
NewLine(o, i, n) == [order |-> o, item |-> i, qty |-> n, delivered |-> 0, shortage |-> FALSE]

VARIABLES
    stock,      \* item_stocks: [Items -> [Locations -> Row]]
    qtySold,    \* items.qty_sold
    status,     \* sales_orders.status ("None": no such order yet)
    source,     \* sales_orders.quotation_id
    line,       \* sales_order_lines
    resv,       \* reservations: units per order, item, location (0: no row)
    quote,      \* quotations.status
    shipped,    \* units of the delivery_lines and of the order-linked Sale rows,
                \* per order, item and order line
    moved,      \* net units of the other transactions rows, per item
    permitted,  \* per line, units on Released permits
    pc,         \* where a request is (a quotation status: about to write it)
    target,     \* the order or quotation a request works on
    seen,       \* the lines it has read
    todo,       \* the lines its loop has not reached
    asked,      \* the quantities a delivery asks for
    locks,      \* the items whose stock rows it has locked
    work,       \* its copy of the stock, meaningful for locked items
    held        \* confirm: what it reserved; cancel: the reservations it read

orderTables == <<status, source, line, resv, quote>>
stockTables == <<stock, qtySold, shipped, moved>>
requestVars == <<pc, target, seen, todo, asked, locks, work, held>>
vars == <<orderTables, stockTables, permitted, requestVars>>

Held == [Items -> Quantities]
NothingHeld == [i \in Items |-> NoQuantities]
EmptyStock == [i \in Items |-> [l \in Locations |-> EmptyRow]]
NothingAsked == [l \in Lines |-> 0]

Step == {"idle", "addLine", "updateLine", "removeLine", "intake",
         "confirm", "reserve", "convert", "keep", "cancel", "release",
         "deliver", "permits", "handover"} \cup QuotationStatus

StockTypeOK ==
    /\ stock \in [Items -> Rows]
    /\ qtySold \in [Items -> Nat]
    /\ shipped \in [Orders -> [Items -> [Lines -> Nat]]]
    /\ moved \in [Items -> Int]
    /\ permitted \in [Lines -> Nat]

OrderTypeOK ==
    /\ status \in [Orders -> OrderStatus]
    /\ source \in [Orders -> Quotations \cup {NoQuotation}]
    /\ line \in LineTable
    /\ resv \in [Orders -> Held]
    /\ quote \in [Quotations -> QuotationStatus]

RequestTypeOK ==
    /\ pc \in [Requests -> Step]
    /\ target \in [Requests -> Orders \cup {NoOrder} \cup Quotations]
    /\ seen \in [Requests -> LineTable]
    /\ todo \in [Requests -> SUBSET Lines]
    /\ asked \in [Requests -> [Lines -> Nat]]
    /\ locks \in [Requests -> SUBSET Items]
    /\ work \in [Requests -> [Items -> Rows]]
    /\ held \in [Requests -> Held]

(* The tables hold what their columns may hold, and a request's variables   *)
(* what its handler may put there; in particular no counter that the schema *)
(* means to be a count (qty_sold, line and reservation quantities) is ever  *)
(* negative.                                                                *)
TypeOK == StockTypeOK /\ OrderTypeOK /\ RequestTypeOK

Init ==
    /\ stock = [i \in Items |-> [l \in Locations |->
                    [onHand |-> OpeningStock[i][l], reserved |-> 0]]]
    /\ qtySold = [i \in Items |-> 0]
    /\ status = [o \in Orders |-> "None"]
    /\ source = [o \in Orders |-> NoQuotation]
    /\ line = EmptyLines
    /\ resv = [o \in Orders |-> NothingHeld]
    /\ quote = [q \in Quotations |-> "Draft"]
    /\ shipped = [o \in Orders |-> [i \in Items |-> NothingAsked]]
    /\ moved = [i \in Items |-> 0]
    /\ permitted \in [Lines -> PermitSums]
    /\ pc = [r \in Requests |-> "idle"]
    /\ target = [r \in Requests |-> NoOrder]
    /\ seen = [r \in Requests |-> EmptyLines]
    /\ todo = [r \in Requests |-> {}]
    /\ asked = [r \in Requests |-> NothingAsked]
    /\ locks = [r \in Requests |-> {}]
    /\ work = [r \in Requests |-> EmptyStock]
    /\ held = [r \in Requests |-> NothingHeld]

-----------------------------------------------------------------------------
LinesOf(table, o) == {l \in Lines : table[l].order = o}
Present(table) == {l \in Lines : table[l] # NoLine}
ItemsOf(table, S) == {table[l].item : l \in S}
LinesRead(o) == [l \in Lines |-> IF line[l].order = o THEN line[l] ELSE NoLine]

(* FOR UPDATE on the stock rows of the items S, for request r. *)
Unlocked(S) == \A r \in Requests : locks[r] \cap S = {}

(* manager.save of the line entities a request holds: whole rows.           *)
Saved(table, rows) == [l \in Lines |-> IF rows[l] # NoLine THEN rows[l] ELSE table[l]]

(* What saving the lines S and then their order demands. A line is read     *)
(* without its order, so one that was removed meanwhile cannot be inserted  *)
(* again; and saving an order detaches the lines that it was read without,  *)
(* which their NOT NULL column refuses.                                     *)
Savable(r, S) ==
    /\ S \subseteq Present(line)
    /\ LinesOf(line, target[r]) \subseteq Present(seen[r])

(* row.item.id and row.location.id are read off each stock row of the items *)
(* S, with no join in the query that found them. As long as no stock has    *)
(* changed, the items with rows are those created with an initial quantity. *)
Stocked(i) == \E l \in Locations : stock[i][l] # EmptyRow
RowsReadable(S) == QueriesAsMeant \/ \A i \in S : ~Stocked(i)

(* Writes the copy of the rows of the locked items back. *)
WorkOf(r) == [i \in Items |-> IF i \in locks[r] THEN work[r][i] ELSE stock[i]]

(* order.status = s, written by save(order) at the end of a handler. *)
\* Mutant: the save is forgotten.
BecameUnsaved(o, s) == status
Became(o, s) == [status EXCEPT ![o] = s]

(* order.lines.every(qty <= qtyDelivered) for a non-empty set of lines S. *)
\* Mutant: some for every.
AnyDelivered(table, S) == \E l \in S : table[l].qty <= table[l].delivered
AllDelivered(table, S) == S # {} /\ \A l \in S : table[l].qty <= table[l].delivered

(* UQ_sales_orders_active_quotation: no other order of o's quotation is     *)
(* active.                                                                  *)
\* Mutant: without the unique index.
NoIndex(o) == TRUE
SoleActive(o) ==
    \A other \in Orders \ {o} :
        (source[other] = source[o] /\ source[o] # NoQuotation)
            => status[other] \in {"None", "Cancelled"}

(* A request is over: committed, refused or rolled back. *)
Finish(r) ==
    /\ pc' = [pc EXCEPT ![r] = "idle"]
    /\ target' = [target EXCEPT ![r] = NoOrder]
    /\ seen' = [seen EXCEPT ![r] = EmptyLines]
    /\ todo' = [todo EXCEPT ![r] = {}]
    /\ asked' = [asked EXCEPT ![r] = NothingAsked]
    /\ locks' = [locks EXCEPT ![r] = {}]
    /\ work' = [work EXCEPT ![r] = EmptyStock]
    /\ held' = [held EXCEPT ![r] = NothingHeld]

(* Locks the stock rows of items and copies them. *)
TakeLocks(r, items) ==
    /\ Unlocked(items)
    /\ locks' = [locks EXCEPT ![r] = items]
    /\ work' = [work EXCEPT ![r] = [i \in Items |-> IF i \in items THEN stock[i]
                                                    ELSE EmptyStock[i]]]
=============================================================================
