---------------------------- MODULE Procurement ----------------------------
(***************************************************************************)
(* PurchaseOrdersService (src/src/purchase-orders/                          *)
(* purchase-orders.service.ts): purchase orders, goods receipts and returns *)
(* to the supplier, and the row locks that they take one after the other:   *)
(* the purchase order, for a receipt the row of the receipt numbers, and    *)
(* the items line by line, each with its stock rows (recordInternal-        *)
(* Adjustment). All are kept until the transaction ends.                    *)
(*                                                                         *)
(* A purchase order has at most one line per item, so lines are named by    *)
(* their items, and ordered = 0 is a missing line: a line of quantity zero  *)
(* (a suggestion for an item whose threshold is zero) behaves like none.    *)
(* The stock of an item is one number, at one location.                     *)
(***************************************************************************)
EXTENDS Integers, FiniteSets, Functions

CONSTANTS
    Items, NoItem,
    Suppliers, NoSupplier,
    PurchaseOrders, NoPurchaseOrder,
    Requests, NoRequest,
    BrandSupplier,   \* the supplier of each item's brand
    Threshold,       \* the low-stock threshold of each item
    MaxQty,          \* bound: the largest quantity of a line
    OpeningStock,    \* bound: units of each item at the start
    MaxOther,        \* bound: most units that the rest of the shop takes out
    QueriesAsMeant   \* as in ErpTables: FALSE, and no receipt gets its order

ASSUME ProcurementAssumption ==
    /\ BrandSupplier \in [Items -> Suppliers \cup {NoSupplier}]
    /\ Threshold \in [Items -> Nat]
    /\ MaxQty \in Nat \ {0} /\ OpeningStock \in Nat /\ MaxOther \in Nat
    /\ IsFiniteSet(PurchaseOrders)
    /\ NoItem \notin Items /\ NoSupplier \notin Suppliers
    /\ NoPurchaseOrder \notin PurchaseOrders /\ NoRequest \notin Requests
    /\ QueriesAsMeant \in BOOLEAN

PurchaseOrderStatus ==
    {"Draft", "Sent", "PartiallyReceived", "Received", "Closed", "Cancelled"}

VARIABLES
    status,     \* purchase_orders.status ("None": no such order yet)
    supplier,   \* purchase_orders.supplier_id
    ordered,    \* purchase_order_lines.qty, per order and item
    received,   \* purchase_order_lines.received_qty
    receipted,  \* units on the order's goods_receipt_lines
    returned,   \* units of the order's SupplierReturn transactions
    onHand,     \* item_stocks.qty_on_hand
    other,      \* net units of all other transactions
    price,      \* number of supplier_price_lists rows, per supplier and item
    pc,         \* where a request is
    order,      \* the purchase order that it has locked
    ask,        \* the quantities it is asked to receive or return
    seen,       \* received_qty as it has read them
    todo,       \* the items it has not locked yet
    next,       \* the item whose lock it is waiting for
    copy,       \* the stock it has read under the locks
    fresh,      \* the items it adds a price for
    numberer    \* the request that has the row of the receipt numbers locked

tables == <<status, supplier, ordered, received, receipted, returned, onHand, other, price>>
private == <<pc, order, ask, seen, todo, next, copy, fresh>>
vars == <<tables, private, numberer>>

Counts == [Items -> Nat]
Nothing == [i \in Items |-> 0]

TablesTypeOK ==
    /\ status \in [PurchaseOrders -> PurchaseOrderStatus \cup {"None"}]
    /\ supplier \in [PurchaseOrders -> Suppliers \cup {NoSupplier}]
    /\ ordered \in [PurchaseOrders -> Counts]
    /\ received \in [PurchaseOrders -> Counts]
    /\ receipted \in [PurchaseOrders -> Counts]
    /\ returned \in [PurchaseOrders -> Counts]
    /\ onHand \in Counts
    /\ other \in [Items -> Int]
    /\ price \in [Suppliers -> Counts]

RequestsTypeOK ==
    /\ pc \in [Requests -> {"idle", "number", "receive", "return"}]
    /\ order \in [Requests -> PurchaseOrders \cup {NoPurchaseOrder}]
    /\ ask \in [Requests -> Counts]
    /\ seen \in [Requests -> Counts]
    /\ todo \in [Requests -> SUBSET Items]
    /\ next \in [Requests -> Items \cup {NoItem}]
    /\ copy \in [Requests -> Counts]
    /\ fresh \in [Requests -> SUBSET Items]
    /\ numberer \in Requests \cup {NoRequest}

TypeOK == TablesTypeOK /\ RequestsTypeOK

Init ==
    /\ status = [po \in PurchaseOrders |-> "None"]
    /\ supplier = [po \in PurchaseOrders |-> NoSupplier]
    /\ ordered = [po \in PurchaseOrders |-> Nothing]
    /\ received = [po \in PurchaseOrders |-> Nothing]
    /\ receipted = [po \in PurchaseOrders |-> Nothing]
    /\ returned = [po \in PurchaseOrders |-> Nothing]
    /\ onHand = [i \in Items |-> OpeningStock]
    /\ other = [i \in Items |-> 0]
    /\ price = [s \in Suppliers |-> Nothing]
    /\ pc = [r \in Requests |-> "idle"]
    /\ order = [r \in Requests |-> NoPurchaseOrder]
    /\ ask = [r \in Requests |-> Nothing]
    /\ seen = [r \in Requests |-> Nothing]
    /\ todo = [r \in Requests |-> {}]
    /\ next = [r \in Requests |-> NoItem]
    /\ copy = [r \in Requests |-> Nothing]
    /\ fresh = [r \in Requests |-> {}]
    /\ numberer = NoRequest

-----------------------------------------------------------------------------
Asked(r) == {i \in Items : ask[r][i] > 0}
HeldItems(r) == Asked(r) \ todo[r]
OrderUnlocked(po) == \A r \in Requests : order[r] # po
ItemUnlocked(i) == \A r \in Requests : i \notin HeldItems(r)

\* Mutant: an order of which one line is complete counts as received.
SomeReceived(have, want) == \E i \in Items : want[i] > 0 /\ have[i] >= want[i]
AllReceived(have, want) == \A i \in Items : have[i] >= want[i]

\* Mutant: the row of the receipt numbers stays locked.
FinishKeepsNumber(r) ==
    /\ pc' = [pc EXCEPT ![r] = "idle"]
    /\ order' = [order EXCEPT ![r] = NoPurchaseOrder]
    /\ ask' = [ask EXCEPT ![r] = Nothing]
    /\ seen' = [seen EXCEPT ![r] = Nothing]
    /\ todo' = [todo EXCEPT ![r] = {}]
    /\ next' = [next EXCEPT ![r] = NoItem]
    /\ copy' = [copy EXCEPT ![r] = Nothing]
    /\ fresh' = [fresh EXCEPT ![r] = {}]
    /\ UNCHANGED numberer

(* The transaction ends and all its locks are released. *)
Finish(r) ==
    /\ pc' = [pc EXCEPT ![r] = "idle"]
    /\ order' = [order EXCEPT ![r] = NoPurchaseOrder]
    /\ ask' = [ask EXCEPT ![r] = Nothing]
    /\ seen' = [seen EXCEPT ![r] = Nothing]
    /\ todo' = [todo EXCEPT ![r] = {}]
    /\ next' = [next EXCEPT ![r] = NoItem]
    /\ copy' = [copy EXCEPT ![r] = Nothing]
    /\ fresh' = [fresh EXCEPT ![r] = {}]
    /\ numberer' = IF numberer = r THEN NoRequest ELSE numberer

-----------------------------------------------------------------------------
Create(po, s, lines) ==
    /\ status[po] = "None"
    /\ lines # Nothing
    /\ status' = [status EXCEPT ![po] = "Draft"]
    /\ supplier' = [supplier EXCEPT ![po] = s]
    /\ ordered' = [ordered EXCEPT ![po] = lines]
    /\ UNCHANGED <<received, receipted, returned, onHand, other, price, private, numberer>>

(* alertingRows: the items to reorder that have a supplier. Which items are *)
(* low depends on what is reserved too, so they may be any.                 *)
Suggestions == {S \in SUBSET Items : S # {} /\ \A i \in S : BrandSupplier[i] # NoSupplier}

(* createFromSuggestions: an order per supplier of the suggested items S    *)
(* (those that the request selects), for the threshold of each.             *)
CreateFromSuggestions(S) ==
    /\ S \in Suggestions
    /\ \E new \in Injection({BrandSupplier[i] : i \in S}, PurchaseOrders) :
          LET By(po) == {i \in S : new[BrandSupplier[i]] = po}
              Made == {po \in PurchaseOrders : By(po) # {}}
          IN  /\ \A po \in Made : status[po] = "None"
              /\ status' = [po \in PurchaseOrders |-> IF po \in Made THEN "Draft" ELSE status[po]]
              /\ supplier' = [po \in PurchaseOrders |->
                     IF po \in Made THEN CHOOSE s \in Suppliers : \A i \in By(po) : s = BrandSupplier[i]
                     ELSE supplier[po]]
              /\ ordered' = [po \in PurchaseOrders |-> [i \in Items |->
                     IF i \in By(po) THEN Threshold[i] ELSE ordered[po][i]]]
    /\ UNCHANGED <<received, receipted, returned, onHand, other, price, private, numberer>>

(* send, cancel, close. *)
Allowed ==
    { <<"Draft", "Sent">>,
      <<"Draft", "Cancelled">>, <<"Sent", "Cancelled">>, <<"PartiallyReceived", "Cancelled">>,
      <<"Received", "Closed">> }

Transition(po, to) ==
    /\ OrderUnlocked(po)
    /\ <<status[po], to>> \in Allowed
    /\ status' = [status EXCEPT ![po] = to]
    /\ UNCHANGED <<supplier, ordered, received, receipted, returned, onHand, other, price,
                   private, numberer>>

-----------------------------------------------------------------------------
(* receiveWithin: lock the order (loadLocked, with its lines joined to it), *)
(* check the quantities, which may all be zero (line ids of another order   *)
(* are ignored); ...                                                        *)
Start(r, po, qty, step) ==
    /\ QueriesAsMeant
    /\ pc' = [pc EXCEPT ![r] = step]
    /\ order' = [order EXCEPT ![r] = po]
    /\ ask' = [ask EXCEPT ![r] = qty]
    /\ seen' = [seen EXCEPT ![r] = received[po]]
    /\ todo' = [todo EXCEPT ![r] = {i \in Items : qty[i] > 0}]
    /\ UNCHANGED <<tables, next, copy, numberer>>

Receivable(po, qty) ==
    /\ status[po] \in {"Sent", "PartiallyReceived"}
    /\ \A i \in Items : qty[i] <= ordered[po][i] - received[po][i]

(* ensurePriceList: the supplier has no price of the item yet.              *)
Unpriced(po, i) == price[supplier[po]][i] = 0

\* Mutant: the order is read without FOR UPDATE.
ReceiveStartUnlocked(r, po, qty) ==
    /\ pc[r] = "idle"
    /\ Receivable(po, qty)
    /\ Start(r, po, qty, "number")
    /\ UNCHANGED fresh

\* Mutant: looks the prices up before it has the items.
ReceiveStartPricing(r, po, qty) ==
    /\ pc[r] = "idle"
    /\ OrderUnlocked(po)
    /\ Receivable(po, qty)
    /\ Start(r, po, qty, "number")
    /\ fresh' = [fresh EXCEPT ![r] = {i \in Items : qty[i] > 0 /\ Unpriced(po, i)}]

ReceiveStart(r, po, qty) ==
    /\ pc[r] = "idle"
    /\ OrderUnlocked(po)
    /\ Receivable(po, qty)
    /\ Start(r, po, qty, "number")
    /\ UNCHANGED fresh

(* ... lock the receipt numbers; ...                                        *)
\* Mutant: the number is not drawn under a lock.
ReceiveNumberUnlocked(r) ==
    /\ pc[r] = "number"
    /\ pc' = [pc EXCEPT ![r] = "receive"]
    /\ UNCHANGED <<tables, order, ask, seen, todo, next, copy, fresh, numberer>>

ReceiveNumber(r) ==
    /\ pc[r] = "number"
    /\ numberer = NoRequest
    /\ numberer' = r
    /\ pc' = [pc EXCEPT ![r] = "receive"]
    /\ UNCHANGED <<tables, order, ask, seen, todo, next, copy, fresh>>

(* ... line by line, in the order in which the database returned them, ask  *)
(* for the item and, when nobody else has it, read its stock and look for a *)
(* price of it; ...                                                         *)
NextLine(r, i) ==
    /\ pc[r] \in {"receive", "return"}
    /\ next[r] = NoItem
    /\ i \in todo[r]
    /\ next' = [next EXCEPT ![r] = i]
    /\ UNCHANGED <<tables, pc, order, ask, seen, todo, copy, fresh, numberer>>

\* Mutant: the item is read without FOR UPDATE.
LockItemWithoutWaiting(r) ==
    LET i == next[r] IN
    /\ i # NoItem
    /\ todo' = [todo EXCEPT ![r] = @ \ {i}]
    /\ next' = [next EXCEPT ![r] = NoItem]
    /\ copy' = [copy EXCEPT ![r][i] = onHand[i]]
    /\ fresh' = [fresh EXCEPT ![r] =
           IF pc[r] = "receive" /\ Unpriced(order[r], i) THEN @ \cup {i} ELSE @]
    /\ UNCHANGED <<tables, pc, order, ask, seen, numberer>>

LockItem(r) ==
    LET i == next[r] IN
    /\ i # NoItem
    /\ ItemUnlocked(i)
    /\ todo' = [todo EXCEPT ![r] = @ \ {i}]
    /\ next' = [next EXCEPT ![r] = NoItem]
    /\ copy' = [copy EXCEPT ![r][i] = onHand[i]]
    /\ fresh' = [fresh EXCEPT ![r] =
           IF pc[r] = "receive" /\ Unpriced(order[r], i) THEN @ \cup {i} ELSE @]
    /\ UNCHANGED <<tables, pc, order, ask, seen, numberer>>

(* ... and commit stock, lines, receipt, prices and status.                 *)
ReceiveCommit(r) ==
    LET po == order[r]
        have == [i \in Items |-> seen[r][i] + ask[r][i]]
    IN  /\ pc[r] = "receive"
        /\ todo[r] = {}
        /\ onHand' = [i \in Items |-> IF ask[r][i] > 0 THEN copy[r][i] + ask[r][i] ELSE onHand[i]]
        /\ received' = [received EXCEPT ![po] = have]
        /\ receipted' = [receipted EXCEPT ![po] = [i \in Items |-> @[i] + ask[r][i]]]
        /\ price' = [price EXCEPT ![supplier[po]] =
               [i \in Items |-> @[i] + IF i \in fresh[r] THEN 1 ELSE 0]]
        /\ status' = [status EXCEPT ![po] =
               IF AllReceived(have, ordered[po]) THEN "Received" ELSE "PartiallyReceived"]
        /\ Finish(r)
        /\ UNCHANGED <<supplier, ordered, returned, other>>

-----------------------------------------------------------------------------
(* returnWithin: each quantity is compared with all that was received, not  *)
(* with what an earlier return has left of it.                              *)
ReturnStart(r, po, qty) ==
    /\ pc[r] = "idle"
    /\ OrderUnlocked(po)
    /\ status[po] \in {"Sent", "PartiallyReceived", "Received"}
    /\ qty # Nothing
    /\ \A i \in Items : qty[i] <= received[po][i]
    /\ Start(r, po, qty, "return")
    /\ UNCHANGED fresh

\* Mutant: off by one.
EnoughOffByOne(r) == \A i \in HeldItems(r) : copy[r][i] + 1 >= ask[r][i]
Enough(r) == \A i \in HeldItems(r) : copy[r][i] >= ask[r][i]

ReturnCommit(r) ==
    LET po == order[r] IN
    /\ pc[r] = "return"
    /\ todo[r] = {}
    /\ Enough(r)
    /\ onHand' = [i \in Items |-> IF ask[r][i] > 0 THEN copy[r][i] - ask[r][i] ELSE onHand[i]]
    /\ returned' = [returned EXCEPT ![po] = [i \in Items |-> @[i] + ask[r][i]]]
    /\ Finish(r)
    /\ UNCHANGED <<status, supplier, ordered, received, receipted, other, price>>

ReturnRefused(r) ==
    /\ pc[r] = "return"
    /\ ~Enough(r)
    /\ Finish(r)
    /\ UNCHANGED tables

-----------------------------------------------------------------------------
(* A move of the rest of the shop: it locks the item and its stock rows. *)
OtherMove(i, n) ==
    /\ QueriesAsMeant
    /\ ItemUnlocked(i)
    /\ onHand[i] + n >= 0
    /\ other[i] + n \in -MaxOther..0
    /\ onHand' = [onHand EXCEPT ![i] = @ + n]
    /\ other' = [other EXCEPT ![i] = @ + n]
    /\ UNCHANGED <<status, supplier, ordered, received, receipted, returned, price,
                   private, numberer>>

(* r waits for a row that s has locked. *)
WaitsFor(r, s) ==
    /\ r # s
    /\ \/ next[r] \in HeldItems(s)
       \/ pc[r] = "number" /\ numberer = s

(* Each of the requests S waits for another one of them. *)
Deadlocked(S) == S # {} /\ \A r \in S : \E s \in S : WaitsFor(r, s)

(* The database rolls back one of the requests that wait for each other.    *)
Victim(r) ==
    /\ \E S \in SUBSET Requests : r \in S /\ Deadlocked(S)
    /\ Finish(r)
    /\ UNCHANGED tables

(* An exception, a lost connection or a crash before the commit.            *)
Rollback(r) ==
    /\ pc[r] # "idle"
    /\ Finish(r)
    /\ UNCHANGED tables

Proceed(r) ==
    \/ ReceiveNumber(r)
    \/ \E i \in Items : NextLine(r, i)
    \/ LockItem(r)
    \/ ReceiveCommit(r) \/ ReturnCommit(r) \/ ReturnRefused(r)

Next ==
    \/ \E po \in PurchaseOrders, s \in Suppliers, lines \in [Items -> 0..MaxQty] : Create(po, s, lines)
    \/ \E S \in SUBSET Items : CreateFromSuggestions(S)
    \/ \E po \in PurchaseOrders, to \in PurchaseOrderStatus : Transition(po, to)
    \/ \E r \in Requests, po \in PurchaseOrders, qty \in [Items -> 0..MaxQty] :
          ReceiveStart(r, po, qty) \/ ReturnStart(r, po, qty)
    \/ \E r \in Requests : Proceed(r) \/ Victim(r) \/ Rollback(r)
    \/ \E i \in Items, n \in {-1, 1} : OtherMove(i, n)

(* Row locks are granted first come, first served, statements are executed, *)
(* and the detector runs whenever a request has waited for a second.        *)
Spec ==
    /\ Init /\ [][Next]_vars
    /\ \A r \in Requests : SF_vars(Proceed(r))
    /\ WF_vars(\E r \in Requests : Victim(r))

-----------------------------------------------------------------------------
(* A line's received_qty is what the goods receipts of the order say of its *)
(* item and never more than was ordered, although receipts of one order     *)
(* overlap: over-receipt is blocked by a check on a row that is locked.     *)
ReceivedIsReceipted ==
    \A po \in PurchaseOrders, i \in Items :
        received[po][i] = receipted[po][i] /\ received[po][i] <= ordered[po][i]

(* Every unit on hand is accounted for by receipts, returns and the other   *)
(* moves, although requests read the stock of one item while they wait for  *)
(* that of another.                                                         *)
Summed(f) == SumFunctionOnSet(f, PurchaseOrders)
GoodsBalance ==
    \A i \in Items :
        onHand[i] = OpeningStock + other[i]
                    + Summed([po \in PurchaseOrders |-> receipted[po][i]])
                    - Summed([po \in PurchaseOrders |-> returned[po][i]])

(* The status follows the receipts: Received and Closed orders have all     *)
(* their goods, a PartiallyReceived or Sent one that asks for something     *)
(* still lacks some, and a Draft has received nothing.                      *)
StatusFromReceipts ==
    \A po \in PurchaseOrders :
        /\ status[po] \in {"Received", "Closed"} => received[po] = ordered[po]
        /\ status[po] = "PartiallyReceived" => \E i \in Items : received[po][i] < ordered[po][i]
        /\ status[po] \in {"None", "Draft", "Sent"} => received[po] = Nothing

(* A supplier has at most one price of an item from receipts ("populated on *)
(* receipt if absent"), although the look-up takes no lock of its own.      *)
OnePricePerItem == \A s \in Suppliers, i \in Items : price[s][i] <= 1

(* Two goods receipts never wait for each other, in whatever order their    *)
(* lines are: the row of the receipt numbers lets one at a time to the      *)
(* items.                                                                   *)
ReceiptsDoNotDeadlock ==
    \A S \in SUBSET {r \in Requests : pc[r] \in {"number", "receive"}} : ~Deadlocked(S)

-----------------------------------------------------------------------------
(* The inductive invariant of ProcurementProofs. What a request has read of *)
(* its order and of the items it has locked is still so, the checks it made *)
(* of that hold, and the item it waits for is one that it still has to do.  *)
Working(r) ==
    /\ todo[r] \subseteq Asked(r) /\ next[r] \in todo[r] \cup {NoItem}
    /\ pc[r] = "idle" => order[r] = NoPurchaseOrder /\ Asked(r) = {}
    /\ pc[r] # "idle" => order[r] \in PurchaseOrders /\ seen[r] = received[order[r]]
                        /\ status[order[r]] # "None"
    /\ pc[r] = "number" => HeldItems(r) = {} /\ next[r] = NoItem
    /\ pc[r] \in {"number", "receive"} =>
          /\ status[order[r]] \in {"Sent", "PartiallyReceived"}
          /\ \A i \in Items : ask[r][i] <= ordered[order[r]][i] - seen[r][i]
    /\ pc[r] = "receive" <=> numberer = r
    /\ pc[r] # "receive" => fresh[r] = {}
    /\ \A i \in fresh[r] : i \in HeldItems(r) /\ Unpriced(order[r], i)
    /\ \A i \in HeldItems(r) : copy[r][i] = onHand[i]

(* Nobody else has the order or an item that a request has locked.          *)
LocksExclusive ==
    \A r, s \in Requests : r # s =>
        HeldItems(r) \cap HeldItems(s) = {} /\ (pc[r] = "idle" \/ order[r] # order[s])

OrdersFit ==
    \A po \in PurchaseOrders :
        IF status[po] = "None" THEN ordered[po] = Nothing ELSE supplier[po] \in Suppliers

ProcurementInv ==
    /\ TypeOK /\ OrdersFit /\ LocksExclusive
    /\ \A r \in Requests : Working(r)
    /\ ReceivedIsReceipted /\ StatusFromReceipts /\ OnePricePerItem /\ GoodsBalance

-----------------------------------------------------------------------------
(* Every receipt and every return ends, although they may wait in a circle. *)
RequestsEnd == \A r \in Requests : pc[r] # "idle" ~> pc[r] = "idle"
=============================================================================
