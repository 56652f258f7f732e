---------------------------- MODULE SalesOrders ----------------------------
(***************************************************************************)
(* SalesOrdersService (src/src/sales-orders/sales-orders.service.ts): the   *)
(* order, its lines, its confirmation and its cancellation. A handler that  *)
(* reads without a lock and writes later is split at that point, so that    *)
(* every other request can commit in between.                               *)
(*                                                                         *)
(* consumeReservedForOrder takes the order row FOR UPDATE before it reads   *)
(* and keeps it until the sale commits. A confirmation or cancellation      *)
(* updates that row before it commits, and a delivery, which inserts a row  *)
(* that references it, needs a key-share lock on it: none of them commits   *)
(* while the sale runs, so the handler is one step.                         *)
(***************************************************************************)
EXTENDS ErpTables

(* create: an empty Draft order. *)
CreateOrder(o) ==
    /\ status[o] = "None"
    /\ status' = [status EXCEPT ![o] = "Draft"]
    /\ UNCHANGED <<source, line, resv, quote, stockTables, permitted, requestVars>>

(* createFromQuotation reads the Approved quotation ...                    *)
IntakeRead(r, q) ==
    /\ pc[r] = "idle"
    /\ quote[q] = "Approved"
    /\ pc' = [pc EXCEPT ![r] = "intake"]
    /\ target' = [target EXCEPT ![r] = q]
    /\ UNCHANGED <<orderTables, stockTables, permitted, seen, todo, asked, locks, work, held>>

(* ... and inserts a Draft order o with a line for each of its details,     *)
(* unless the quotation has a Draft order already (returned as it is). The  *)
(* unique index refuses a second active order.                              *)
IntakeInsert(r, o, S) ==
    LET q == target[r]
    IN  /\ pc[r] = "intake"
        /\ status[o] = "None"
        /\ S \cap Present(line) = {}
        /\ \A p \in Requests : S \cap Present(seen[p]) = {}
        /\ \A other \in Orders :
              source[other] = q => status[other] \in {"None", "Cancelled"}
        /\ status' = [status EXCEPT ![o] = "Draft"]
        /\ source' = [source EXCEPT ![o] = q]
        /\ \E item \in [S -> Items], qty \in [S -> 1..MaxQty] :
              line' = [l \in Lines |-> IF l \in S THEN NewLine(o, item[l], qty[l]) ELSE line[l]]
        /\ Finish(r)
        /\ UNCHANGED <<resv, quote, stockTables, permitted>>

IntakeExisting(r) ==
    /\ pc[r] = "intake"
    /\ \E other \in Orders : source[other] = target[r] /\ status[other] \notin {"None", "Cancelled"}
    /\ Finish(r)
    /\ UNCHANGED <<orderTables, stockTables, permitted>>

-----------------------------------------------------------------------------
(* addLine, updateLine, removeLine: the Draft check reads without a lock.   *)

AddLineRead(r, o) ==
    /\ pc[r] = "idle"
    /\ status[o] = "Draft"
    /\ pc' = [pc EXCEPT ![r] = "addLine"]
    /\ target' = [target EXCEPT ![r] = o]
    /\ UNCHANGED <<orderTables, stockTables, permitted, seen, todo, asked, locks, work, held>>

(* Line ids are never given twice, so a new id is one no request has read.  *)
AddLineInsert(r, l, i, n) ==
    /\ pc[r] = "addLine"
    /\ line[l] = NoLine
    /\ \A p \in Requests : seen[p][l] = NoLine
    /\ line' = [line EXCEPT ![l] = NewLine(target[r], i, n)]
    /\ Finish(r)
    /\ UNCHANGED <<status, source, resv, quote, stockTables, permitted>>

EditRead(r, l, edit) ==
    /\ pc[r] = "idle"
    /\ edit \in {"updateLine", "removeLine"}
    /\ line[l] # NoLine
    /\ status[line[l].order] = "Draft"
    /\ pc' = [pc EXCEPT ![r] = edit]
    /\ target' = [target EXCEPT ![r] = line[l].order]
    /\ seen' = [seen EXCEPT ![r] = [EmptyLines EXCEPT ![l] = line[l]]]
    /\ UNCHANGED <<orderTables, stockTables, permitted, todo, asked, locks, work, held>>

UpdateLineSave(r, l, i, n) ==
    /\ pc[r] = "updateLine"
    /\ seen[r][l] # NoLine
    /\ line' = [line EXCEPT ![l] = [seen[r][l] EXCEPT !.item = i, !.qty = n]]
    /\ Finish(r)
    /\ UNCHANGED <<status, source, resv, quote, stockTables, permitted>>

RemoveLineDelete(r) ==
    /\ pc[r] = "removeLine"
    /\ line' = [l \in Lines |-> IF seen[r][l] # NoLine THEN NoLine ELSE line[l]]
    /\ Finish(r)
    /\ UNCHANGED <<status, source, resv, quote, stockTables, permitted>>

-----------------------------------------------------------------------------
(* confirm: read the order and its lines, unlocked; ...                    *)
ConfirmRead(r, o) ==
    /\ pc[r] = "idle"
    /\ status[o] = "Draft"
    /\ pc' = [pc EXCEPT ![r] = "confirm"]
    /\ target' = [target EXCEPT ![r] = o]
    /\ seen' = [seen EXCEPT ![r] = LinesRead(o)]
    /\ UNCHANGED <<orderTables, stockTables, permitted, todo, asked, locks, work, held>>

(* ... lock the stock rows of its items and sort them by item and location, *)
(* which throws (a Rollback) when it cannot read these off a row; ...       *)
ConfirmLock(r) ==
    LET read == Present(seen[r]) IN
    /\ pc[r] = "confirm"
    /\ TakeLocks(r, ItemsOf(seen[r], read))
    /\ RowsReadable(ItemsOf(seen[r], read))
    /\ pc' = [pc EXCEPT ![r] = "reserve"]
    /\ todo' = [todo EXCEPT ![r] = read]
    /\ UNCHANGED <<orderTables, stockTables, permitted, target, seen, asked, held>>

(* ... reserve line by line what is free (the lines come back in no         *)
(* particular order), flagging a line that falls short; ...                *)
\* Mutant: flags a line only when nothing at all was free.
ReserveLineFlagsNoneOnly(r, l) ==
    LET i == seen[r][l].item IN
    /\ pc[r] = "reserve"
    /\ l \in todo[r]
    /\ \E take \in Reservations(work[r][i], seen[r][l].qty) :
          /\ work' = [work EXCEPT ![r][i] = WithReserved(work[r][i], take)]
          /\ held' = [held EXCEPT ![r][i] = [m \in Locations |-> held[r][i][m] + take[m]]]
          /\ seen' = [seen EXCEPT ![r][l].shortage = @ \/ Total(take) = 0]
    /\ todo' = [todo EXCEPT ![r] = @ \ {l}]
    /\ UNCHANGED <<orderTables, stockTables, permitted, pc, target, asked, locks>>

ReserveLine(r, l) ==
    LET i == seen[r][l].item
        qty == seen[r][l].qty
    IN  /\ pc[r] = "reserve"
        /\ l \in todo[r]
        /\ \E take \in Reservations(work[r][i], qty) :
              /\ work' = [work EXCEPT ![r][i] = WithReserved(work[r][i], take)]
              /\ held' = [held EXCEPT ![r][i] = [m \in Locations |-> held[r][i][m] + take[m]]]
              /\ seen' = [seen EXCEPT ![r][l].shortage = @ \/ Total(take) < qty]
        /\ todo' = [todo EXCEPT ![r] = @ \ {l}]
        /\ UNCHANGED <<orderTables, stockTables, permitted, pc, target, asked, locks>>

(* ... then read the source quotation, to convert it if it is still         *)
(* Approved, provided that the order was read with it; ...                  *)
ConfirmFindQuotation(r) ==
    LET q == source[target[r]] IN
    /\ pc[r] = "reserve"
    /\ todo[r] = {}
    /\ q # NoQuotation
    /\ pc' = [pc EXCEPT ![r] =
              IF QueriesAsMeant /\ quote[q] = "Approved" THEN "convert" ELSE "keep"]
    /\ UNCHANGED <<orderTables, stockTables, permitted,
                   target, seen, todo, asked, locks, work, held>>

(* ... and commit the stock, the lines as they were read, the reservations  *)
(* (a row that exists already breaks the unique constraint), the status and *)
(* the quotation, unless the order has other lines by now.                  *)
Reserved(r) ==
    \/ pc[r] = "reserve" /\ todo[r] = {} /\ source[target[r]] = NoQuotation
    \/ pc[r] \in {"convert", "keep"}

NoReservationClash(r) ==
    \A i \in Items, l \in Locations : held[r][i][l] > 0 => resv[target[r]][i][l] = 0

ConfirmCommit(r) ==
    LET o == target[r] IN
    /\ Reserved(r)
    /\ Savable(r, Present(seen[r]))
    /\ NoReservationClash(r)
    /\ SoleActive(o)
    /\ stock' = WorkOf(r)
    /\ line' = Saved(line, seen[r])
    /\ resv' = [resv EXCEPT ![o] =
                   [i \in Items |-> [l \in Locations |-> resv[o][i][l] + held[r][i][l]]]]
    /\ status' = Became(o, "Confirmed")
    /\ quote' = IF pc[r] = "convert" THEN [quote EXCEPT ![source[o]] = "Converted"] ELSE quote
    /\ Finish(r)
    /\ UNCHANGED <<source, qtySold, shipped, moved, permitted>>

ConfirmRefused(r) ==
    /\ Reserved(r)
    /\ ~(Savable(r, Present(seen[r])) /\ NoReservationClash(r) /\ SoleActive(target[r]))
    /\ Finish(r)
    /\ UNCHANGED <<orderTables, stockTables, permitted>>

-----------------------------------------------------------------------------
(* cancel: read the order with its lines, then its reservations, both       *)
(* unlocked; ...                                                            *)
\* Mutant: would cancel an order that has shipped.
CancelReadDelivered(r, o) ==
    /\ pc[r] = "idle"
    /\ status[o] \in {"Draft", "Confirmed", "Delivered"}
    /\ pc' = [pc EXCEPT ![r] = "cancel"]
    /\ target' = [target EXCEPT ![r] = o]
    /\ seen' = [seen EXCEPT ![r] = LinesRead(o)]
    /\ UNCHANGED <<orderTables, stockTables, permitted, todo, asked, locks, work, held>>

CancelRead(r, o) ==
    /\ pc[r] = "idle"
    /\ status[o] \in {"Draft", "Confirmed"}
    /\ pc' = [pc EXCEPT ![r] = "cancel"]
    /\ target' = [target EXCEPT ![r] = o]
    /\ seen' = [seen EXCEPT ![r] = LinesRead(o)]
    /\ UNCHANGED <<orderTables, stockTables, permitted, todo, asked, locks, work, held>>

CancelFind(r) ==
    /\ pc[r] = "cancel"
    /\ pc' = [pc EXCEPT ![r] = "release"]
    /\ held' = [held EXCEPT ![r] = resv[target[r]]]
    /\ UNCHANGED <<orderTables, stockTables, permitted, target, seen, todo, asked, locks, work>>

(* ... then lock the stock rows of their items, release each reservation    *)
(* that was read and delete its row (known here by item and location).      *)
(* Releasing more than a row has reserved throws, and saving the order,     *)
(* which is read with its lines and reservations, fails when it has others  *)
(* by then: the request rolls back, as it does when it cannot read item and *)
(* location off the rows that it has locked.                                *)
HeldItems(r) == {i \in Items : held[r][i] # NoQuantities}

NoNewReservations(r) ==
    \A i \in Items, l \in Locations : resv[target[r]][i][l] > 0 => held[r][i][l] > 0

\* Mutant: drops the reservation rows, not the reserved units.
CancelKeepsReserved(r) ==
    LET o == target[r] IN
    /\ pc[r] = "release"
    /\ Unlocked(HeldItems(r)) /\ RowsReadable(HeldItems(r))
    /\ Savable(r, {}) /\ NoNewReservations(r)
    /\ resv' = [resv EXCEPT ![o] = [i \in Items |-> [l \in Locations |->
                   IF held[r][i][l] > 0 THEN 0 ELSE resv[o][i][l]]]]
    /\ status' = Became(o, "Cancelled")
    /\ Finish(r)
    /\ UNCHANGED <<source, line, quote, stockTables, permitted>>

\* Mutant: releases the units, keeps the reservation rows.
CancelKeepsRows(r) ==
    /\ pc[r] = "release"
    /\ Unlocked(HeldItems(r)) /\ RowsReadable(HeldItems(r))
    /\ Savable(r, {}) /\ NoNewReservations(r)
    /\ \A i \in Items : CanRelease(stock[i], held[r][i])
    /\ stock' = [i \in Items |-> WithReleased(stock[i], held[r][i])]
    /\ status' = Became(target[r], "Cancelled")
    /\ Finish(r)
    /\ UNCHANGED <<source, line, resv, quote, qtySold, shipped, moved, permitted>>

CancelCommit(r) ==
    LET o == target[r] IN
    /\ pc[r] = "release"
    /\ Unlocked(HeldItems(r)) /\ RowsReadable(HeldItems(r))
    /\ Savable(r, {}) /\ NoNewReservations(r)
    /\ \A i \in Items : CanRelease(stock[i], held[r][i])
    /\ stock' = [i \in Items |-> WithReleased(stock[i], held[r][i])]
    /\ resv' = [resv EXCEPT ![o] = [i \in Items |-> [l \in Locations |->
                   IF held[r][i][l] > 0 THEN 0 ELSE resv[o][i][l]]]]
    /\ status' = Became(o, "Cancelled")
    /\ Finish(r)
    /\ UNCHANGED <<source, line, quote, qtySold, shipped, moved, permitted>>

CancelRefused(r) ==
    /\ pc[r] = "release"
    /\ Unlocked(HeldItems(r))
    /\ \/ ~Savable(r, {}) \/ ~NoNewReservations(r)
       \/ \E i \in Items : ~CanRelease(stock[i], held[r][i])
    /\ Finish(r)
    /\ UNCHANGED <<orderTables, stockTables, permitted>>

-----------------------------------------------------------------------------
(* consumeReservedForOrder, called by a sale linked to order o: n units of  *)
(* item i leave on line l, which is the one the database returns first      *)
(* among the order's lines of that item. The reservations are trimmed by    *)
(* what was taken from them. The order and the stock rows are both read FOR *)
(* UPDATE with a left join: where Postgres refuses that, nothing is sold.   *)
\* Mutant: does not trim the reservation rows.
SellKeepsRows(o, l, n) ==
    LET i == line[l].item IN
    /\ QueriesAsMeant
    /\ status[o] \in {"Confirmed", "Delivered"}
    /\ line[l].order = o
    /\ n <= line[l].qty - line[l].delivered
    /\ qtySold[i] + n <= MaxSold
    /\ Unlocked({i})
    /\ \E taken \in FromReserved(stock[i], resv[o][i], n) :
          \E free \in FromFree(stock[i], taken, n) :
             stock' = [stock EXCEPT ![i] = Consumed(stock[i], taken, free)]
    /\ line' = [line EXCEPT ![l].delivered = @ + n]
    /\ status' = Became(o, IF AllDelivered(line', LinesOf(line, o)) THEN "Closed" ELSE "Delivered")
    /\ qtySold' = [qtySold EXCEPT ![i] = @ + n]
    /\ shipped' = [shipped EXCEPT ![o][i][l] = @ + n]
    /\ UNCHANGED <<source, resv, quote, moved, permitted, requestVars>>

SellOnOrder(o, l, n) ==
    LET i == line[l].item IN
    /\ QueriesAsMeant
    /\ status[o] \in {"Confirmed", "Delivered"}
    /\ line[l].order = o
    /\ n <= line[l].qty - line[l].delivered
    /\ qtySold[i] + n <= MaxSold
    /\ Unlocked({i})
    /\ \E taken \in FromReserved(stock[i], resv[o][i], n) :
          \E free \in FromFree(stock[i], taken, n) :
             /\ stock' = [stock EXCEPT ![i] = Consumed(stock[i], taken, free)]
             /\ resv' = [resv EXCEPT ![o][i] = [m \in Locations |-> @[m] - taken[m]]]
    /\ line' = [line EXCEPT ![l].delivered = @ + n]
    /\ status' = Became(o, IF AllDelivered(line', LinesOf(line, o)) THEN "Closed" ELSE "Delivered")
    /\ qtySold' = [qtySold EXCEPT ![i] = @ + n]
    /\ shipped' = [shipped EXCEPT ![o][i][l] = @ + n]
    /\ UNCHANGED <<source, quote, moved, permitted, requestVars>>

SalesOrdersStep(r) ==
    \/ \E q \in Quotations : IntakeRead(r, q)
    \/ \E o \in Orders, S \in SUBSET Lines : IntakeInsert(r, o, S)
    \/ IntakeExisting(r)
    \/ \E o \in Orders : AddLineRead(r, o) \/ ConfirmRead(r, o) \/ CancelRead(r, o)
    \/ \E l \in Lines, i \in Items, n \in 1..MaxQty :
          AddLineInsert(r, l, i, n) \/ UpdateLineSave(r, l, i, n)
    \/ \E l \in Lines, edit \in {"updateLine", "removeLine"} : EditRead(r, l, edit)
    \/ RemoveLineDelete(r)
    \/ ConfirmLock(r) \/ ConfirmFindQuotation(r) \/ ConfirmCommit(r) \/ ConfirmRefused(r)
    \/ \E l \in Lines : ReserveLine(r, l)
    \/ CancelFind(r) \/ CancelCommit(r) \/ CancelRefused(r)

OrderStep ==
    \/ \E o \in Orders : CreateOrder(o)
    \/ \E o \in Orders, l \in Lines, n \in 1..MaxQty : SellOnOrder(o, l, n)
=============================================================================
