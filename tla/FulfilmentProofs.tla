-------------------------- MODULE FulfilmentProofs --------------------------
(***************************************************************************)
(* For any number of requests, orders, lines, items and locations, whatever *)
(* requests overlap: TypeOK, NonNegativeStock, DraftHoldsNothing,           *)
(* OneActiveOrderPerQuotation and UnitsConserved are invariants of          *)
(* Fulfilment.                                                              *)
(*                                                                         *)
(* IInv is the inductive invariant of the first two. An action falls in one *)
(* of four kinds: it moves a request on and touches no table, it ends a     *)
(* request without a trace, it ends one and writes tables, or it is a step  *)
(* of its own that no request takes part in. The invariants of orders hold  *)
(* although requests read their order without a lock; they follow from what *)
(* a step can do to ONE order.                                              *)
(*                                                                         *)
(* The books of the stock balance because a request works on a copy of the  *)
(* rows that it has locked, and BooksInv says that the copy never goes      *)
(* stale: with what the request has already taken from it, it still makes   *)
(* up the committed rows. So writing it back moves the stock by exactly     *)
(* what the same commit records as shipped.                                 *)
(*                                                                         *)
(* One request at a time, DeliveredIsShipped and ClosedWhenDelivered are    *)
(* invariants, the orders live the life that OrderLifecycle promises, and   *)
(* the order desk keeps its books of reservations.                          *)
(*                                                                         *)
(* These do not hold when requests overlap: a handler that read an order    *)
(* without a lock may count its lines after another one has changed them.   *)
(* SerialSpec is the specification of the runs that take requests one by    *)
(* one. What a request has read then stays so until it ends (ReadIsSo), and *)
(* so does LineBooks, which says line by line what the properties say of    *)
(* sums. To an order a step does one of few things: it idles, drafts it     *)
(* (Opens), confirms or cancels it (Becomes), or ships some of it (Gets).   *)
(*                                                                         *)
(* Reservations add up only without deliveries (SerialDeskSpec), whose      *)
(* reconciliation drops rows of reservations that were not consumed. There  *)
(* the invariant adds the books of every order (BooksOf) and, while a       *)
(* confirmation or cancellation is under way, what it holds so far          *)
(* (HoldsSo). TakeTotal, what a loop takes in all, is what makes a flagged  *)
(* shortage the truth.                                                      *)
(***************************************************************************)
EXTENDS Fulfilment, SumTheorems

-----------------------------------------------------------------------------
(* What the operators of the stock engine return, for all rows of counts:   *)
(* again rows of counts. Nothing is said of the sums, only of each row.     *)

(* Rows of counts are rows. *)
LEMMA CountedAreRows == CountedRows \subseteq Rows
BY SMT DEF CountedRows, Rows, Row

LEMMA EmptyRowsCounted == [l \in Locations |-> EmptyRow] \in CountedRows
BY DEF CountedRows, EmptyRow

(* A loop takes counts, and at each location at most what it may take.      *)
LEMMA GreedyBounds ==
    ASSUME NEW cap, NEW qty, NEW rank, NEW take \in Greedy(cap, qty, rank)
    PROVE  take \in Quantities /\ \A l \in Locations : take[l] <= cap[l]
BY MaxQtyAssumption DEF Greedy, Quantities

LEMMA FreeCounts ==
    ASSUME NEW rows \in CountedRows
    PROVE  /\ Free(rows) \in Quantities
           /\ \A l \in Locations :
                 \/ Free(rows)[l] = 0
                 \/ Free(rows)[l] = rows[l].onHand - rows[l].reserved
BY DEF Free, Quantities, CountedRows

(* applyStockMove: a guarded decrement and an increment. *)
LEMMA MoveCounts ==
    ASSUME NEW rows \in CountedRows, NEW l \in Locations, NEW n \in Nat
    PROVE  /\ Incremented(rows, l, n) \in CountedRows
           /\ CanDecrement(rows, l, n) => Decremented(rows, l, n) \in CountedRows
BY DEF CountedRows, Incremented, Decremented, CanDecrement

(* reserveBestEffort adds counts to reserved. *)
LEMMA ReserveCounts ==
    ASSUME NEW rows \in CountedRows, NEW take \in Quantities
    PROVE  WithReserved(rows, take) \in CountedRows
BY DEF CountedRows, WithReserved, Quantities

(* releaseReservation checks before it subtracts. *)
LEMMA ReleaseCounts ==
    ASSUME NEW rows \in CountedRows, NEW rsv \in Quantities, CanRelease(rows, rsv)
    PROVE  WithReleased(rows, rsv) \in CountedRows
BY DEF CountedRows, WithReleased, CanRelease, Quantities

(* deliverFromReservations: the free units are counted before the reserved  *)
(* ones are taken, and the two together never exceed what is on hand.       *)
LEMMA DeliverCounts ==
    ASSUME NEW rows \in CountedRows, NEW rsv \in Quantities, NEW qty \in Nat,
           NEW taken \in FromReserved(rows, rsv, qty),
           NEW free \in FromFree(rows, taken, qty)
    PROVE  /\ Consumed(rows, taken, free) \in CountedRows
           /\ taken \in Quantities
           /\ \A l \in Locations : taken[l] <= rsv[l]
<1>1. taken \in Quantities /\ \A l \in Locations : taken[l] <= rsv[l]
  BY GreedyBounds DEF FromReserved
<1>2. \A l \in Locations : taken[l] <= rows[l].onHand /\ taken[l] <= rows[l].reserved
  BY DEF FromReserved
<1>3. free \in Quantities /\ \A l \in Locations : free[l] <= Free(rows)[l]
  BY GreedyBounds DEF FromFree
<1>4. ASSUME NEW l \in Locations
      PROVE  /\ rows[l].onHand - taken[l] - free[l] \in Nat
             /\ rows[l].reserved - taken[l] \in Nat
  <2>1. /\ rows[l].onHand \in Nat /\ rows[l].reserved \in Nat
        /\ taken[l] \in Nat /\ free[l] \in Nat
    BY <1>1, <1>3 DEF CountedRows, Quantities
  <2>2. \/ Free(rows)[l] = 0
        \/ Free(rows)[l] = rows[l].onHand - rows[l].reserved
    BY FreeCounts
  <2> QED BY <1>2, <1>3, <2>1, <2>2
<1>5. Consumed(rows, taken, free) \in CountedRows
  BY <1>4 DEF Consumed, CountedRows
<1> QED BY <1>1, <1>5

-----------------------------------------------------------------------------
(* What a step leaves alone keeps its part of the invariant.                *)

LEMMA OrdersKept ==
    ASSUME OrderTypeOK, UNCHANGED orderTables
    PROVE  OrderTypeOK'
BY DEF OrderTypeOK, orderTables

LEMMA StockKept ==
    ASSUME StockInv, UNCHANGED <<stockTables, permitted>>
    PROVE  StockInv'
BY DEF StockInv, StockTypeOK, stockTables

LEMMA RequestsKept ==
    ASSUME RequestInv, UNCHANGED requestVars
    PROVE  RequestInv'
BY DEF RequestInv, RequestTypeOK, RequestsWellFormed, Present, NothingAsked, requestVars

(* The initial values of a request's variables. *)
LEMMA IdleValues ==
    /\ EmptyLines \in LineTable
    /\ NothingAsked \in [Lines -> Nat]
    /\ NothingHeld \in Held
    /\ EmptyStock \in [Items -> CountedRows]
    /\ Present(EmptyLines) = {}
    /\ \A l \in Lines : NothingAsked[l] = 0
BY EmptyRowsCounted DEF EmptyLines, LineTable, NothingAsked, NothingHeld, Held, Quantities,
   NoQuantities, EmptyStock, Present

(* Ending a request keeps the requests well formed. *)
LEMMA FinishKeepsRequests ==
    ASSUME RequestInv, NEW r \in Requests, Finish(r)
    PROVE  RequestInv'
<1> USE DEF RequestInv
<1>1. RequestTypeOK'
  BY IdleValues, CountedAreRows DEF Finish, RequestTypeOK, Step
<1>2. work' \in [Requests -> [Items -> CountedRows]]
  BY IdleValues DEF Finish
<1>3. RequestsWellFormed'
  <2> SUFFICES ASSUME NEW p \in Requests
               PROVE  /\ pc'[p] \in QuotationWork => target'[p] \in Quotations
                      /\ pc'[p] \notin {"idle"} \cup QuotationWork => target'[p] \in Orders
                      /\ pc'[p] = "idle" => todo'[p] = {} /\ asked'[p] = NothingAsked
                      /\ todo'[p] \subseteq Present(seen'[p])
                      /\ \A l \in Lines : asked'[p][l] > 0 => seen'[p][l] # NoLine
    BY DEF RequestsWellFormed, QuotationWork, QuotationStatus, Present, NothingAsked
  <2>1. CASE p = r
    BY <2>1, IdleValues DEF Finish, RequestTypeOK, QuotationWork, QuotationStatus
  <2>2. CASE p # r
    BY <2>2 DEF Finish, RequestTypeOK, RequestsWellFormed, QuotationWork, QuotationStatus
  <2> QED BY <2>1, <2>2
<1> QED BY <1>1, <1>2, <1>3

(* A request that is refused or rolled back leaves no trace. *)
LEMMA RefusalKeeps ==
    ASSUME IInv, NEW r \in Requests, Finish(r), UNCHANGED <<orderTables, stockTables, permitted>>
    PROVE  IInv'
<1>1. OrderTypeOK' BY OrdersKept DEF IInv
<1>2. StockInv' BY StockKept DEF IInv
<1>3. RequestInv' BY FinishKeepsRequests DEF IInv
<1> QED BY <1>1, <1>2, <1>3 DEF IInv

-----------------------------------------------------------------------------
(* Moving a request on without touching a table. *)

LEMMA OneRequestMoves ==
    ASSUME RequestsWellFormed, NEW r \in Requests,
           \A p \in Requests \ {r} :
              /\ pc'[p] = pc[p] /\ target'[p] = target[p] /\ seen'[p] = seen[p]
              /\ todo'[p] = todo[p] /\ asked'[p] = asked[p],
           pc'[r] # "idle",
           pc'[r] \in QuotationWork => target'[r] \in Quotations,
           pc'[r] \notin QuotationWork => target'[r] \in Orders,
           todo'[r] \subseteq Present(seen'[r]),
           \A l \in Lines : asked'[r][l] > 0 => seen'[r][l] # NoLine
    PROVE  RequestsWellFormed'
<1> SUFFICES ASSUME NEW p \in Requests
             PROVE  /\ pc'[p] \in QuotationWork => target'[p] \in Quotations
                    /\ pc'[p] \notin {"idle"} \cup QuotationWork => target'[p] \in Orders
                    /\ pc'[p] = "idle" => todo'[p] = {} /\ asked'[p] = NothingAsked
                    /\ todo'[p] \subseteq Present(seen'[p])
                    /\ \A l \in Lines : asked'[p][l] > 0 => seen'[p][l] # NoLine
  BY DEF RequestsWellFormed, QuotationWork, QuotationStatus, Present, NothingAsked
<1>1. CASE p = r BY <1>1
<1>2. CASE p # r BY <1>2 DEF RequestsWellFormed
<1> QED BY <1>1, <1>2


(* The lines that a request reads are lines of the table. *)
LEMMA LinesReadTable ==
    ASSUME OrderTypeOK, NEW o \in Orders
    PROVE  /\ LinesRead(o) \in LineTable
           /\ \A l \in Lines : line[l].order = o => LinesRead(o)[l] = line[l] /\ line[l] # NoLine
BY NoValueAssumption DEF OrderTypeOK, LinesRead, LineTable, NoLine

LEMMA IntakeReadKeeps ==
    ASSUME OrderTypeOK, StockInv, RequestInv, NEW r \in Requests, NEW q \in Quotations, IntakeRead(r, q)
    PROVE  RequestInv'
<1>1. RequestTypeOK'
  BY DEF IntakeRead, RequestInv, RequestTypeOK, Step
<1>2. work' \in [Requests -> [Items -> CountedRows]]
  BY DEF IntakeRead, RequestInv
<1>3. RequestsWellFormed'
  BY OneRequestMoves DEF IntakeRead, RequestInv, RequestTypeOK, RequestsWellFormed, QuotationWork, QuotationStatus
<1> QED BY <1>1, <1>2, <1>3 DEF RequestInv

LEMMA StatusReadKeeps ==
    ASSUME OrderTypeOK, StockInv, RequestInv, NEW r \in Requests, NEW q \in Quotations,
           NEW s \in QuotationStatus, StatusRead(r, q, s)
    PROVE  RequestInv'
<1>1. RequestTypeOK'
  BY DEF StatusRead, RequestInv, RequestTypeOK, Step
<1>2. work' \in [Requests -> [Items -> CountedRows]]
  BY DEF StatusRead, RequestInv
<1>3. RequestsWellFormed'
  BY OneRequestMoves DEF StatusRead, RequestInv, RequestTypeOK, RequestsWellFormed, QuotationWork, QuotationStatus
<1> QED BY <1>1, <1>2, <1>3 DEF RequestInv

LEMMA ConfirmFindQuotationKeeps ==
    ASSUME OrderTypeOK, StockInv, RequestInv, NEW r \in Requests, ConfirmFindQuotation(r)
    PROVE  RequestInv'
<1>1. RequestTypeOK'
  BY DEF ConfirmFindQuotation, RequestInv, RequestTypeOK, Step
<1>2. work' \in [Requests -> [Items -> CountedRows]]
  BY DEF ConfirmFindQuotation, RequestInv
<1>3. pc'[r] \in {"convert", "keep"} /\ target[r] \in Orders
  BY DEF ConfirmFindQuotation, RequestInv, RequestTypeOK, RequestsWellFormed, QuotationWork, QuotationStatus
<1>4. RequestsWellFormed'
  BY <1>3, OneRequestMoves DEF ConfirmFindQuotation, RequestInv, RequestTypeOK, RequestsWellFormed, QuotationWork, QuotationStatus
<1> QED BY <1>1, <1>2, <1>4 DEF RequestInv

LEMMA AddLineReadKeeps ==
    ASSUME OrderTypeOK, StockInv, RequestInv, NEW r \in Requests, NEW o \in Orders, AddLineRead(r, o)
    PROVE  RequestInv'
<1>1. RequestTypeOK'
  BY DEF AddLineRead, RequestInv, RequestTypeOK, Step
<1>2. work' \in [Requests -> [Items -> CountedRows]]
  BY DEF AddLineRead, RequestInv
<1>3. RequestsWellFormed'
  BY OneRequestMoves DEF AddLineRead, RequestInv, RequestTypeOK, RequestsWellFormed, QuotationWork, QuotationStatus, NothingAsked
<1> QED BY <1>1, <1>2, <1>3 DEF RequestInv

LEMMA ConfirmReadKeeps ==
    ASSUME OrderTypeOK, StockInv, RequestInv, NEW r \in Requests, NEW o \in Orders, ConfirmRead(r, o)
    PROVE  RequestInv'
<1>1. RequestTypeOK'
  BY LinesReadTable DEF ConfirmRead, RequestInv, RequestTypeOK, Step
<1>2. work' \in [Requests -> [Items -> CountedRows]]
  BY DEF ConfirmRead, RequestInv
<1>3. RequestsWellFormed'
  BY OneRequestMoves DEF ConfirmRead, RequestInv, RequestTypeOK, RequestsWellFormed, QuotationWork, QuotationStatus, NothingAsked
<1> QED BY <1>1, <1>2, <1>3 DEF RequestInv

LEMMA CancelReadKeeps ==
    ASSUME OrderTypeOK, StockInv, RequestInv, NEW r \in Requests, NEW o \in Orders, CancelRead(r, o)
    PROVE  RequestInv'
<1>1. RequestTypeOK'
  BY LinesReadTable DEF CancelRead, RequestInv, RequestTypeOK, Step
<1>2. work' \in [Requests -> [Items -> CountedRows]]
  BY DEF CancelRead, RequestInv
<1>3. RequestsWellFormed'
  BY OneRequestMoves DEF CancelRead, RequestInv, RequestTypeOK, RequestsWellFormed, QuotationWork, QuotationStatus, NothingAsked
<1> QED BY <1>1, <1>2, <1>3 DEF RequestInv

LEMMA EditReadKeeps ==
    ASSUME OrderTypeOK, StockInv, RequestInv, NEW r \in Requests, NEW l \in Lines, NEW edit, EditRead(r, l, edit)
    PROVE  RequestInv'
<1>1. line[l] \in LineRow /\ line[l].order \in Orders
  BY DEF EditRead, OrderTypeOK, LineTable, LineRow
<1>2. [EmptyLines EXCEPT ![l] = line[l]] \in LineTable
  BY <1>1, IdleValues DEF LineTable
<1>3. RequestTypeOK'
  BY <1>1, <1>2 DEF EditRead, RequestInv, RequestTypeOK, Step
<1>4. work' \in [Requests -> [Items -> CountedRows]]
  BY DEF EditRead, RequestInv
<1>5. RequestsWellFormed'
  BY <1>1, OneRequestMoves DEF EditRead, RequestInv, RequestTypeOK, RequestsWellFormed, QuotationWork, QuotationStatus, NothingAsked
<1> QED BY <1>3, <1>4, <1>5 DEF RequestInv

LEMMA CancelFindKeeps ==
    ASSUME OrderTypeOK, StockInv, RequestInv, NEW r \in Requests, CancelFind(r)
    PROVE  RequestInv'
<1>1. RequestTypeOK'
  BY DEF CancelFind, RequestInv, RequestTypeOK, RequestsWellFormed, QuotationWork, QuotationStatus, Step, OrderTypeOK
<1>2. work' \in [Requests -> [Items -> CountedRows]]
  BY DEF CancelFind, RequestInv
<1>3. RequestsWellFormed'
  BY OneRequestMoves DEF CancelFind, RequestInv, RequestTypeOK, RequestsWellFormed, QuotationWork, QuotationStatus
<1> QED BY <1>1, <1>2, <1>3 DEF RequestInv

LEMMA PermitGateKeeps ==
    ASSUME OrderTypeOK, StockInv, RequestInv, NEW r \in Requests, PermitGate(r)
    PROVE  RequestInv'
<1>1. RequestTypeOK'
  BY DEF PermitGate, RequestInv, RequestTypeOK, Step
<1>2. work' \in [Requests -> [Items -> CountedRows]]
  BY DEF PermitGate, RequestInv
<1>3. RequestsWellFormed'
  BY OneRequestMoves DEF PermitGate, RequestInv, RequestTypeOK, RequestsWellFormed, QuotationWork, QuotationStatus
<1> QED BY <1>1, <1>2, <1>3 DEF RequestInv

LEMMA DeliverReadKeeps ==
    ASSUME OrderTypeOK, StockInv, RequestInv, NEW r \in Requests, NEW o \in Orders, NEW ask \in [Lines -> 0..MaxQty], DeliverRead(r, o, ask)
    PROVE  RequestInv'
<1>1. RequestTypeOK'
  BY LinesReadTable, MaxQtyAssumption DEF DeliverRead, RequestInv, RequestTypeOK, Step
<1>2. work' \in [Requests -> [Items -> CountedRows]]
  BY DEF DeliverRead, RequestInv
<1>3. RequestsWellFormed'
  <2>1. /\ pc'[r] = "deliver" /\ target'[r] = o /\ seen'[r] = LinesRead(o) /\ asked'[r] = ask
        /\ pc[r] = "idle" /\ todo' = todo
    BY DEF DeliverRead, RequestInv, RequestTypeOK
  <2>2. \A l \in Lines : ask[l] > 0 => LinesRead(o)[l] # NoLine
    BY LinesReadTable DEF DeliverRead, Requestable
  <2>3. pc'[r] \notin QuotationWork /\ todo'[r] = {}
    BY <2>1 DEF RequestInv, RequestsWellFormed, QuotationWork, QuotationStatus
  <2> QED
    BY <2>1, <2>2, <2>3, OneRequestMoves DEF DeliverRead, RequestInv, RequestTypeOK
<1> QED BY <1>1, <1>2, <1>3 DEF RequestInv

LEMMA ConfirmLockKeeps ==
    ASSUME OrderTypeOK, StockInv, RequestInv, NEW r \in Requests, ConfirmLock(r)
    PROVE  RequestInv'
<1>1. ItemsOf(seen[r], Present(seen[r])) \subseteq Items
  BY DEF ItemsOf, Present, RequestInv, RequestTypeOK, LineTable, LineRow
<1>2. work' \in [Requests -> [Items -> CountedRows]]
  BY IdleValues DEF ConfirmLock, TakeLocks, RequestInv, StockInv
<1>3. RequestTypeOK'
  BY <1>1, <1>2, CountedAreRows DEF ConfirmLock, TakeLocks, RequestInv, RequestTypeOK, Step, Present
<1>4. RequestsWellFormed'
  BY OneRequestMoves DEF ConfirmLock, RequestInv, RequestTypeOK, RequestsWellFormed, QuotationWork, QuotationStatus
<1> QED BY <1>2, <1>3, <1>4 DEF RequestInv

LEMMA DeliverLockKeeps ==
    ASSUME OrderTypeOK, StockInv, RequestInv, NEW r \in Requests, DeliverLock(r)
    PROVE  RequestInv'
<1> DEFINE lines == {l \in Lines : asked[r][l] > 0}
<1>1. lines \subseteq Present(seen[r])
  BY DEF Present, RequestInv, RequestsWellFormed, QuotationWork, QuotationStatus
<1>2. ItemsOf(seen[r], lines) \subseteq Items
  BY <1>1 DEF ItemsOf, Present, RequestInv, RequestTypeOK, LineTable, LineRow
<1>3. work' \in [Requests -> [Items -> CountedRows]]
  BY IdleValues DEF DeliverLock, TakeLocks, RequestInv, StockInv
<1>4. RequestTypeOK'
  BY <1>2, <1>3, CountedAreRows DEF DeliverLock, TakeLocks, RequestInv, RequestTypeOK, Step
<1>5. RequestsWellFormed'
  BY <1>1, OneRequestMoves DEF DeliverLock, RequestInv, RequestTypeOK, RequestsWellFormed, QuotationWork, QuotationStatus
<1> QED BY <1>3, <1>4, <1>5 DEF RequestInv

(* Changing a field of a line leaves it a line. *)
LEMMA LineChanged ==
    ASSUME NEW row \in LineRow, NEW b \in BOOLEAN, NEW n \in Nat
    PROVE  /\ [row EXCEPT !.shortage = b] \in LineRow
           /\ [row EXCEPT !.delivered = row.delivered + n] \in LineRow
           /\ NoLine \notin LineRow
BY NoValueAssumption DEF LineRow, NoLine

LEMMA ReserveLineKeeps ==
    ASSUME OrderTypeOK, StockInv, RequestInv, NEW r \in Requests, NEW l \in Lines, ReserveLine(r, l)
    PROVE  RequestInv'
<1> DEFINE i == seen[r][l].item
           qty == seen[r][l].qty
<1>1. seen[r][l] \in LineRow /\ i \in Items
  BY DEF ReserveLine, RequestInv, RequestTypeOK, RequestsWellFormed, QuotationWork, QuotationStatus, Present, LineTable, LineRow
<1>2. PICK take \in Reservations(work[r][i], qty) :
         /\ work' = [work EXCEPT ![r][i] = WithReserved(work[r][i], take)]
         /\ held' = [held EXCEPT ![r][i] = [m \in Locations |-> held[r][i][m] + take[m]]]
         /\ seen' = [seen EXCEPT ![r][l].shortage = @ \/ Total(take) < qty]
  BY DEF ReserveLine
<1>3. take \in Quantities
  BY GreedyBounds DEF Reservations
<1>4. work' \in [Requests -> [Items -> CountedRows]]
  <2>1. WithReserved(work[r][i], take) \in CountedRows
    BY <1>1, <1>3, ReserveCounts DEF RequestInv
  <2> QED BY <1>1, <1>2, <2>1 DEF RequestInv
<1>5. held' \in [Requests -> Held]
  <2>1. [m \in Locations |-> held[r][i][m] + take[m]] \in Quantities
    BY <1>1, <1>3 DEF RequestInv, RequestTypeOK, Held, Quantities
  <2> QED BY <1>1, <1>2, <2>1 DEF RequestInv, RequestTypeOK, Held
<1>6. /\ seen' \in [Requests -> LineTable]
      /\ Present(seen'[r]) = Present(seen[r])
      /\ \A p \in Requests \ {r} : seen'[p] = seen[p]
  <2> DEFINE short == seen[r][l].shortage \/ Total(take) < qty
  <2>1. short \in BOOLEAN
    OBVIOUS
  <2>2. [seen[r][l] EXCEPT !.shortage = short] \in LineRow
    BY <1>1, <2>1, LineChanged
  <2>3. seen' = [seen EXCEPT ![r][l] = [seen[r][l] EXCEPT !.shortage = short]]
    BY <1>2
  <2> HIDE DEF short
  <2> QED BY <1>1, <2>2, <2>3, LineChanged DEF RequestInv, RequestTypeOK, LineTable, Present
<1>7. RequestTypeOK'
  BY <1>4, <1>5, <1>6, CountedAreRows DEF ReserveLine, RequestInv, RequestTypeOK
<1>8. RequestsWellFormed'
  BY <1>6, OneRequestMoves DEF ReserveLine, RequestInv, RequestTypeOK, RequestsWellFormed, QuotationWork, QuotationStatus, Present
<1> QED BY <1>4, <1>7, <1>8 DEF RequestInv

LEMMA HandOverLineKeeps ==
    ASSUME OrderTypeOK, StockInv, RequestInv, NEW r \in Requests, NEW l \in Lines, HandOverLine(r, l)
    PROVE  RequestInv'
<1> DEFINE i == seen[r][l].item
           rows == work[r][i]
           qty == asked[r][l]
<1>1. seen[r][l] \in LineRow /\ i \in Items /\ qty \in Nat
  BY DEF HandOverLine, RequestInv, RequestTypeOK, RequestsWellFormed, QuotationWork, QuotationStatus, Present, LineTable, LineRow
<1>2. PICK taken \in FromReserved(rows, resv[target[r]][i], qty) :
         \E free \in FromFree(rows, taken, qty) :
            work' = [work EXCEPT ![r][i] = Consumed(rows, taken, free)]
  BY DEF HandOverLine
<1>3. PICK free \in FromFree(rows, taken, qty) :
         work' = [work EXCEPT ![r][i] = Consumed(rows, taken, free)]
  BY <1>2
<1>4. work' \in [Requests -> [Items -> CountedRows]]
  <2>1. target[r] \in Orders
    BY DEF HandOverLine, RequestInv, RequestsWellFormed, QuotationWork, QuotationStatus
  <2>2. rows \in CountedRows /\ resv[target[r]][i] \in Quantities
    BY <1>1, <2>1 DEF RequestInv, OrderTypeOK, Held
  <2>3. Consumed(rows, taken, free) \in CountedRows
    BY <1>1, <2>2, DeliverCounts
  <2> QED BY <1>1, <1>3, <2>3 DEF RequestInv
<1>5. /\ seen' \in [Requests -> LineTable]
      /\ Present(seen'[r]) = Present(seen[r])
      /\ \A p \in Requests \ {r} : seen'[p] = seen[p]
  <2>1. seen' = [seen EXCEPT ![r][l] = [seen[r][l] EXCEPT !.delivered = seen[r][l].delivered + qty]]
    BY DEF HandOverLine
  <2>2. [seen[r][l] EXCEPT !.delivered = seen[r][l].delivered + qty] \in LineRow
    BY <1>1, LineChanged
  <2> QED BY <1>1, <2>1, <2>2, LineChanged DEF RequestInv, RequestTypeOK, LineTable, Present
<1>6. RequestTypeOK'
  BY <1>4, <1>5, CountedAreRows DEF HandOverLine, RequestInv, RequestTypeOK
<1>7. RequestsWellFormed'
  BY <1>5, OneRequestMoves DEF HandOverLine, RequestInv, RequestTypeOK, RequestsWellFormed, QuotationWork, QuotationStatus, Present
<1> QED BY <1>4, <1>6, <1>7 DEF RequestInv

-----------------------------------------------------------------------------
(* Writing the tables at the end of a request. *)

(* order.status = s; save(order). *)
LEMMA BecameStatus ==
    ASSUME OrderTypeOK, NEW o \in Orders, NEW s \in OrderStatus
    PROVE  Became(o, s) \in [Orders -> OrderStatus]
BY DEF Became, OrderTypeOK

LEMMA NewLineTyped ==
    ASSUME NEW o \in Orders, NEW i \in Items, NEW n \in 1..MaxQty
    PROVE  NewLine(o, i, n) \in LineRow
BY MaxQtyAssumption DEF NewLine, LineRow

LEMMA SavedTyped ==
    ASSUME NEW table \in LineTable, NEW rows \in LineTable
    PROVE  Saved(table, rows) \in LineTable
BY DEF Saved, LineTable

LEMMA WorkOfCounted ==
    ASSUME StockInv, RequestInv, NEW r \in Requests
    PROVE  WorkOf(r) \in [Items -> CountedRows]
BY DEF WorkOf, StockInv, RequestInv

LEMMA IntakeInsertKeeps ==
    ASSUME OrderTypeOK, RequestInv, NEW r \in Requests, NEW o \in Orders, NEW S \in SUBSET Lines,
           IntakeInsert(r, o, S)
    PROVE  OrderTypeOK'
<1>1. target[r] \in Quotations
  BY DEF IntakeInsert, RequestInv, RequestsWellFormed, QuotationWork, QuotationStatus
<1>2. PICK item \in [S -> Items], qty \in [S -> 1..MaxQty] :
         line' = [l \in Lines |-> IF l \in S THEN NewLine(o, item[l], qty[l]) ELSE line[l]]
  BY DEF IntakeInsert
<1>3. \A l \in S : NewLine(o, item[l], qty[l]) \in LineRow
  BY NewLineTyped
<1>4. line' \in LineTable
  BY <1>2, <1>3 DEF OrderTypeOK, LineTable
<1>5. /\ status' \in [Orders -> OrderStatus]
      /\ source' \in [Orders -> Quotations \cup {NoQuotation}]
  BY <1>1 DEF IntakeInsert, OrderTypeOK, OrderStatus
<1>6. UNCHANGED <<resv, quote>>
  BY DEF IntakeInsert
<1> QED BY <1>4, <1>5, <1>6 DEF OrderTypeOK

LEMMA LineRewritten ==
    ASSUME NEW row \in LineRow, NEW i \in Items, NEW n \in 1..MaxQty
    PROVE  [row EXCEPT !.item = i, !.qty = n] \in LineRow
<1> DEFINE first == [row EXCEPT !.item = i]
<1>1. n \in Nat
  BY MaxQtyAssumption
<1>2. first \in LineRow
  BY DEF LineRow
<1>3. [first EXCEPT !.qty = n] \in LineRow
  <2> HIDE DEF first
  <2> QED BY <1>1, <1>2 DEF LineRow
<1>4. [row EXCEPT !.item = i, !.qty = n] = [first EXCEPT !.qty = n]
  BY Zenon
<1> QED BY <1>3, <1>4

LEMMA LineEditKeeps ==
    ASSUME OrderTypeOK, RequestInv, NEW r \in Requests,
           \/ \E l \in Lines, i \in Items, n \in 1..MaxQty :
                 AddLineInsert(r, l, i, n) \/ UpdateLineSave(r, l, i, n)
           \/ RemoveLineDelete(r)
    PROVE  OrderTypeOK' /\ Finish(r) /\ UNCHANGED <<stockTables, permitted>>
<1>1. ASSUME NEW l \in Lines, NEW i \in Items, NEW n \in 1..MaxQty, AddLineInsert(r, l, i, n)
      PROVE  line' \in LineTable /\ UNCHANGED <<status, source, resv, quote>>
  <2>1. target[r] \in Orders
    BY <1>1 DEF AddLineInsert, RequestInv, RequestsWellFormed, QuotationWork, QuotationStatus
  <2> QED BY <1>1, <2>1, NewLineTyped DEF AddLineInsert, OrderTypeOK, LineTable
<1>2. ASSUME NEW l \in Lines, NEW i \in Items, NEW n \in 1..MaxQty, UpdateLineSave(r, l, i, n)
      PROVE  line' \in LineTable /\ UNCHANGED <<status, source, resv, quote>>
  <2> DEFINE row == [seen[r][l] EXCEPT !.item = i, !.qty = n]
  <2>1. seen[r][l] # NoLine /\ line' = [line EXCEPT ![l] = row]
    BY <1>2 DEF UpdateLineSave
  <2>2. seen[r][l] \in LineRow
    BY <2>1 DEF RequestInv, RequestTypeOK, LineTable
  <2>3. row \in LineRow
    BY <2>2, LineRewritten
  <2> HIDE DEF row
  <2> QED BY <1>2, <2>1, <2>3 DEF UpdateLineSave, OrderTypeOK, LineTable
<1>3. ASSUME RemoveLineDelete(r)
      PROVE  line' \in LineTable /\ UNCHANGED <<status, source, resv, quote>>
  BY <1>3 DEF RemoveLineDelete, OrderTypeOK, LineTable
<1>4. line' \in LineTable /\ UNCHANGED <<status, source, resv, quote>>
  BY <1>1, <1>2, <1>3
<1>5. OrderTypeOK'
  BY <1>4 DEF OrderTypeOK
<1> QED BY <1>5 DEF AddLineInsert, UpdateLineSave, RemoveLineDelete

LEMMA ConfirmCommitKeeps ==
    ASSUME OrderTypeOK, StockInv, RequestInv, NEW r \in Requests, ConfirmCommit(r)
    PROVE  OrderTypeOK' /\ StockInv'
<1> DEFINE o == target[r]
<1>1. o \in Orders
  BY DEF ConfirmCommit, Reserved, RequestInv, RequestsWellFormed, QuotationWork, QuotationStatus
<1>2. status' \in [Orders -> OrderStatus]
  BY <1>1, BecameStatus DEF ConfirmCommit, OrderStatus
<1>3. line' \in LineTable
  BY SavedTyped DEF ConfirmCommit, OrderTypeOK, RequestInv, RequestTypeOK
<1>4. resv' \in [Orders -> Held]
  BY <1>1 DEF ConfirmCommit, OrderTypeOK, RequestInv, RequestTypeOK, Held, Quantities
<1>5. quote' \in [Quotations -> QuotationStatus]
  BY DEF ConfirmCommit, OrderTypeOK, QuotationStatus
<1>6. OrderTypeOK'
  BY <1>2, <1>3, <1>4, <1>5 DEF ConfirmCommit, OrderTypeOK
<1>7. stock' \in [Items -> CountedRows]
  BY WorkOfCounted DEF ConfirmCommit
<1>8. StockInv'
  BY <1>7, CountedAreRows DEF ConfirmCommit, StockInv, StockTypeOK
<1> QED BY <1>6, <1>8

LEMMA CancelCommitKeeps ==
    ASSUME OrderTypeOK, StockInv, RequestInv, NEW r \in Requests, CancelCommit(r)
    PROVE  OrderTypeOK' /\ StockInv'
<1> DEFINE o == target[r]
<1>1. o \in Orders
  BY DEF CancelCommit, RequestInv, RequestsWellFormed, QuotationWork, QuotationStatus
<1>2. status' \in [Orders -> OrderStatus]
  BY <1>1, BecameStatus DEF CancelCommit, OrderStatus
<1>3. resv' \in [Orders -> Held]
  BY <1>1 DEF CancelCommit, OrderTypeOK, Held, Quantities
<1>4. OrderTypeOK'
  BY <1>2, <1>3 DEF CancelCommit, OrderTypeOK
<1>5. stock' \in [Items -> CountedRows]
  <2>1. ASSUME NEW i \in Items PROVE WithReleased(stock[i], held[r][i]) \in CountedRows
    BY ReleaseCounts DEF CancelCommit, StockInv, RequestInv, RequestTypeOK, Held
  <2> QED BY <2>1 DEF CancelCommit
<1>6. StockInv'
  BY <1>5, CountedAreRows DEF CancelCommit, StockInv, StockTypeOK
<1> QED BY <1>4, <1>6

LEMMA DeliverCommitKeeps ==
    ASSUME OrderTypeOK, StockInv, RequestInv, NEW r \in Requests, DeliverCommit(r)
    PROVE  OrderTypeOK' /\ StockInv'
<1> DEFINE o == target[r]
           written == [l \in Lines |-> IF asked[r][l] > 0 THEN seen[r][l] ELSE NoLine]
<1>1. o \in Orders
  BY DEF DeliverCommit, RequestInv, RequestsWellFormed, QuotationWork, QuotationStatus
<1>2. status' \in [Orders -> OrderStatus]
  BY <1>1, BecameStatus DEF DeliverCommit, OrderStatus
<1>3. line' \in LineTable
  <2>1. written \in LineTable
    BY DEF RequestInv, RequestTypeOK, LineTable
  <2> QED BY <2>1, SavedTyped DEF DeliverCommit, OrderTypeOK
<1>4. resv' \in [Orders -> Held]
  <2>1. Reconciled(resv[o], seen[r]) \in Held
    BY <1>1 DEF Reconciled, OrderTypeOK, Held, Quantities
  <2> QED BY <1>1, <2>1 DEF DeliverCommit, OrderTypeOK
<1>5. OrderTypeOK'
  BY <1>2, <1>3, <1>4 DEF DeliverCommit, OrderTypeOK
<1>6. stock' \in [Items -> CountedRows]
  BY WorkOfCounted DEF DeliverCommit
<1>7. shipped' \in [Orders -> [Items -> [Lines -> Nat]]]
  <2> DEFINE more == [i \in Items |-> [l \in Lines |->
                        shipped[o][i][l] + IF seen[r][l].item = i THEN asked[r][l] ELSE 0]]
  <2>1. more \in [Items -> [Lines -> Nat]]
    BY <1>1 DEF StockInv, StockTypeOK, RequestInv, RequestTypeOK
  <2>2. shipped' = [shipped EXCEPT ![o] = more]
    BY DEF DeliverCommit
  <2> QED BY <1>1, <2>1, <2>2 DEF StockInv, StockTypeOK
<1>8. StockInv'
  BY <1>6, <1>7, CountedAreRows DEF DeliverCommit, StockInv, StockTypeOK
<1> QED BY <1>5, <1>8

-----------------------------------------------------------------------------
(* The steps that no request takes part in. *)

LEMMA SellOnOrderKeeps ==
    ASSUME OrderTypeOK, StockInv, NEW o \in Orders, NEW l \in Lines, NEW n \in 1..MaxQty,
           SellOnOrder(o, l, n)
    PROVE  OrderTypeOK' /\ StockInv'
<1> DEFINE i == line[l].item
           rows == stock[i]
<1>1. line[l] \in LineRow /\ i \in Items /\ n \in Nat
  BY NoValueAssumption, MaxQtyAssumption DEF SellOnOrder, OrderTypeOK, LineTable, LineRow, NoLine
<1>2. PICK taken \in FromReserved(rows, resv[o][i], n) :
         \E free \in FromFree(rows, taken, n) :
            /\ stock' = [stock EXCEPT ![i] = Consumed(rows, taken, free)]
            /\ resv' = [resv EXCEPT ![o][i] = [m \in Locations |-> resv[o][i][m] - taken[m]]]
  BY DEF SellOnOrder
<1>3. PICK free \in FromFree(rows, taken, n) :
            /\ stock' = [stock EXCEPT ![i] = Consumed(rows, taken, free)]
            /\ resv' = [resv EXCEPT ![o][i] = [m \in Locations |-> resv[o][i][m] - taken[m]]]
  BY <1>2
<1>4. rows \in CountedRows /\ resv[o][i] \in Quantities
  BY <1>1 DEF StockInv, OrderTypeOK, Held
<1>5. /\ Consumed(rows, taken, free) \in CountedRows
      /\ taken \in Quantities
      /\ \A m \in Locations : taken[m] <= resv[o][i][m]
  BY <1>1, <1>4, DeliverCounts
<1>6. stock' \in [Items -> CountedRows]
  BY <1>1, <1>3, <1>5 DEF StockInv
<1>7. resv' \in [Orders -> Held]
  <2>1. [m \in Locations |-> resv[o][i][m] - taken[m]] \in Quantities
    BY <1>4, <1>5 DEF Quantities
  <2> QED BY <1>1, <1>3, <2>1 DEF OrderTypeOK, Held
<1>8. line' \in LineTable
  <2>1. line' = [line EXCEPT ![l] = [line[l] EXCEPT !.delivered = line[l].delivered + n]]
    BY DEF SellOnOrder
  <2>2. [line[l] EXCEPT !.delivered = line[l].delivered + n] \in LineRow
    BY <1>1, LineChanged
  <2> QED BY <2>1, <2>2 DEF OrderTypeOK, LineTable
<1>9. status' \in [Orders -> OrderStatus]
  BY BecameStatus DEF SellOnOrder, OrderStatus
<1>10. qtySold' \in [Items -> Nat] /\ shipped' \in [Orders -> [Items -> [Lines -> Nat]]]
  BY <1>1 DEF SellOnOrder, StockInv, StockTypeOK
<1>11. OrderTypeOK'
  BY <1>7, <1>8, <1>9 DEF SellOnOrder, OrderTypeOK
<1>12. StockInv'
  BY <1>6, <1>10, CountedAreRows DEF SellOnOrder, StockInv, StockTypeOK
<1> QED BY <1>11, <1>12

LEMMA CreateOrderKeeps ==
    ASSUME OrderTypeOK, NEW o \in Orders, CreateOrder(o)
    PROVE  OrderTypeOK'
BY DEF CreateOrder, OrderTypeOK, OrderStatus

LEMMA QuotationSavedKeeps ==
    ASSUME OrderTypeOK, UNCHANGED <<status, source, line, resv>>,
           NEW q, NEW s \in QuotationStatus, quote' = [quote EXCEPT ![q] = s]
    PROVE  OrderTypeOK'
BY DEF OrderTypeOK

(* TransactionsService: every move leaves rows of counts. *)
LEMMA MoveStepKeeps ==
    ASSUME StockInv, MoveStep
    PROVE  StockInv' /\ UNCHANGED <<orderTables, requestVars>>
<1>1. PICK i \in Items, l \in Locations, n \in 1..MaxQty :
         \/ \E to \in Locations : Transfer(i, l, to, n)
         \/ WalkInSale(i, l, n) \/ Return(i, l, n)
         \/ Increase(i, l, n) \/ Decrease(i, l, n)
  BY DEF MoveStep
<1>2. n \in Nat /\ stock[i] \in CountedRows
  BY MaxQtyAssumption DEF StockInv
<1>3. ASSUME NEW rows \in CountedRows, SetRows(i, rows)
      PROVE  stock' \in [Items -> CountedRows] /\ stock' \in [Items -> Rows]
  BY <1>3, CountedAreRows DEF SetRows, StockInv
<1>4. ASSUME NEW to \in Locations, Transfer(i, l, to, n) PROVE StockInv'
  <2>1. Incremented(Decremented(stock[i], l, n), to, n) \in CountedRows
    BY <1>2, <1>4, MoveCounts DEF Transfer
  <2> QED BY <1>3, <1>4, <2>1 DEF Transfer, StockInv, StockTypeOK
<1>5. CASE WalkInSale(i, l, n)
  <2>1. Decremented(stock[i], l, n) \in CountedRows
    BY <1>2, <1>5, MoveCounts DEF WalkInSale
  <2> QED BY <1>2, <1>3, <1>5, <2>1 DEF WalkInSale, StockInv, StockTypeOK
<1>6. CASE Return(i, l, n)
  <2>1. Incremented(stock[i], l, n) \in CountedRows
    BY <1>2, MoveCounts
  <2> QED BY <1>2, <1>3, <1>6, <2>1 DEF Return, StockInv, StockTypeOK
<1>7. CASE Increase(i, l, n)
  <2>1. Incremented(stock[i], l, n) \in CountedRows
    BY <1>2, MoveCounts
  <2> QED BY <1>2, <1>3, <1>7, <2>1 DEF Increase, StockInv, StockTypeOK
<1>8. CASE Decrease(i, l, n)
  <2>1. Decremented(stock[i], l, n) \in CountedRows
    BY <1>2, <1>8, MoveCounts DEF Decrease
  <2> QED BY <1>2, <1>3, <1>8, <2>1 DEF Decrease, StockInv, StockTypeOK
<1>9. UNCHANGED <<orderTables, requestVars>>
  BY <1>1 DEF Transfer, WalkInSale, Return, Increase, Decrease
<1> QED BY <1>1, <1>4, <1>5, <1>6, <1>7, <1>8, <1>9

LEMMA PermitStepKeeps ==
    ASSUME StockInv, NEW l \in Lines, NEW n \in PermitSums, PermitStep(l, n)
    PROVE  StockInv' /\ UNCHANGED <<orderTables, requestVars>>
BY BoundAssumption DEF PermitStep, StockInv, StockTypeOK, stockTables

-----------------------------------------------------------------------------
(* IInv is inductive. *)

LEMMA InitEstablishes == Init => IInv
<1> SUFFICES ASSUME Init PROVE IInv
  OBVIOUS
<1>1. stock \in [Items -> CountedRows] /\ StockTypeOK
  <2>1. stock \in [Items -> CountedRows]
    <3>1. ASSUME NEW i \in Items, NEW l \in Locations
          PROVE  [onHand |-> OpeningStock[i][l], reserved |-> 0] \in [onHand : Nat, reserved : Nat]
      BY BoundAssumption
    <3> QED BY <3>1 DEF Init, CountedRows
  <2>2. permitted \in [Lines -> Nat]
    BY BoundAssumption DEF Init
  <2>3. /\ qtySold \in [Items -> Nat] /\ moved \in [Items -> Int]
        /\ shipped \in [Orders -> [Items -> [Lines -> Nat]]]
    BY IdleValues DEF Init
  <2> QED BY <2>1, <2>2, <2>3, CountedAreRows DEF StockTypeOK
<1>2. OrderTypeOK
  BY IdleValues DEF Init, OrderTypeOK, OrderStatus, QuotationStatus
<1>3. RequestTypeOK /\ work \in [Requests -> [Items -> CountedRows]]
  BY IdleValues, CountedAreRows DEF Init, RequestTypeOK, Step
<1>4. RequestsWellFormed
  BY IdleValues DEF Init, RequestsWellFormed, QuotationWork, QuotationStatus
<1> QED BY <1>1, <1>2, <1>3, <1>4 DEF IInv, StockInv, RequestInv

LEMMA SalesOrdersKeep ==
    ASSUME IInv, NEW r \in Requests, SalesOrdersStep(r)
    PROVE  IInv'
<1> USE DEF IInv
<1>1. CASE \E q \in Quotations : IntakeRead(r, q)
  BY <1>1, IntakeReadKeeps, OrdersKept, StockKept DEF IntakeRead
<1>2. CASE \E o \in Orders, S \in SUBSET Lines : IntakeInsert(r, o, S)
  <2>1. PICK o \in Orders, S \in SUBSET Lines : IntakeInsert(r, o, S)
    BY <1>2
  <2>2. Finish(r) /\ UNCHANGED <<stockTables, permitted>>
    BY <2>1 DEF IntakeInsert
  <2>3. OrderTypeOK'
    BY <2>1, IntakeInsertKeeps
  <2> QED BY <2>2, <2>3, StockKept, FinishKeepsRequests
<1>3. CASE IntakeExisting(r)
  BY <1>3, RefusalKeeps DEF IntakeExisting
<1>4. CASE \E o \in Orders : AddLineRead(r, o)
  BY <1>4, AddLineReadKeeps, OrdersKept, StockKept DEF AddLineRead
<1>5. CASE \E o \in Orders : ConfirmRead(r, o)
  BY <1>5, ConfirmReadKeeps, OrdersKept, StockKept DEF ConfirmRead
<1>6. CASE \E o \in Orders : CancelRead(r, o)
  BY <1>6, CancelReadKeeps, OrdersKept, StockKept DEF CancelRead
<1>7. CASE \/ \E l \in Lines, i \in Items, n \in 1..MaxQty :
                 AddLineInsert(r, l, i, n) \/ UpdateLineSave(r, l, i, n)
           \/ RemoveLineDelete(r)
  BY <1>7, LineEditKeeps, StockKept, FinishKeepsRequests
<1>8. CASE \E l \in Lines, edit \in {"updateLine", "removeLine"} : EditRead(r, l, edit)
  <2>1. PICK l \in Lines, edit \in {"updateLine", "removeLine"} : EditRead(r, l, edit)
    BY <1>8
  <2>2. RequestInv'
    BY <2>1, EditReadKeeps
  <2> QED BY <2>1, <2>2, OrdersKept, StockKept DEF EditRead
<1>9. CASE ConfirmLock(r)
  BY <1>9, ConfirmLockKeeps, OrdersKept, StockKept DEF ConfirmLock
<1>10. CASE \E l \in Lines : ReserveLine(r, l)
  BY <1>10, ReserveLineKeeps, OrdersKept, StockKept DEF ReserveLine
<1>11. CASE ConfirmCommit(r)
  BY <1>11, ConfirmCommitKeeps, FinishKeepsRequests DEF ConfirmCommit
<1>12. CASE ConfirmRefused(r) \/ CancelRefused(r)
  BY <1>12, RefusalKeeps DEF ConfirmRefused, CancelRefused
<1>13. CASE CancelFind(r)
  BY <1>13, CancelFindKeeps, OrdersKept, StockKept DEF CancelFind
<1>14. CASE CancelCommit(r)
  BY <1>14, CancelCommitKeeps, FinishKeepsRequests DEF CancelCommit
<1>15. CASE ConfirmFindQuotation(r)
  BY <1>15, ConfirmFindQuotationKeeps, OrdersKept, StockKept DEF ConfirmFindQuotation
<1> QED
  BY <1>1, <1>2, <1>3, <1>4, <1>5, <1>6, <1>7, <1>8, <1>9, <1>10, <1>11, <1>12, <1>13, <1>14, <1>15
     DEF SalesOrdersStep

LEMMA DeliveriesKeep ==
    ASSUME IInv, NEW r \in Requests, DeliveriesStep(r)
    PROVE  IInv'
<1> USE DEF IInv
<1>1. CASE \E o \in Orders, ask \in [Lines -> 0..MaxQty] : DeliverRead(r, o, ask)
  BY <1>1, DeliverReadKeeps, OrdersKept, StockKept DEF DeliverRead
<1>2. CASE PermitGate(r)
  BY <1>2, PermitGateKeeps, OrdersKept, StockKept DEF PermitGate
<1>3. CASE PermitRefused(r) \/ HandOverRefused(r) \/ DeliverRefused(r)
  BY <1>3, RefusalKeeps DEF PermitRefused, HandOverRefused, DeliverRefused
<1>4. CASE DeliverLock(r)
  BY <1>4, DeliverLockKeeps, OrdersKept, StockKept DEF DeliverLock
<1>5. CASE \E l \in Lines : HandOverLine(r, l)
  BY <1>5, HandOverLineKeeps, OrdersKept, StockKept DEF HandOverLine
<1>6. CASE DeliverCommit(r)
  BY <1>6, DeliverCommitKeeps, FinishKeepsRequests DEF DeliverCommit
<1> QED BY <1>1, <1>2, <1>3, <1>4, <1>5, <1>6 DEF DeliveriesStep

LEMMA NextKeeps ==
    ASSUME IInv, [Next]_vars
    PROVE  IInv'
<1> USE DEF IInv
<1>1. CASE OrderStep
  <2>1. CASE \E o \in Orders : CreateOrder(o)
    BY <2>1, CreateOrderKeeps, StockKept, RequestsKept DEF CreateOrder
  <2>2. CASE \E o \in Orders, l \in Lines, n \in 1..MaxQty : SellOnOrder(o, l, n)
    <3>1. PICK o \in Orders, l \in Lines, n \in 1..MaxQty : SellOnOrder(o, l, n)
      BY <2>2
    <3>2. OrderTypeOK' /\ StockInv'
      BY <3>1, SellOnOrderKeeps
    <3>3. UNCHANGED requestVars
      BY <3>1 DEF SellOnOrder
    <3> QED BY <3>2, <3>3, RequestsKept
  <2> QED BY <1>1, <2>1, <2>2 DEF OrderStep
<1>2. CASE MoveStep
  BY <1>2, MoveStepKeeps, OrdersKept, RequestsKept
<1>3. CASE \E q \in Quotations : ExpireOutdated(q)
  <2>1. OrderTypeOK'
    BY <1>3, QuotationSavedKeeps DEF ExpireOutdated, QuotationStatus
  <2> QED BY <1>3, <2>1, StockKept, RequestsKept DEF ExpireOutdated
<1>4. CASE \E r \in Requests : SalesOrdersStep(r)
  BY <1>4, SalesOrdersKeep
<1>5. CASE \E r \in Requests : Rollback(r)
  BY <1>5, RefusalKeeps DEF Rollback
<1>6. CASE \E r \in Requests : DeliveriesStep(r)
  BY <1>6, DeliveriesKeep
<1>7. CASE \E l \in Lines, n \in PermitSums : PermitStep(l, n)
  BY <1>7, PermitStepKeeps, OrdersKept, RequestsKept
<1>8. CASE \E r \in Requests : QuotationsStep(r)
  <2>1. PICK r \in Requests : QuotationsStep(r)
    BY <1>8
  <2>2. CASE \E q \in Quotations, s \in QuotationStatus : StatusRead(r, q, s)
    BY <2>2, StatusReadKeeps, OrdersKept, StockKept DEF StatusRead
  <2>3. CASE StatusSave(r)
    <3>1. OrderTypeOK'
      BY <2>3, QuotationSavedKeeps DEF StatusSave
    <3> QED BY <2>3, <3>1, StockKept, FinishKeepsRequests DEF StatusSave
  <2> QED BY <2>1, <2>2, <2>3 DEF QuotationsStep
<1>9. CASE UNCHANGED vars
  BY <1>9, OrdersKept, StockKept, RequestsKept DEF vars
<1> QED BY <1>1, <1>2, <1>3, <1>4, <1>5, <1>6, <1>7, <1>8, <1>9 DEF Next, DeskNext

(* IInv holds in every state that requests can reach together. *)
THEOREM Invariance == Spec => []IInv
BY InitEstablishes, NextKeeps, PTL DEF Spec

(* Every table and every request's variables keep their types: no counter   *)
(* of the schema becomes negative, whatever requests overlap.               *)
THEOREM TypeCorrect == Spec => []TypeOK
<1>1. IInv => TypeOK
  BY DEF IInv, StockInv, RequestInv, TypeOK
<1> QED BY <1>1, Invariance, PTL

(* No stock row ever shows a negative number of units, on hand or reserved: *)
(* the checks of the stock engine, made on rows read under FOR UPDATE and   *)
(* written by the same transaction, are enough.                             *)
THEOREM StockNeverNegative == Spec => []NonNegativeStock
<1>1. IInv => NonNegativeStock
  BY DEF IInv, StockInv, CountedRows, NonNegativeStock
<1> QED BY <1>1, Invariance, PTL

-----------------------------------------------------------------------------
(* An unconfirmed order holds and has shipped nothing, and a quotation has  *)
(* at most one order that is not cancelled.                                 *)

(* The tables of every order but o are left alone. *)
OthersAlone(o) ==
    \A p \in Orders \ {o} :
        status'[p] = status[p] /\ resv'[p] = resv[p] /\ shipped'[p] = shipped[p]

(* A step writes one order, takes it out of Draft and may move its stock;   *)
(* or it moves no order's stock and puts no order back to Draft.            *)
WritesOrder(o) == OthersAlone(o) /\ status'[o] \notin {"None", "Draft"}
MovesNothing ==
    /\ UNCHANGED <<resv, shipped>>
    /\ \A o \in Orders : status'[o] \in {"None", "Draft"} => status[o] \in {"None", "Draft"}

LEMMA UnchangedMovesNothing ==
    ASSUME UNCHANGED <<status, resv, shipped>>
    PROVE  MovesNothing
BY DEF MovesNothing

LEMMA CommitWrites ==
    ASSUME IInv, NEW r \in Requests, ConfirmCommit(r) \/ CancelCommit(r) \/ DeliverCommit(r)
    PROVE  target[r] \in Orders /\ WritesOrder(target[r])
<1>1. target[r] \in Orders
  BY DEF ConfirmCommit, Reserved, CancelCommit, DeliverCommit, IInv, RequestInv, RequestsWellFormed, QuotationWork, QuotationStatus
<1>2. CASE ConfirmCommit(r)
  BY <1>1, <1>2 DEF ConfirmCommit, WritesOrder, OthersAlone, Became, IInv, StockInv, StockTypeOK, OrderTypeOK
<1>3. CASE CancelCommit(r)
  BY <1>1, <1>3 DEF CancelCommit, WritesOrder, OthersAlone, Became, IInv, StockInv, StockTypeOK, OrderTypeOK
<1>4. CASE DeliverCommit(r)
  <2>1. status'[target[r]] \in {"Closed", "Delivered"}
    BY <1>1, <1>4 DEF DeliverCommit, Became, IInv, OrderTypeOK
  <2> QED
    BY <1>1, <1>4, <2>1 DEF DeliverCommit, WritesOrder, OthersAlone, Became,
       IInv, StockInv, StockTypeOK, OrderTypeOK
<1> QED BY <1>1, <1>2, <1>3, <1>4

LEMMA SaleWrites ==
    ASSUME IInv, NEW o \in Orders, NEW l \in Lines, NEW n \in 1..MaxQty, SellOnOrder(o, l, n)
    PROVE  WritesOrder(o)
<1>1. status'[o] \in {"Closed", "Delivered"}
  BY DEF SellOnOrder, Became, IInv, OrderTypeOK
<1>2. \A p \in Orders \ {o} : status'[p] = status[p] /\ shipped'[p] = shipped[p]
  BY DEF SellOnOrder, Became, IInv, StockInv, StockTypeOK, OrderTypeOK
<1>3. \A p \in Orders \ {o} : resv'[p] = resv[p]
  BY DEF SellOnOrder, IInv, OrderTypeOK
<1> QED BY <1>1, <1>2, <1>3 DEF WritesOrder, OthersAlone

LEMMA NewOrderMovesNothing ==
    ASSUME IInv, NEW o \in Orders,
           \/ CreateOrder(o)
           \/ \E r \in Requests, S \in SUBSET Lines : IntakeInsert(r, o, S)
    PROVE  MovesNothing
BY DEF CreateOrder, IntakeInsert, MovesNothing, stockTables, IInv, OrderTypeOK

(* Every step is of one of the two kinds. *)
LEMMA StepKind ==
    ASSUME IInv, [Next]_vars
    PROVE  MovesNothing \/ \E o \in Orders : WritesOrder(o)
<1>1. CASE OrderStep
  BY <1>1, NewOrderMovesNothing, SaleWrites DEF OrderStep
<1>2. CASE MoveStep
  <2>1. PICK i \in Items, l \in Locations, n \in 1..MaxQty :
           \/ \E to \in Locations : Transfer(i, l, to, n)
           \/ WalkInSale(i, l, n) \/ Return(i, l, n)
           \/ Increase(i, l, n) \/ Decrease(i, l, n)
    BY <1>2 DEF MoveStep
  <2>2. UNCHANGED <<status, resv, shipped>>
    BY <2>1 DEF Transfer, WalkInSale, Return, Increase, Decrease, orderTables
  <2> QED BY <2>2, UnchangedMovesNothing
<1>3. ASSUME NEW r \in Requests, SalesOrdersStep(r)
      PROVE  MovesNothing \/ \E o \in Orders : WritesOrder(o)
  <2>1. CASE ConfirmCommit(r) \/ CancelCommit(r)
    BY <2>1, CommitWrites
  <2>2. CASE \E o \in Orders, S \in SUBSET Lines : IntakeInsert(r, o, S)
    BY <2>2, NewOrderMovesNothing
  <2>3. CASE ~(ConfirmCommit(r) \/ CancelCommit(r) \/
               \E o \in Orders, S \in SUBSET Lines : IntakeInsert(r, o, S))
    <3>1. UNCHANGED <<status, resv, shipped>>
      BY <1>3, <2>3 DEF SalesOrdersStep, IntakeRead, IntakeExisting, AddLineRead, AddLineInsert,
         EditRead, UpdateLineSave, RemoveLineDelete, ConfirmRead, ConfirmLock, ReserveLine,
         ConfirmFindQuotation, ConfirmRefused, CancelRead, CancelFind, CancelRefused, orderTables, stockTables
    <3> QED BY <3>1, UnchangedMovesNothing
  <2> QED BY <2>1, <2>2, <2>3
<1>4. ASSUME NEW r \in Requests, DeliveriesStep(r)
      PROVE  MovesNothing \/ \E o \in Orders : WritesOrder(o)
  <2>1. CASE DeliverCommit(r)
    BY <2>1, CommitWrites
  <2>2. CASE ~DeliverCommit(r)
    <3>1. UNCHANGED <<status, resv, shipped>>
      BY <1>4, <2>2 DEF DeliveriesStep, DeliverRead, PermitGate, PermitRefused, DeliverLock,
         HandOverLine, HandOverRefused, DeliverRefused, orderTables, stockTables
    <3> QED BY <3>1, UnchangedMovesNothing
  <2> QED BY <2>1, <2>2
<1>5. CASE \/ \E r \in Requests : Rollback(r) \/ QuotationsStep(r)
           \/ \E q \in Quotations : ExpireOutdated(q)
           \/ \E l \in Lines, n \in PermitSums : PermitStep(l, n)
           \/ UNCHANGED vars
  <2>1. UNCHANGED <<status, resv, shipped>>
    BY <1>5 DEF Rollback, QuotationsStep, StatusRead, StatusSave, ExpireOutdated, PermitStep,
       vars, orderTables, stockTables
  <2> QED BY <2>1, UnchangedMovesNothing
<1> QED BY <1>1, <1>2, <1>3, <1>4, <1>5 DEF Next, DeskNext

(* An order that nobody confirmed holds no stock and has shipped nothing.   *)
THEOREM DraftsHoldNothing == Spec => []DraftHoldsNothing
<1>1. Init => DraftHoldsNothing
  BY DEF Init, DraftHoldsNothing
<1>2. IInv /\ DraftHoldsNothing /\ [Next]_vars => DraftHoldsNothing'
  <2> SUFFICES ASSUME IInv, DraftHoldsNothing, [Next]_vars, NEW o \in Orders,
                      status'[o] \in {"None", "Draft"}
               PROVE  resv'[o] = NothingHeld /\ \A i \in Items : shipped'[o][i] = NothingAsked
    BY DEF DraftHoldsNothing
  <2>1. CASE MovesNothing
    BY <2>1 DEF MovesNothing, DraftHoldsNothing
  <2>2. CASE \E p \in Orders : WritesOrder(p)
    BY <2>2 DEF WritesOrder, OthersAlone, DraftHoldsNothing
  <2> QED BY <2>1, <2>2, StepKind
<1> QED BY <1>1, <1>2, Invariance, PTL DEF Spec

-----------------------------------------------------------------------------
(* What a step may do to the statuses and sources of orders: write one      *)
(* order's status in a way that the unique index lets through, or give a    *)
(* new order a quotation that no active order has.                          *)
MayBeActive(o) ==
    \/ status'[o] = "Cancelled"
    \/ status[o] \notin {"None", "Cancelled"}
    \/ source[o] = NoQuotation
    \/ SoleActive(o)

StatusWritten(o) ==
    /\ source' = source
    /\ \A p \in Orders \ {o} : status'[p] = status[p]
    /\ status'[o] # "None"
    /\ MayBeActive(o)

OrderTaken(o, q) ==
    /\ \A p \in Orders : source[p] = q => status[p] \in {"None", "Cancelled"}
    /\ \A p \in Orders \ {o} : status'[p] = status[p] /\ source'[p] = source[p]
    /\ status'[o] = "Draft" /\ source'[o] = q

LEMMA StatusKinds ==
    ASSUME IInv, SourceInv, [Next]_vars
    PROVE  \/ UNCHANGED <<status, source>>
           \/ \E o \in Orders : StatusWritten(o)
           \/ \E o \in Orders, q \in Quotations : OrderTaken(o, q)
<1>1. CASE OrderStep
  <2>1. ASSUME NEW o \in Orders, CreateOrder(o) PROVE StatusWritten(o)
    BY <2>1 DEF CreateOrder, StatusWritten, MayBeActive, SourceInv, IInv, OrderTypeOK
  <2>2. ASSUME NEW o \in Orders, NEW l \in Lines, NEW n \in 1..MaxQty, SellOnOrder(o, l, n)
        PROVE  StatusWritten(o)
    <3>1. status'[o] \in {"Closed", "Delivered"} /\ source' = source
      BY <2>2 DEF SellOnOrder, Became, IInv, OrderTypeOK
    <3>2. \A p \in Orders \ {o} : status'[p] = status[p]
      BY <2>2 DEF SellOnOrder, Became, IInv, OrderTypeOK
    <3>3. status[o] \notin {"None", "Cancelled"}
      BY <2>2 DEF SellOnOrder
    <3> QED BY <3>1, <3>2, <3>3 DEF StatusWritten, MayBeActive
  <2> QED BY <1>1, <2>1, <2>2 DEF OrderStep
<1>2. CASE MoveStep
  BY <1>2, MoveStepKeeps DEF IInv, orderTables
<1>3. CASE \/ \E r \in Requests : QuotationsStep(r)
           \/ \E q \in Quotations : ExpireOutdated(q)
  BY <1>3 DEF QuotationsStep, StatusRead, StatusSave, ExpireOutdated, orderTables
<1>4. ASSUME NEW r \in Requests, SalesOrdersStep(r)
      PROVE  \/ UNCHANGED <<status, source>>
             \/ \E o \in Orders : StatusWritten(o)
             \/ \E o \in Orders, q \in Quotations : OrderTaken(o, q)
  <2>1. CASE ConfirmCommit(r)
    <3>1. target[r] \in Orders /\ source' = source /\ SoleActive(target[r])
      BY <2>1, CommitWrites DEF ConfirmCommit
    <3>2. status' = [status EXCEPT ![target[r]] = "Confirmed"]
      BY <2>1 DEF ConfirmCommit, Became
    <3> QED BY <3>1, <3>2 DEF StatusWritten, MayBeActive, IInv, OrderTypeOK
  <2>2. CASE CancelCommit(r)
    <3>1. target[r] \in Orders /\ source' = source
      BY <2>2, CommitWrites DEF CancelCommit
    <3>2. status' = [status EXCEPT ![target[r]] = "Cancelled"]
      BY <2>2 DEF CancelCommit, Became
    <3> QED BY <3>1, <3>2 DEF StatusWritten, MayBeActive, IInv, OrderTypeOK
  <2>3. ASSUME NEW o \in Orders, NEW S \in SUBSET Lines, IntakeInsert(r, o, S)
        PROVE  target[r] \in Quotations /\ OrderTaken(o, target[r])
    <3>1. target[r] \in Quotations
      BY <2>3 DEF IntakeInsert, IInv, RequestInv, RequestsWellFormed, QuotationWork, QuotationStatus
    <3> QED BY <2>3, <3>1 DEF IntakeInsert, OrderTaken, IInv, OrderTypeOK
  <2>4. CASE ~(ConfirmCommit(r) \/ CancelCommit(r) \/
               \E o \in Orders, S \in SUBSET Lines : IntakeInsert(r, o, S))
    BY <1>4, <2>4 DEF SalesOrdersStep, IntakeRead, IntakeExisting, AddLineRead, AddLineInsert,
       EditRead, UpdateLineSave, RemoveLineDelete, ConfirmRead, ConfirmLock, ReserveLine,
       ConfirmFindQuotation, ConfirmRefused, CancelRead, CancelFind, CancelRefused, orderTables
  <2> QED BY <2>1, <2>2, <2>3, <2>4
<1>5. ASSUME NEW r \in Requests, DeliveriesStep(r)
      PROVE  UNCHANGED <<status, source>> \/ \E o \in Orders : StatusWritten(o)
  <2>1. CASE DeliverCommit(r)
    <3>1. target[r] \in Orders /\ source' = source /\ SoleActive(target[r])
      BY <2>1, CommitWrites DEF DeliverCommit
    <3>2. status'[target[r]] # "None" /\ \A p \in Orders \ {target[r]} : status'[p] = status[p]
      BY <2>1, CommitWrites DEF WritesOrder, OthersAlone
    <3> QED BY <3>1, <3>2 DEF StatusWritten, MayBeActive
  <2>2. CASE ~DeliverCommit(r)
    BY <1>5, <2>2 DEF DeliveriesStep, DeliverRead, PermitGate, PermitRefused, DeliverLock,
       HandOverLine, HandOverRefused, DeliverRefused, orderTables
  <2> QED BY <2>1, <2>2
<1>6. CASE \/ \E r \in Requests : Rollback(r)
           \/ \E l \in Lines, n \in PermitSums : PermitStep(l, n)
           \/ UNCHANGED vars
  BY <1>6 DEF Rollback, PermitStep, vars, orderTables
<1> QED BY <1>1, <1>2, <1>3, <1>4, <1>5, <1>6 DEF Next, DeskNext

LEMMA SourceKept ==
    ASSUME IInv, SourceInv, [Next]_vars
    PROVE  SourceInv'
<1> USE DEF SourceInv, OneActiveOrderPerQuotation
<1>1. CASE UNCHANGED <<status, source>>
  BY <1>1
<1>2. ASSUME NEW o \in Orders, StatusWritten(o) PROVE SourceInv'
  <2>1. ASSUME NEW p \in Orders, status'[p] = "None" PROVE source'[p] = NoQuotation
    BY <1>2, <2>1 DEF StatusWritten
  <2>2. ASSUME NEW a \in Orders, NEW b \in Orders, a # b,
               source'[a] # NoQuotation, source'[a] = source'[b]
        PROVE  "Cancelled" \in {status'[a], status'[b]}
    BY <1>2, <2>2 DEF StatusWritten, MayBeActive, SoleActive
  <2> QED BY <2>1, <2>2
<1>3. ASSUME NEW o \in Orders, NEW q \in Quotations, OrderTaken(o, q) PROVE SourceInv'
  <2>1. q # NoQuotation
    BY NoValueAssumption
  <2>2. ASSUME NEW p \in Orders, status'[p] = "None" PROVE source'[p] = NoQuotation
    BY <1>3, <2>2 DEF OrderTaken
  <2>3. ASSUME NEW a \in Orders, NEW b \in Orders, a # b,
               source'[a] # NoQuotation, source'[a] = source'[b]
        PROVE  "Cancelled" \in {status'[a], status'[b]}
    BY <1>3, <2>1, <2>3 DEF OrderTaken
  <2> QED BY <2>2, <2>3
<1> QED BY <1>1, <1>2, <1>3, StatusKinds

(* At most one order of a quotation is not cancelled: the filtered unique   *)
(* index is checked by every write that may make an order active, also by a *)
(* confirmation that brings a cancelled order back.                         *)
THEOREM OneActiveOrder == Spec => []OneActiveOrderPerQuotation
<1>1. Init => SourceInv
  BY DEF Init, SourceInv, OneActiveOrderPerQuotation
<1>2. IInv /\ SourceInv /\ [Next]_vars => SourceInv'
  BY SourceKept
<1>3. SourceInv => OneActiveOrderPerQuotation
  BY DEF SourceInv
<1> QED BY <1>1, <1>2, <1>3, Invariance, PTL DEF Spec

-----------------------------------------------------------------------------
(* What the operators of the stock engine do to the units on hand.          *)

LEMMA OnHandInt ==
    ASSUME NEW rows \in CountedRows
    PROVE  OnHand(rows) \in Int
<1> DEFINE f == [l \in Locations |-> rows[l].onHand]
<1>1. \A l \in Locations : f[l] \in Int
  BY DEF CountedRows
<1> HIDE DEF f
<1>2. SumFunctionOnSet(f, Locations) \in Int
  BY <1>1, SumInt, LocationsAssumption
<1> QED BY <1>2 DEF OnHand, Total, f

LEMMA TotalInt ==
    ASSUME NEW take \in Quantities
    PROVE  Total(take) \in Int
<1>1. \A l \in Locations : take[l] \in Int
  BY DEF Quantities
<1> QED BY <1>1, SumInt, LocationsAssumption DEF Total

(* Rows that differ in their reserved units have as much on hand.           *)
LEMMA OnHandSame ==
    ASSUME NEW rows, NEW others, \A l \in Locations : rows[l].onHand = others[l].onHand
    PROVE  OnHand(rows) = OnHand(others)
<1>1. [l \in Locations |-> rows[l].onHand] = [l \in Locations |-> others[l].onHand]
  OBVIOUS
<1> QED BY <1>1, Zenon DEF OnHand

(* A row that has n units more, and the others unchanged.                   *)
LEMMA OnHandMoved ==
    ASSUME NEW rows \in CountedRows, NEW l \in Locations, NEW n \in Int, NEW others,
           others[l].onHand = rows[l].onHand + n,
           \A m \in Locations \ {l} : others[m].onHand = rows[m].onHand
    PROVE  OnHand(others) = OnHand(rows) + n
<1> DEFINE f == [m \in Locations |-> rows[m].onHand]
           g == [m \in Locations |-> others[m].onHand]
<1>1. \A m \in Locations : f[m] \in Int
  BY DEF CountedRows
<1>2. \A m \in Locations \ {l} : g[m] = f[m]
  OBVIOUS
<1>3. g[l] = f[l] + n /\ g[l] \in Int
  BY <1>1
<1>4. IsFiniteSet(Locations)
  BY LocationsAssumption
<1> HIDE DEF f, g
<1>5. SumFunctionOnSet(g, Locations) = SumFunctionOnSet(f, Locations) + g[l] - f[l]
  BY <1>1, <1>2, <1>3, <1>4, SumChange
<1>6. SumFunctionOnSet(f, Locations) \in Int /\ f[l] \in Int
  BY <1>1, <1>4, SumInt
<1>7. SumFunctionOnSet(g, Locations) = SumFunctionOnSet(f, Locations) + n
  BY <1>3, <1>5, <1>6
<1> QED BY <1>7 DEF OnHand, Total, f, g

(* applyStockMove. *)
LEMMA OnHandOfMove ==
    ASSUME NEW rows \in CountedRows, NEW l \in Locations, NEW n \in Nat
    PROVE  /\ OnHand(Incremented(rows, l, n)) = OnHand(rows) + n
           /\ OnHand(Decremented(rows, l, n)) = OnHand(rows) - n
<1>1. /\ Incremented(rows, l, n)[l].onHand = rows[l].onHand + n
      /\ \A m \in Locations \ {l} : Incremented(rows, l, n)[m].onHand = rows[m].onHand
  BY DEF CountedRows, Incremented
<1>2. /\ Decremented(rows, l, n)[l].onHand = rows[l].onHand + (0 - n)
      /\ \A m \in Locations \ {l} : Decremented(rows, l, n)[m].onHand = rows[m].onHand
  BY DEF CountedRows, Decremented
<1>3. OnHand(Incremented(rows, l, n)) = OnHand(rows) + n
  BY <1>1, OnHandMoved
<1>4. OnHand(Decremented(rows, l, n)) = OnHand(rows) + (0 - n)
  BY <1>2, OnHandMoved
<1> QED BY <1>3, <1>4, OnHandInt

(* reserveBestEffort and releaseReservation move no unit.                   *)
LEMMA OnHandOfHold ==
    ASSUME NEW rows \in CountedRows, NEW take
    PROVE  /\ OnHand(WithReserved(rows, take)) = OnHand(rows)
           /\ OnHand(WithReleased(rows, take)) = OnHand(rows)
<1>1. \A l \in Locations : WithReserved(rows, take)[l].onHand = rows[l].onHand
  BY DEF CountedRows, WithReserved
<1>2. \A l \in Locations : WithReleased(rows, take)[l].onHand = rows[l].onHand
  BY DEF CountedRows, WithReleased
<1> QED BY <1>1, <1>2, OnHandSame

(* deliverFromReservations takes exactly the quantity asked for.            *)
LEMMA OnHandOfDelivery ==
    ASSUME NEW rows \in CountedRows, NEW rsv \in Quantities, NEW qty \in Nat,
           NEW taken \in FromReserved(rows, rsv, qty),
           NEW free \in FromFree(rows, taken, qty)
    PROVE  OnHand(Consumed(rows, taken, free)) = OnHand(rows) - qty
<1> DEFINE after == [l \in Locations |-> Consumed(rows, taken, free)[l].onHand]
           before == [l \in Locations |-> rows[l].onHand]
           both == [l \in Locations |-> taken[l] + free[l]]
<1>1. taken \in Quantities /\ free \in Quantities
  BY GreedyBounds DEF FromReserved, FromFree
<1>2. \A l \in Locations : taken[l] \in Int /\ free[l] \in Int /\ both[l] = taken[l] + free[l]
  BY <1>1 DEF Quantities
<1>3. \A l \in Locations : after[l] \in Int /\ before[l] = after[l] + both[l]
  BY <1>2 DEF CountedRows, Consumed
<1>4. \A l \in Locations : both[l] \in Int
  BY <1>2
<1>5. IsFiniteSet(Locations)
  BY LocationsAssumption
<1>6. Total(free) = qty - Total(taken)
  BY DEF FromFree
<1> HIDE DEF after, before, both
<1>7. SumFunctionOnSet(both, Locations)
        = SumFunctionOnSet(taken, Locations) + SumFunctionOnSet(free, Locations)
  BY <1>2, <1>5, SumPlus
<1>8. SumFunctionOnSet(before, Locations)
        = SumFunctionOnSet(after, Locations) + SumFunctionOnSet(both, Locations)
  BY <1>3, <1>4, <1>5, SumPlus
<1>9. /\ SumFunctionOnSet(after, Locations) \in Int
      /\ SumFunctionOnSet(taken, Locations) \in Int
  BY <1>2, <1>3, <1>5, SumInt
<1>10. SumFunctionOnSet(after, Locations) = SumFunctionOnSet(before, Locations) - qty
  BY <1>6, <1>7, <1>8, <1>9 DEF Total
<1> QED BY <1>10 DEF OnHand, Total, after, before

-----------------------------------------------------------------------------
(* What a delivery has taken.                                               *)

LEMMA TakenInt ==
    ASSUME NEW read, NEW left, NEW ask \in [Lines -> Nat], NEW i
    PROVE  TakenOf(read, left, ask, i) \in Int
<1> DEFINE f == [l \in Lines |-> IF read[l].item = i /\ l \notin left THEN ask[l] ELSE 0]
<1>1. \A l \in Lines : f[l] \in Int
  OBVIOUS
<1> HIDE DEF f
<1>2. SumFunctionOnSet(f, Lines) \in Int
  BY <1>1, SumInt, TablesAssumption
<1> QED BY <1>2 DEF TakenOf, f

LEMMA TakenNothing ==
    ASSUME NEW read, NEW left, NEW ask, NEW i,
           \A l \in Lines : (read[l].item = i /\ l \notin left) => ask[l] = 0
    PROVE  TakenOf(read, left, ask, i) = 0
<1> DEFINE f == [l \in Lines |-> IF read[l].item = i /\ l \notin left THEN ask[l] ELSE 0]
<1>1. \A l \in Lines : f[l] = 0
  OBVIOUS
<1> HIDE DEF f
<1>2. SumFunctionOnSet(f, Lines) = 0
  BY <1>1, SumZero, TablesAssumption
<1> QED BY <1>2 DEF TakenOf, f

(* The loop passes line l.                                                  *)
LEMMA TakenOne ==
    ASSUME NEW read, NEW read2, NEW left \in SUBSET Lines, NEW l \in left,
           NEW left2, left2 = left \ {l}, NEW ask \in [Lines -> Nat],
           \A m \in Lines : read2[m].item = read[m].item
    PROVE  /\ TakenOf(read2, left2, ask, read[l].item)
                = TakenOf(read, left, ask, read[l].item) + ask[l]
           /\ \A i : i # read[l].item =>
                TakenOf(read2, left2, ask, i) = TakenOf(read, left, ask, i)
<1>1. ASSUME NEW i
      PROVE  TakenOf(read2, left2, ask, i)
               = TakenOf(read, left, ask, i) + IF read[l].item = i THEN ask[l] ELSE 0
  <2> DEFINE f == [m \in Lines |-> IF read[m].item = i /\ m \notin left THEN ask[m] ELSE 0]
             g == [m \in Lines |-> IF read2[m].item = i /\ m \notin left2 THEN ask[m] ELSE 0]
  <2>1. \A m \in Lines : f[m] \in Int
    OBVIOUS
  <2>2. \A m \in Lines \ {l} : g[m] = f[m]
    OBVIOUS
  <2>3. l \in Lines /\ f[l] = 0 /\ g[l] = (IF read[l].item = i THEN ask[l] ELSE 0) /\ g[l] \in Int
    OBVIOUS
  <2>4. IsFiniteSet(Lines)
    BY TablesAssumption
  <2> HIDE DEF f, g
  <2>5. SumFunctionOnSet(g, Lines) = SumFunctionOnSet(f, Lines) + g[l] - f[l]
    BY <2>1, <2>2, <2>3, <2>4, SumChange
  <2>6. SumFunctionOnSet(f, Lines) \in Int
    BY <2>1, <2>4, SumInt
  <2>7. SumFunctionOnSet(g, Lines) = SumFunctionOnSet(f, Lines) + g[l]
    BY <2>3, <2>5, <2>6
  <2>8. SumFunctionOnSet(g, Lines)
          = SumFunctionOnSet(f, Lines) + IF read[l].item = i THEN ask[l] ELSE 0
    BY <2>3, <2>7
  <2> QED BY <2>8 DEF TakenOf, f, g
<1>2. TakenOf(read2, left2, ask, read[l].item)
        = TakenOf(read, left, ask, read[l].item) + ask[l]
  BY <1>1
<1>3. ASSUME NEW i, i # read[l].item
      PROVE  TakenOf(read2, left2, ask, i) = TakenOf(read, left, ask, i)
  <2>1. TakenOf(read2, left2, ask, i) = TakenOf(read, left, ask, i) + 0
    BY <1>1, <1>3
  <2>2. TakenOf(read, left, ask, i) \in Int
    BY TakenInt
  <2> QED BY <2>1, <2>2
<1> QED BY <1>2, <1>3

-----------------------------------------------------------------------------
(* The locks and the copies.                                                *)

OthersStay(r) ==
    \A p \in Requests \ {r} :
        /\ pc'[p] = pc[p] /\ locks'[p] = locks[p] /\ work'[p] = work[p]
        /\ seen'[p] = seen[p] /\ todo'[p] = todo[p] /\ asked'[p] = asked[p]

CopiesInv == LocksExclusive /\ \A r \in Requests : CopyFits(r)

(* A request that the step does not move keeps a fitting copy, if the rows  *)
(* it has locked keep their units.                                          *)
LEMMA CopyKept ==
    ASSUME NEW p \in Requests, CopyFits(p),
           pc'[p] = pc[p], locks'[p] = locks[p], work'[p] = work[p],
           seen'[p] = seen[p], todo'[p] = todo[p], asked'[p] = asked[p],
           \A i \in locks[p] : OnHand(stock'[i]) = OnHand(stock[i])
    PROVE  CopyFits(p)'
BY DEF CopyFits, NothingAsked

LEMMA CopiesKept ==
    ASSUME CopiesInv, NEW r \in Requests, OthersStay(r), CopyFits(r)',
           \A p \in Requests \ {r} : locks'[r] \cap locks[p] = {},
           \A p \in Requests \ {r} : \A i \in locks[p] : OnHand(stock'[i]) = OnHand(stock[i])
    PROVE  CopiesInv'
<1>1. LocksExclusive'
  BY DEF CopiesInv, LocksExclusive, OthersStay
<1>2. ASSUME NEW p \in Requests PROVE CopyFits(p)'
  <2>1. CASE p = r
    BY <2>1
  <2>2. CASE p # r
    BY <2>2, CopyKept DEF CopiesInv, OthersStay
  <2> QED BY <2>1, <2>2
<1> QED BY <1>1, <1>2 DEF CopiesInv

(* The end of a request. *)
LEMMA FinishFrees ==
    ASSUME RequestInv, NEW r \in Requests, Finish(r)
    PROVE  OthersStay(r) /\ locks'[r] = {} /\ CopyFits(r)'
<1>1. OthersStay(r) /\ locks'[r] = {} /\ pc'[r] = "idle" /\ asked'[r] = NothingAsked
  BY DEF Finish, OthersStay, RequestInv, RequestTypeOK
<1> QED BY <1>1 DEF CopyFits, NothingAsked

(* A request that has locked nothing yet moves on without locking.          *)
LEMMA UnlockedStep ==
    ASSUME CopiesInv, NEW r \in Requests, OthersStay(r), stock' = stock,
           locks' = locks, locks'[r] = {}, pc'[r] # "handover",
           pc'[r] \notin {"deliver", "permits"} => asked'[r] = NothingAsked
    PROVE  CopiesInv'
<1>1. CopyFits(r)'
  BY DEF CopyFits, NothingAsked
<1> QED BY <1>1, CopiesKept

LEMMA ReadsKeepCopies ==
    ASSUME IInv, CopiesInv, NEW r \in Requests,
           \/ \E q \in Quotations : IntakeRead(r, q)
           \/ \E o \in Orders : AddLineRead(r, o) \/ ConfirmRead(r, o) \/ CancelRead(r, o)
           \/ \E l \in Lines, edit \in {"updateLine", "removeLine"} : EditRead(r, l, edit)
           \/ \E o \in Orders, ask \in [Lines -> 0..MaxQty] : DeliverRead(r, o, ask)
           \/ \E q \in Quotations, s \in QuotationStatus : StatusRead(r, q, s)
    PROVE  CopiesInv' /\ UNCHANGED <<stockTables>>
<1> USE DEF IntakeRead, AddLineRead, ConfirmRead, CancelRead, EditRead, DeliverRead, StatusRead
<1>1. pc[r] = "idle" /\ UNCHANGED <<stockTables, locks>>
  OBVIOUS
<1>2. /\ asked[r] = NothingAsked
      /\ pc \in [Requests -> Step] /\ asked \in [Requests -> [Lines -> Nat]]
  BY <1>1 DEF IInv, RequestInv, RequestTypeOK, RequestsWellFormed
<1>3. pc'[r] # "handover" /\ (pc'[r] # "deliver" => asked'[r] = NothingAsked)
  BY <1>2 DEF QuotationStatus
<1>4. OthersStay(r)
  BY DEF OthersStay, IInv, RequestInv, RequestTypeOK
<1>5. locks[r] = {}
  BY <1>1 DEF CopiesInv, CopyFits
<1> QED BY <1>1, <1>3, <1>4, <1>5, UnlockedStep DEF stockTables

LEMMA PassKeepsCopies ==
    ASSUME IInv, CopiesInv, NEW r \in Requests, CancelFind(r) \/ PermitGate(r)
    PROVE  CopiesInv' /\ UNCHANGED <<stockTables>>
<1> USE DEF CancelFind, PermitGate
<1>1. pc[r] \in {"cancel", "deliver"} /\ UNCHANGED <<stockTables, locks, asked>>
  OBVIOUS
<1>2. locks[r] = {} /\ (pc[r] = "cancel" => asked[r] = NothingAsked)
  BY <1>1 DEF CopiesInv, CopyFits
<1>3. pc'[r] # "handover" /\ (pc'[r] # "permits" => asked'[r] = NothingAsked)
  BY <1>2 DEF IInv, RequestInv, RequestTypeOK
<1>4. OthersStay(r)
  BY DEF OthersStay, IInv, RequestInv, RequestTypeOK
<1> QED BY <1>1, <1>2, <1>3, <1>4, UnlockedStep DEF stockTables

LEMMA FindQuotationKeepsCopies ==
    ASSUME IInv, CopiesInv, NEW r \in Requests, ConfirmFindQuotation(r)
    PROVE  CopiesInv' /\ UNCHANGED <<stockTables>>
<1> USE DEF ConfirmFindQuotation
<1>1. /\ pc[r] = "reserve" /\ pc'[r] \in {"convert", "keep"}
      /\ UNCHANGED <<stockTables, locks, asked, work, seen, todo>>
  BY DEF IInv, RequestInv, RequestTypeOK
<1>2. OthersStay(r)
  BY DEF OthersStay, IInv, RequestInv, RequestTypeOK
<1>3. CopyFits(r)'
  BY <1>1 DEF CopiesInv, CopyFits, stockTables, NothingAsked
<1>4. \A p \in Requests \ {r} : locks'[r] \cap locks[p] = {}
  BY <1>1 DEF CopiesInv, LocksExclusive
<1> QED BY <1>1, <1>2, <1>3, <1>4, CopiesKept DEF stockTables

(* Locking copies the committed rows: nothing is taken from them yet.       *)
LEMMA LocksKeepCopies ==
    ASSUME IInv, CopiesInv, NEW r \in Requests, ConfirmLock(r) \/ DeliverLock(r)
    PROVE  CopiesInv' /\ UNCHANGED <<stockTables>>
<1> DEFINE lines == IF pc[r] = "confirm" THEN Present(seen[r]) ELSE {l \in Lines : asked[r][l] > 0}
           items == ItemsOf(seen[r], lines)
<1>1. /\ pc[r] = "confirm" => ConfirmLock(r)
      /\ pc[r] # "confirm" => DeliverLock(r) /\ pc[r] = "permits"
  BY DEF ConfirmLock, DeliverLock
<1>2. TakeLocks(r, items) /\ UNCHANGED <<stockTables, seen, asked>>
  BY <1>1 DEF ConfirmLock, DeliverLock
<1>3. pc'[r] = IF pc[r] = "confirm" THEN "reserve" ELSE "handover"
  BY <1>1 DEF ConfirmLock, DeliverLock, IInv, RequestInv, RequestTypeOK
<1>4. todo'[r] = lines
  BY <1>1 DEF ConfirmLock, DeliverLock, IInv, RequestInv, RequestTypeOK
<1>5. lines \subseteq Present(seen[r])
  BY DEF Present, IInv, RequestInv, RequestsWellFormed
<1>6. items \subseteq Items
  BY <1>5 DEF ItemsOf, Present, IInv, RequestInv, RequestTypeOK, LineTable, LineRow
<1>7. pc[r] = "confirm" => asked[r] = NothingAsked
  BY DEF CopiesInv, CopyFits
<1>8. \A l \in Lines : l \notin lines => asked[r][l] = 0
  BY <1>7 DEF NothingAsked, IInv, RequestInv, RequestTypeOK
<1>9. \A l \in Lines : asked[r][l] > 0 => l \in lines
  BY <1>8
<1>10. locks'[r] = items /\ \A i \in items : work'[r][i] = stock[i]
  BY <1>2, <1>6 DEF TakeLocks, IInv, RequestInv, RequestTypeOK
<1>11. OthersStay(r)
  BY <1>1 DEF ConfirmLock, DeliverLock, TakeLocks, OthersStay, IInv, RequestInv, RequestTypeOK
<1>12. CopyFits(r)'
  <2>1. /\ locks'[r] # {} => pc'[r] \in {"reserve", "convert", "keep", "handover"}
        /\ pc'[r] \notin {"deliver", "permits", "handover"} => asked'[r] = NothingAsked
    BY <1>2, <1>3, <1>7
  <2>2. \A l \in Lines : asked'[r][l] > 0 => seen'[r][l].item \in locks'[r]
    BY <1>2, <1>9, <1>10 DEF ItemsOf
  <2>3. ASSUME NEW i \in locks'[r]
        PROVE  OnHand(work'[r][i]) + TakenOf(seen'[r], todo'[r], asked'[r], i) = OnHand(stock'[i])
    <3>1. TakenOf(seen'[r], todo'[r], asked'[r], i) = 0
      BY <1>2, <1>4, <1>8, TakenNothing
    <3>2. work'[r][i] = stock[i] /\ stock'[i] = stock[i]
      BY <1>2, <1>10 DEF stockTables
    <3>3. OnHand(stock[i]) \in Int
      BY <1>6, <1>10, OnHandInt DEF IInv, StockInv
    <3> QED BY <3>1, <3>2, <3>3
  <2> QED BY <2>1, <2>2, <2>3 DEF CopyFits, NothingAsked
<1>13. \A p \in Requests \ {r} : locks'[r] \cap locks[p] = {}
  BY <1>2, <1>10 DEF TakeLocks, Unlocked
<1> QED BY <1>2, <1>11, <1>12, <1>13, CopiesKept DEF stockTables

(* A step of a loop changes the copy of one item that r works on.           *)
LEMMA LoopStep ==
    ASSUME IInv, CopiesInv, NEW r \in Requests, OthersStay(r),
           UNCHANGED <<pc, locks, asked, stock>>,
           \A l \in Lines : seen'[r][l].item = seen[r][l].item,
           \A i \in locks[r] :
               OnHand(work'[r][i]) + TakenOf(seen'[r], todo'[r], asked[r], i)
                 = OnHand(work[r][i]) + TakenOf(seen[r], todo[r], asked[r], i)
    PROVE  CopiesInv'
<1>1. CopyFits(r)'
  <2>1. \A l \in Lines : asked[r][l] > 0 => (seen'[r][l].item \in locks[r] <=> seen[r][l].item \in locks[r])
    OBVIOUS
  <2> QED BY <2>1 DEF CopiesInv, CopyFits, NothingAsked
<1>2. \A p \in Requests \ {r} : locks'[r] \cap locks[p] = {}
  BY DEF CopiesInv, LocksExclusive
<1> QED BY <1>1, <1>2, CopiesKept

LEMMA ReserveKeepsCopies ==
    ASSUME IInv, CopiesInv, NEW r \in Requests, NEW l \in Lines, ReserveLine(r, l)
    PROVE  CopiesInv' /\ UNCHANGED <<stockTables>>
<1> DEFINE i == seen[r][l].item
           qty == seen[r][l].qty
<1>1. seen[r][l] \in LineRow /\ i \in Items /\ seen \in [Requests -> LineTable]
  BY DEF ReserveLine, IInv, RequestInv, RequestTypeOK, RequestsWellFormed, Present, LineTable, LineRow
<1>2. PICK take \in Reservations(work[r][i], qty) :
         /\ work' = [work EXCEPT ![r][i] = WithReserved(work[r][i], take)]
         /\ seen' = [seen EXCEPT ![r][l].shortage = @ \/ Total(take) < qty]
  BY DEF ReserveLine
<1>3. pc[r] = "reserve" /\ UNCHANGED <<pc, locks, asked, stock, stockTables>>
  BY DEF ReserveLine, stockTables
<1>4. \A m \in Lines : seen'[r][m].item = seen[r][m].item
  <2> DEFINE short == seen[r][l].shortage \/ Total(take) < qty
  <2>1. seen' = [seen EXCEPT ![r][l] = [seen[r][l] EXCEPT !.shortage = short]]
    BY <1>2
  <2> HIDE DEF short
  <2> QED BY <1>1, <2>1 DEF LineRow, LineTable
<1>5. OthersStay(r)
  BY <1>2 DEF ReserveLine, OthersStay, IInv, RequestInv, RequestTypeOK
<1>6. \A j \in Items : OnHand(work'[r][j]) = OnHand(work[r][j])
  <2>1. OnHand(WithReserved(work[r][i], take)) = OnHand(work[r][i])
    BY <1>1, OnHandOfHold DEF IInv, RequestInv
  <2>2. \A j \in Items : work'[r][j] = IF j = i THEN WithReserved(work[r][i], take) ELSE work[r][j]
    BY <1>1, <1>2 DEF IInv, RequestInv
  <2> QED BY <2>1, <2>2
<1>7. \A j : TakenOf(seen[r], todo[r], asked[r], j) = 0 /\ TakenOf(seen'[r], todo'[r], asked[r], j) = 0
  <2>1. \A m \in Lines : asked[r][m] = 0
    BY <1>3 DEF CopiesInv, CopyFits, NothingAsked
  <2> QED BY <2>1, TakenNothing
<1>8. locks[r] \subseteq Items
  BY DEF IInv, RequestInv, RequestTypeOK
<1> QED BY <1>3, <1>4, <1>5, <1>6, <1>7, <1>8, LoopStep

LEMMA HandOverKeepsCopies ==
    ASSUME IInv, CopiesInv, NEW r \in Requests, NEW l \in Lines, HandOverLine(r, l)
    PROVE  CopiesInv' /\ UNCHANGED <<stockTables>>
<1> DEFINE i == seen[r][l].item
           qty == asked[r][l]
           rows == work[r][i]
<1>1. /\ seen[r][l] \in LineRow /\ i \in Items /\ seen \in [Requests -> LineTable]
      /\ qty \in Nat /\ asked[r] \in [Lines -> Nat]
      /\ l \in todo[r] /\ todo[r] \in SUBSET Lines
  BY DEF HandOverLine, IInv, RequestInv, RequestTypeOK, RequestsWellFormed, Present, LineTable, LineRow
<1>2. PICK taken \in FromReserved(rows, resv[target[r]][i], qty) :
         \E free \in FromFree(rows, taken, qty) :
            work' = [work EXCEPT ![r][i] = Consumed(rows, taken, free)]
  BY DEF HandOverLine
<1>3. PICK free \in FromFree(rows, taken, qty) :
         work' = [work EXCEPT ![r][i] = Consumed(rows, taken, free)]
  BY <1>2
<1>4. pc[r] = "handover" /\ UNCHANGED <<pc, locks, asked, stock, stockTables>>
  BY DEF HandOverLine, stockTables
<1>5. \A m \in Lines : seen'[r][m].item = seen[r][m].item
  <2>1. seen' = [seen EXCEPT ![r][l] = [seen[r][l] EXCEPT !.delivered = seen[r][l].delivered + qty]]
    BY DEF HandOverLine
  <2> QED BY <1>1, <2>1 DEF LineRow, LineTable
<1>6. OthersStay(r)
  BY <1>3 DEF HandOverLine, OthersStay, IInv, RequestInv, RequestTypeOK
<1>7. todo'[r] = todo[r] \ {l}
  BY DEF HandOverLine, IInv, RequestInv, RequestTypeOK
<1>8. OnHand(Consumed(rows, taken, free)) = OnHand(rows) - qty /\ OnHand(rows) \in Int
  <2>1. target[r] \in Orders
    BY <1>4 DEF IInv, RequestInv, RequestsWellFormed, QuotationWork, QuotationStatus
  <2>2. rows \in CountedRows /\ resv[target[r]][i] \in Quantities
    BY <1>1, <2>1 DEF IInv, RequestInv, OrderTypeOK, Held
  <2> QED BY <1>1, <2>2, OnHandOfDelivery, OnHandInt
<1>9. \A j \in Items : work'[r][j] = IF j = i THEN Consumed(rows, taken, free) ELSE work[r][j]
  BY <1>1, <1>3 DEF IInv, RequestInv
<1>10. /\ TakenOf(seen'[r], todo'[r], asked[r], i) = TakenOf(seen[r], todo[r], asked[r], i) + qty
       /\ \A j : j # i => TakenOf(seen'[r], todo'[r], asked[r], j) = TakenOf(seen[r], todo[r], asked[r], j)
  BY <1>1, <1>5, <1>7, TakenOne
<1>11. TakenOf(seen[r], todo[r], asked[r], i) \in Int
  BY <1>1, TakenInt
<1>12. ASSUME NEW j \in locks[r]
       PROVE  OnHand(work'[r][j]) + TakenOf(seen'[r], todo'[r], asked[r], j)
                = OnHand(work[r][j]) + TakenOf(seen[r], todo[r], asked[r], j)
  <2>1. j \in Items
    BY DEF IInv, RequestInv, RequestTypeOK
  <2>2. CASE j = i
    <3>1. OnHand(work'[r][i]) = OnHand(rows) - qty
      BY <1>1, <1>8, <1>9
    <3> QED BY <1>1, <1>8, <1>10, <1>11, <2>2, <3>1
  <2>3. CASE j # i
    BY <1>9, <1>10, <2>1, <2>3
  <2> QED BY <2>2, <2>3
<1> QED BY <1>4, <1>5, <1>6, <1>12, LoopStep

(* A request that ends without a trace.                                     *)
LEMMA RefusalKeepsCopies ==
    ASSUME IInv, CopiesInv, NEW r \in Requests, Finish(r), UNCHANGED <<stockTables>>
    PROVE  CopiesInv'
<1>1. OthersStay(r) /\ locks'[r] = {} /\ CopyFits(r)'
  BY FinishFrees DEF IInv
<1>2. stock' = stock
  BY DEF stockTables
<1> QED BY <1>1, <1>2, CopiesKept

(* A step of no request that leaves locked rows alone.                      *)
LEMMA TableStepKeepsCopies ==
    ASSUME CopiesInv, UNCHANGED requestVars,
           \A p \in Requests : \A i \in locks[p] : stock'[i] = stock[i]
    PROVE  CopiesInv'
<1>1. ASSUME NEW p \in Requests PROVE CopyFits(p)'
  BY CopyKept DEF CopiesInv, requestVars
<1>2. LocksExclusive'
  BY DEF CopiesInv, LocksExclusive, requestVars
<1> QED BY <1>1, <1>2 DEF CopiesInv

(* The commit of r writes the rows that it alone has locked.                *)
LEMMA WorkCommitKeepsCopies ==
    ASSUME IInv, CopiesInv, NEW r \in Requests, Finish(r), stock' = WorkOf(r)
    PROVE  CopiesInv'
<1>1. OthersStay(r) /\ locks'[r] = {} /\ CopyFits(r)'
  BY FinishFrees DEF IInv
<1>2. ASSUME NEW p \in Requests \ {r}, NEW i \in locks[p] PROVE stock'[i] = stock[i]
  BY DEF CopiesInv, LocksExclusive, WorkOf, IInv, RequestInv, RequestTypeOK
<1> QED BY <1>1, <1>2, CopiesKept

-----------------------------------------------------------------------------
(* The books.                                                               *)

LEMMA ShippedInt ==
    ASSUME StockTypeOK, NEW i \in Items
    PROVE  ShippedOf(i) \in Int /\ \A o \in Orders : ShippedOn(o, i) \in Int
<1>1. ASSUME NEW o \in Orders PROVE ShippedOn(o, i) \in Int
  <2>1. \A l \in Lines : shipped[o][i][l] \in Int
    BY DEF StockTypeOK
  <2> QED BY <2>1, SumInt, TablesAssumption DEF ShippedOn
<1> DEFINE f == [o \in Orders |-> ShippedOn(o, i)]
<1>2. \A o \in Orders : f[o] \in Int
  BY <1>1
<1> HIDE DEF f
<1>3. SumFunctionOnSet(f, Orders) \in Int
  BY <1>2, SumInt, TablesAssumption
<1> QED BY <1>1, <1>3 DEF ShippedOf, f

(* One order ships n units more of item i.                                  *)
LEMMA ShippedMore ==
    ASSUME StockTypeOK, NEW i \in Items, NEW o \in Orders, NEW n \in Int,
           \A p \in Orders \ {o} : shipped'[p][i] = shipped[p][i],
           ShippedOn(o, i)' = ShippedOn(o, i) + n
    PROVE  ShippedOf(i)' = ShippedOf(i) + n
<1> DEFINE f == [p \in Orders |-> ShippedOn(p, i)]
           g == [p \in Orders |-> ShippedOn(p, i)']
<1>1. \A p \in Orders : f[p] \in Int
  BY ShippedInt
<1>2. \A p \in Orders \ {o} : g[p] = f[p]
  BY DEF ShippedOn
<1>3. g[o] = f[o] + n /\ g[o] \in Int
  BY <1>1
<1>4. IsFiniteSet(Orders)
  BY TablesAssumption
<1>5. ShippedOf(i)' = SumFunctionOnSet(g, Orders) /\ ShippedOf(i) = SumFunctionOnSet(f, Orders)
  BY DEF ShippedOf
<1> HIDE DEF f, g
<1>6. SumFunctionOnSet(g, Orders) = SumFunctionOnSet(f, Orders) + g[o] - f[o]
  BY <1>1, <1>2, <1>3, <1>4, SumChange
<1>7. SumFunctionOnSet(f, Orders) \in Int /\ f[o] \in Int
  BY <1>1, <1>4, SumInt
<1> QED BY <1>3, <1>5, <1>6, <1>7

LEMMA ShippedSame ==
    ASSUME shipped' = shipped
    PROVE  \A i \in Items : ShippedOf(i)' = ShippedOf(i)
BY DEF ShippedOf, ShippedOn

(* What leaves the stock is recorded in the same step.                      *)
LEMMA BooksKept ==
    ASSUME StockInv, UnitsConserved,
           \A i \in Items : /\ moved'[i] \in Int
                            /\ OnHand(stock'[i]) + ShippedOf(i)' - moved'[i]
                                 = OnHand(stock[i]) + ShippedOf(i) - moved[i]
                            /\ OnHand(stock'[i]) \in Int /\ ShippedOf(i)' \in Int
    PROVE  UnitsConserved'
<1> SUFFICES ASSUME NEW i \in Items
             PROVE  OnHand(stock'[i]) + ShippedOf(i)' = Total(OpeningStock[i]) + moved'[i]
  BY DEF UnitsConserved
<1>1. OnHand(stock[i]) \in Int /\ ShippedOf(i) \in Int /\ moved[i] \in Int
  BY OnHandInt, ShippedInt DEF StockInv, StockTypeOK
<1>2. Total(OpeningStock[i]) \in Int
  BY BoundAssumption, TotalInt DEF Quantities
<1>3. OnHand(stock[i]) + ShippedOf(i) = Total(OpeningStock[i]) + moved[i]
  BY DEF UnitsConserved
<1> QED BY <1>1, <1>2, <1>3

LEMMA BooksUntouched ==
    ASSUME UnitsConserved, UNCHANGED stockTables
    PROVE  UnitsConserved'
<1>1. UNCHANGED <<stock, shipped, moved>>
  BY DEF stockTables
<1> QED BY <1>1, ShippedSame DEF UnitsConserved

LEMMA ConfirmKeepsBooks ==
    ASSUME IInv, BooksInv, NEW r \in Requests, ConfirmCommit(r), IInv'
    PROVE  BooksInv'
<1>1. CopiesInv /\ UnitsConserved
  BY DEF BooksInv, CopiesInv
<1>2. Finish(r) /\ stock' = WorkOf(r) /\ UNCHANGED <<shipped, moved>>
  BY DEF ConfirmCommit
<1>3. CopiesInv'
  BY <1>1, <1>2, WorkCommitKeepsCopies
<1>4. ASSUME NEW i \in Items PROVE OnHand(stock'[i]) = OnHand(stock[i])
  <2>1. CASE i \in locks[r]
    <3>1. \A l \in Lines : asked[r][l] = 0
      BY <1>1 DEF CopiesInv, CopyFits, ConfirmCommit, Reserved, NothingAsked
    <3>2. TakenOf(seen[r], todo[r], asked[r], i) = 0
      BY <3>1, TakenNothing
    <3>3. OnHand(work[r][i]) + TakenOf(seen[r], todo[r], asked[r], i) = OnHand(stock[i])
      BY <1>1, <2>1 DEF CopiesInv, CopyFits
    <3>4. OnHand(work[r][i]) \in Int
      BY OnHandInt DEF IInv, RequestInv
    <3> QED BY <1>2, <2>1, <3>2, <3>3, <3>4 DEF WorkOf
  <2>2. CASE i \notin locks[r]
    BY <1>2, <2>2 DEF WorkOf
  <2> QED BY <2>1, <2>2
<1>5. \A i \in Items : ShippedOf(i)' = ShippedOf(i) /\ ShippedOf(i) \in Int
                       /\ OnHand(stock[i]) \in Int /\ moved[i] \in Int
  BY <1>2, ShippedSame, ShippedInt, OnHandInt DEF IInv, StockInv, StockTypeOK
<1>6. UnitsConserved'
  BY <1>1, <1>2, <1>4, <1>5, BooksKept DEF IInv
<1> QED BY <1>3, <1>6 DEF BooksInv, CopiesInv

LEMMA CancelKeepsBooks ==
    ASSUME IInv, BooksInv, NEW r \in Requests, CancelCommit(r), IInv'
    PROVE  BooksInv'
<1>1. CopiesInv /\ UnitsConserved
  BY DEF BooksInv, CopiesInv
<1>2. Finish(r) /\ UNCHANGED <<shipped, moved>>
      /\ stock' = [i \in Items |-> WithReleased(stock[i], held[r][i])]
  BY DEF CancelCommit
<1>3. ASSUME NEW i \in Items PROVE OnHand(stock'[i]) = OnHand(stock[i])
  BY <1>2, OnHandOfHold DEF IInv, StockInv
<1>4. CopiesInv'
  <2>1. OthersStay(r) /\ locks'[r] = {} /\ CopyFits(r)'
    BY <1>2, FinishFrees DEF IInv
  <2>2. \A p \in Requests : locks[p] \subseteq Items
    BY DEF IInv, RequestInv, RequestTypeOK
  <2> QED BY <1>1, <1>3, <2>1, <2>2, CopiesKept
<1>5. \A i \in Items : ShippedOf(i)' = ShippedOf(i) /\ ShippedOf(i) \in Int
                       /\ OnHand(stock[i]) \in Int /\ moved[i] \in Int
  BY <1>2, ShippedSame, ShippedInt, OnHandInt DEF IInv, StockInv, StockTypeOK
<1>6. UnitsConserved'
  BY <1>1, <1>2, <1>3, <1>5, BooksKept DEF IInv
<1> QED BY <1>4, <1>6 DEF BooksInv, CopiesInv

(* The copy is written back and the same units are recorded as shipped.     *)
LEMMA DeliverKeepsBooks ==
    ASSUME IInv, BooksInv, NEW r \in Requests, DeliverCommit(r), IInv'
    PROVE  BooksInv'
<1> DEFINE taken(i) == TakenOf(seen[r], todo[r], asked[r], i)
<1>1. CopiesInv /\ UnitsConserved
  BY DEF BooksInv, CopiesInv
<1>2. Finish(r) /\ stock' = WorkOf(r) /\ moved' = moved /\ pc[r] = "handover" /\ todo[r] = {}
  BY DEF DeliverCommit
<1>3. CopiesInv'
  BY <1>1, <1>2, WorkCommitKeepsCopies
<1>4. PICK o \in Orders : o = target[r] /\ asked[r] \in [Lines -> Nat]
  BY <1>2 DEF IInv, RequestInv, RequestTypeOK, RequestsWellFormed, QuotationWork, QuotationStatus
<1>5. ASSUME NEW i \in Items
      PROVE  OnHand(stock'[i]) = OnHand(stock[i]) - taken(i) /\ taken(i) \in Int
  <2>1. taken(i) \in Int
    BY <1>4, TakenInt
  <2>2. CASE i \in locks[r]
    <3>1. OnHand(work[r][i]) + taken(i) = OnHand(stock[i])
      BY <1>1, <2>2 DEF CopiesInv, CopyFits
    <3>2. OnHand(work[r][i]) \in Int
      BY OnHandInt DEF IInv, RequestInv
    <3>3. stock'[i] = work[r][i]
      BY <1>2, <2>2 DEF WorkOf
    <3> QED BY <2>1, <3>1, <3>2, <3>3
  <2>3. CASE i \notin locks[r]
    <3>1. \A l \in Lines : (seen[r][l].item = i /\ l \notin todo[r]) => asked[r][l] = 0
      BY <1>1, <1>2, <1>4, <2>3 DEF CopiesInv, CopyFits
    <3>2. taken(i) = 0
      BY <3>1, TakenNothing
    <3>3. stock'[i] = stock[i] /\ OnHand(stock[i]) \in Int
      BY <1>2, <2>3, OnHandInt DEF WorkOf, IInv, StockInv
    <3> QED BY <3>2, <3>3
  <2> QED BY <2>1, <2>2, <2>3
<1>6. ASSUME NEW i \in Items PROVE ShippedOf(i)' = ShippedOf(i) + taken(i)
  <2> DEFINE f == shipped[o][i]
             g == [l \in Lines |-> IF seen[r][l].item = i /\ l \notin todo[r] THEN asked[r][l] ELSE 0]
             h == shipped'[o][i]
  <2>1. h = [l \in Lines |-> shipped[o][i][l] + IF seen[r][l].item = i THEN asked[r][l] ELSE 0]
    BY <1>4 DEF DeliverCommit, IInv, StockInv, StockTypeOK
  <2>2. \A l \in Lines : f[l] \in Int /\ g[l] \in Int /\ h[l] = f[l] + g[l]
    BY <1>2, <1>4, <2>1 DEF IInv, StockInv, StockTypeOK
  <2>3. ShippedOn(o, i) = SumFunctionOnSet(f, Lines) /\ ShippedOn(o, i)' = SumFunctionOnSet(h, Lines)
        /\ taken(i) = SumFunctionOnSet(g, Lines)
    BY DEF ShippedOn, TakenOf
  <2>4. IsFiniteSet(Lines)
    BY TablesAssumption
  <2>5. \A p \in Orders \ {o} : shipped'[p][i] = shipped[p][i]
    BY <1>4 DEF DeliverCommit, IInv, StockInv, StockTypeOK
  <2>6. SumFunctionOnSet(h, Lines) = SumFunctionOnSet(f, Lines) + SumFunctionOnSet(g, Lines)
    <3> HIDE DEF f, g, h
    <3> QED BY <2>2, <2>4, SumPlus
  <2>7. ShippedOn(o, i)' = ShippedOn(o, i) + taken(i)
    BY <2>3, <2>6
  <2> QED BY <1>4, <1>5, <2>5, <2>7, ShippedMore DEF IInv, StockInv
<1> HIDE DEF taken
<1>7. \A i \in Items : ShippedOf(i) \in Int /\ OnHand(stock[i]) \in Int /\ moved[i] \in Int
  BY ShippedInt, OnHandInt DEF IInv, StockInv, StockTypeOK
<1>8. UnitsConserved'
  BY <1>1, <1>2, <1>5, <1>6, <1>7, BooksKept DEF IInv
<1> QED BY <1>3, <1>8 DEF BooksInv, CopiesInv

LEMMA SaleKeepsBooks ==
    ASSUME IInv, BooksInv, NEW o \in Orders, NEW l \in Lines, NEW n \in 1..MaxQty,
           SellOnOrder(o, l, n)
    PROVE  BooksInv'
<1>1. CopiesInv /\ UnitsConserved
  BY DEF BooksInv, CopiesInv
<1>2. PICK i \in Items : i = line[l].item /\ n \in Nat
  BY NoValueAssumption, MaxQtyAssumption DEF SellOnOrder, IInv, OrderTypeOK, LineTable, LineRow, NoLine
<1> DEFINE rows == stock[i]
<1>3. PICK taken \in FromReserved(rows, resv[o][i], n) :
         \E free \in FromFree(rows, taken, n) : stock' = [stock EXCEPT ![i] = Consumed(rows, taken, free)]
  <2>1. \E taken \in FromReserved(stock[line[l].item], resv[o][line[l].item], n) :
          \E free \in FromFree(stock[line[l].item], taken, n) :
             stock' = [stock EXCEPT ![line[l].item] = Consumed(stock[line[l].item], taken, free)]
    BY DEF SellOnOrder
  <2> QED BY <1>2, <2>1, Zenon
<1>4. PICK free \in FromFree(rows, taken, n) : stock' = [stock EXCEPT ![i] = Consumed(rows, taken, free)]
  BY <1>3
<1>5. rows \in CountedRows /\ resv[o][i] \in Quantities
  BY <1>2 DEF IInv, StockInv, OrderTypeOK, Held
<1>6. OnHand(stock'[i]) = OnHand(stock[i]) - n /\ \A j \in Items \ {i} : stock'[j] = stock[j]
  <2>1. OnHand(Consumed(rows, taken, free)) = OnHand(rows) - n
    BY <1>2, <1>5, OnHandOfDelivery
  <2> QED BY <1>2, <1>4, <2>1 DEF IInv, StockInv
<1>7. /\ \A j \in Items : \A p \in Orders : (p # o \/ j # i) => shipped'[p][j] = shipped[p][j]
      /\ shipped'[o][i][l] = shipped[o][i][l] + n
      /\ \A m \in Lines \ {l} : shipped'[o][i][m] = shipped[o][i][m]
  BY <1>2 DEF SellOnOrder, IInv, StockInv, StockTypeOK
<1>8. ShippedOn(o, i)' = ShippedOn(o, i) + n
  <2>1. \A m \in Lines : shipped[o][i][m] \in Int
    BY <1>2 DEF IInv, StockInv, StockTypeOK
  <2>2. SumFunctionOnSet(shipped'[o][i], Lines)
          = SumFunctionOnSet(shipped[o][i], Lines) + shipped'[o][i][l] - shipped[o][i][l]
    BY <1>2, <1>7, <2>1, SumChange, TablesAssumption
  <2>3. SumFunctionOnSet(shipped[o][i], Lines) \in Int
    BY <2>1, SumInt, TablesAssumption
  <2> QED BY <1>2, <1>7, <2>1, <2>2, <2>3 DEF ShippedOn
<1>9. ShippedOf(i)' = ShippedOf(i) + n
  BY <1>2, <1>7, <1>8, ShippedMore DEF IInv, StockInv
<1>10. \A j \in Items \ {i} : ShippedOf(j)' = ShippedOf(j)
  BY <1>7 DEF ShippedOf, ShippedOn
<1>11. CopiesInv'
  <2>1. \A p \in Requests : i \notin locks[p] /\ locks[p] \subseteq Items
    BY <1>2 DEF SellOnOrder, Unlocked, IInv, RequestInv, RequestTypeOK
  <2>2. UNCHANGED requestVars
    BY DEF SellOnOrder
  <2> QED BY <1>1, <1>6, <2>1, <2>2, TableStepKeepsCopies
<1>12. \A j \in Items : ShippedOf(j) \in Int /\ OnHand(stock[j]) \in Int /\ moved[j] \in Int
  BY ShippedInt, OnHandInt DEF IInv, StockInv, StockTypeOK
<1>13. moved' = moved
  BY DEF SellOnOrder
<1>14. ASSUME NEW j \in Items
       PROVE  /\ moved'[j] \in Int
              /\ OnHand(stock'[j]) + ShippedOf(j)' - moved'[j] = OnHand(stock[j]) + ShippedOf(j) - moved[j]
              /\ OnHand(stock'[j]) \in Int /\ ShippedOf(j)' \in Int
  <2>1. CASE j = i
    BY <1>2, <1>6, <1>9, <1>12, <1>13, <2>1
  <2>2. CASE j # i
    BY <1>6, <1>10, <1>12, <1>13, <2>2
  <2> QED BY <2>1, <2>2
<1>15. UnitsConserved'
  BY <1>1, <1>14, BooksKept DEF IInv
<1> QED BY <1>11, <1>15 DEF BooksInv, CopiesInv

(* A move changes the rows of one unlocked item; what comes in or goes out  *)
(* is in its transactions row.                                              *)
LEMMA MoveKeepsBooks ==
    ASSUME IInv, BooksInv, MoveStep
    PROVE  BooksInv'
<1>1. PICK i \in Items, l \in Locations, n \in 1..MaxQty :
         \/ \E to \in Locations : Transfer(i, l, to, n)
         \/ WalkInSale(i, l, n) \/ Return(i, l, n)
         \/ Increase(i, l, n) \/ Decrease(i, l, n)
  BY DEF MoveStep
<1>2. n \in Nat /\ stock[i] \in CountedRows /\ OnHand(stock[i]) \in Int /\ moved[i] \in Int
  BY MaxQtyAssumption, OnHandInt DEF IInv, StockInv, StockTypeOK
<1>3. CopiesInv /\ UnitsConserved
  BY DEF BooksInv, CopiesInv
<1>4. /\ Unlocked({i}) /\ UNCHANGED <<requestVars, shipped>>
      /\ \A j \in Items \ {i} : stock'[j] = stock[j] /\ moved'[j] = moved[j]
  BY <1>1 DEF Transfer, WalkInSale, Return, Increase, Decrease, SetRows, IInv, StockInv, StockTypeOK
<1>5. moved'[i] \in Int /\ OnHand(stock'[i]) - moved'[i] = OnHand(stock[i]) - moved[i]
      /\ OnHand(stock'[i]) \in Int
  <2>1. ASSUME NEW rows, SetRows(i, rows) PROVE stock'[i] = rows
    BY <2>1 DEF SetRows, IInv, StockInv
  <2>2. CASE \E to \in Locations : Transfer(i, l, to, n)
    <3>1. PICK to \in Locations : Transfer(i, l, to, n)
      BY <2>2
    <3>2. Decremented(stock[i], l, n) \in CountedRows
      BY <1>2, <3>1, MoveCounts DEF Transfer
    <3>3. OnHand(stock'[i]) = OnHand(Decremented(stock[i], l, n)) + n
      BY <1>2, <2>1, <3>1, <3>2, OnHandOfMove DEF Transfer
    <3>4. OnHand(Decremented(stock[i], l, n)) = OnHand(stock[i]) - n
      BY <1>2, OnHandOfMove
    <3>5. moved' = moved
      BY <3>1 DEF Transfer
    <3> QED BY <1>2, <3>3, <3>4, <3>5
  <2>3. CASE WalkInSale(i, l, n) \/ Decrease(i, l, n)
    <3>1. OnHand(stock'[i]) = OnHand(stock[i]) - n
      BY <1>2, <2>1, <2>3, OnHandOfMove DEF WalkInSale, Decrease
    <3>2. moved'[i] = moved[i] - n
      BY <2>3 DEF WalkInSale, Decrease, IInv, StockInv, StockTypeOK
    <3> QED BY <1>2, <3>1, <3>2
  <2>4. CASE Return(i, l, n) \/ Increase(i, l, n)
    <3>1. OnHand(stock'[i]) = OnHand(stock[i]) + n
      BY <1>2, <2>1, <2>4, OnHandOfMove DEF Return, Increase
    <3>2. moved'[i] = moved[i] + n
      BY <2>4 DEF Return, Increase, IInv, StockInv, StockTypeOK
    <3> QED BY <1>2, <3>1, <3>2
  <2> QED BY <1>1, <2>2, <2>3, <2>4
<1>6. CopiesInv'
  <2>1. \A p \in Requests : i \notin locks[p] /\ locks[p] \subseteq Items
    BY <1>4 DEF Unlocked, IInv, RequestInv, RequestTypeOK
  <2> QED BY <1>3, <1>4, <2>1, TableStepKeepsCopies
<1>7. \A j \in Items : /\ ShippedOf(j)' = ShippedOf(j) /\ ShippedOf(j) \in Int
                       /\ OnHand(stock[j]) \in Int /\ moved[j] \in Int
  BY <1>4, ShippedSame, ShippedInt, OnHandInt DEF IInv, StockInv, StockTypeOK
<1>8. ASSUME NEW j \in Items
      PROVE  /\ moved'[j] \in Int
             /\ OnHand(stock'[j]) + ShippedOf(j)' - moved'[j] = OnHand(stock[j]) + ShippedOf(j) - moved[j]
             /\ OnHand(stock'[j]) \in Int /\ ShippedOf(j)' \in Int
  <2>1. CASE j = i
    BY <1>5, <1>7, <2>1
  <2>2. CASE j # i
    BY <1>4, <1>7, <2>2
  <2> QED BY <2>1, <2>2
<1>9. UnitsConserved'
  BY <1>3, <1>8, BooksKept DEF IInv
<1> QED BY <1>6, <1>9 DEF BooksInv, CopiesInv

-----------------------------------------------------------------------------
(* BooksInv is inductive, given IInv.                                       *)

LEMMA QuietKeepsBooks ==
    ASSUME BooksInv, CopiesInv', UNCHANGED stockTables
    PROVE  BooksInv'
BY BooksUntouched DEF BooksInv, CopiesInv

LEMMA RefusalKeepsBooks ==
    ASSUME IInv, BooksInv, NEW r \in Requests, Finish(r), UNCHANGED stockTables
    PROVE  BooksInv'
BY RefusalKeepsCopies, QuietKeepsBooks DEF BooksInv, CopiesInv

LEMMA InitBooks == Init => BooksInv
<1> SUFFICES ASSUME Init PROVE BooksInv
  OBVIOUS
<1>1. LocksExclusive /\ \A r \in Requests : CopyFits(r)
  BY DEF Init, LocksExclusive, CopyFits
<1>2. ASSUME NEW i \in Items PROVE OnHand(stock[i]) + ShippedOf(i) = Total(OpeningStock[i]) + moved[i]
  <2>1. OnHand(stock[i]) = Total(OpeningStock[i])
    <3>1. [l \in Locations |-> stock[i][l].onHand] = OpeningStock[i]
      BY BoundAssumption DEF Init
    <3> QED BY <3>1, Zenon DEF OnHand
  <2>2. ShippedOf(i) = 0
    <3>1. ASSUME NEW o \in Orders PROVE ShippedOn(o, i) = 0
      <4>1. \A l \in Lines : shipped[o][i][l] = 0
        BY DEF Init, NothingAsked
      <4> QED BY <4>1, SumZero, TablesAssumption DEF ShippedOn
    <3> DEFINE f == [o \in Orders |-> ShippedOn(o, i)]
    <3>2. \A o \in Orders : f[o] = 0
      BY <3>1
    <3> HIDE DEF f
    <3>3. SumFunctionOnSet(f, Orders) = 0
      BY <3>2, SumZero, TablesAssumption
    <3> QED BY <3>3 DEF ShippedOf, f
  <2>3. moved[i] = 0
    BY DEF Init
  <2>4. Total(OpeningStock[i]) \in Int
    BY BoundAssumption, TotalInt DEF Quantities
  <2> QED BY <2>1, <2>2, <2>3, <2>4
<1> QED BY <1>1, <1>2 DEF BooksInv, UnitsConserved

LEMMA SalesOrdersKeepBooks ==
    ASSUME IInv, IInv', BooksInv, NEW r \in Requests, SalesOrdersStep(r)
    PROVE  BooksInv'
<1>0. CopiesInv
  BY DEF BooksInv, CopiesInv
<1>1. CASE \/ \E q \in Quotations : IntakeRead(r, q)
           \/ \E o \in Orders : AddLineRead(r, o) \/ ConfirmRead(r, o) \/ CancelRead(r, o)
           \/ \E l \in Lines, edit \in {"updateLine", "removeLine"} : EditRead(r, l, edit)
  BY <1>0, <1>1, ReadsKeepCopies, QuietKeepsBooks
<1>2. CASE \/ \E o \in Orders, S \in SUBSET Lines : IntakeInsert(r, o, S)
           \/ IntakeExisting(r)
           \/ \E l \in Lines, i \in Items, n \in 1..MaxQty :
                 AddLineInsert(r, l, i, n) \/ UpdateLineSave(r, l, i, n)
           \/ RemoveLineDelete(r) \/ ConfirmRefused(r) \/ CancelRefused(r)
  <2>1. Finish(r) /\ UNCHANGED stockTables
    BY <1>2 DEF IntakeInsert, IntakeExisting, AddLineInsert, UpdateLineSave, RemoveLineDelete,
       ConfirmRefused, CancelRefused
  <2> QED BY <2>1, RefusalKeepsBooks
<1>3. CASE ConfirmLock(r)
  BY <1>0, <1>3, LocksKeepCopies, QuietKeepsBooks
<1>4. CASE ConfirmFindQuotation(r)
  BY <1>0, <1>4, FindQuotationKeepsCopies, QuietKeepsBooks
<1>5. CASE \E l \in Lines : ReserveLine(r, l)
  BY <1>0, <1>5, ReserveKeepsCopies, QuietKeepsBooks
<1>6. CASE CancelFind(r)
  BY <1>0, <1>6, PassKeepsCopies, QuietKeepsBooks
<1>7. CASE ConfirmCommit(r) \/ CancelCommit(r)
  BY <1>7, ConfirmKeepsBooks, CancelKeepsBooks
<1> QED BY <1>1, <1>2, <1>3, <1>4, <1>5, <1>6, <1>7 DEF SalesOrdersStep

LEMMA DeliveriesKeepBooks ==
    ASSUME IInv, IInv', BooksInv, NEW r \in Requests, DeliveriesStep(r)
    PROVE  BooksInv'
<1>0. CopiesInv
  BY DEF BooksInv, CopiesInv
<1>1. CASE \E o \in Orders, ask \in [Lines -> 0..MaxQty] : DeliverRead(r, o, ask)
  BY <1>0, <1>1, ReadsKeepCopies, QuietKeepsBooks
<1>2. CASE PermitGate(r)
  BY <1>0, <1>2, PassKeepsCopies, QuietKeepsBooks
<1>3. CASE PermitRefused(r) \/ HandOverRefused(r) \/ DeliverRefused(r)
  BY <1>3, RefusalKeepsBooks DEF PermitRefused, HandOverRefused, DeliverRefused
<1>4. CASE DeliverLock(r)
  BY <1>0, <1>4, LocksKeepCopies, QuietKeepsBooks
<1>5. CASE \E l \in Lines : HandOverLine(r, l)
  BY <1>0, <1>5, HandOverKeepsCopies, QuietKeepsBooks
<1>6. CASE DeliverCommit(r)
  BY <1>6, DeliverKeepsBooks
<1> QED BY <1>1, <1>2, <1>3, <1>4, <1>5, <1>6 DEF DeliveriesStep

LEMMA NextKeepsBooks ==
    ASSUME IInv, IInv', BooksInv, [Next]_vars
    PROVE  BooksInv'
<1>0. CopiesInv
  BY DEF BooksInv, CopiesInv
<1>1. CASE OrderStep
  <2>1. CASE \E o \in Orders : CreateOrder(o)
    <3>1. UNCHANGED <<stockTables, requestVars>>
      BY <2>1 DEF CreateOrder
    <3>2. \A p \in Requests : \A i \in locks[p] : stock'[i] = stock[i]
      BY <3>1 DEF stockTables
    <3> QED BY <1>0, <3>1, <3>2, TableStepKeepsCopies, QuietKeepsBooks
  <2> QED BY <1>1, <2>1, SaleKeepsBooks DEF OrderStep
<1>2. CASE MoveStep
  BY <1>2, MoveKeepsBooks
<1>3. CASE \/ \E q \in Quotations : ExpireOutdated(q)
           \/ \E l \in Lines, n \in PermitSums : PermitStep(l, n)
           \/ UNCHANGED vars
  <2>1. UNCHANGED <<stockTables, requestVars>>
    BY <1>3 DEF ExpireOutdated, PermitStep, vars
  <2>2. \A p \in Requests : \A i \in locks[p] : stock'[i] = stock[i]
    BY <2>1 DEF stockTables
  <2> QED BY <1>0, <2>1, <2>2, TableStepKeepsCopies, QuietKeepsBooks
<1>4. CASE \E r \in Requests : SalesOrdersStep(r)
  BY <1>4, SalesOrdersKeepBooks
<1>5. CASE \E r \in Requests : Rollback(r)
  BY <1>5, RefusalKeepsBooks DEF Rollback
<1>6. CASE \E r \in Requests : DeliveriesStep(r)
  BY <1>6, DeliveriesKeepBooks
<1>7. CASE \E r \in Requests : QuotationsStep(r)
  <2>1. PICK r \in Requests : QuotationsStep(r)
    BY <1>7
  <2>2. CASE \E q \in Quotations, s \in QuotationStatus : StatusRead(r, q, s)
    BY <1>0, <2>2, ReadsKeepCopies, QuietKeepsBooks
  <2>3. CASE StatusSave(r)
    BY <2>3, RefusalKeepsBooks DEF StatusSave
  <2> QED BY <2>1, <2>2, <2>3 DEF QuotationsStep
<1> QED BY <1>1, <1>2, <1>3, <1>4, <1>5, <1>6, <1>7 DEF Next, DeskNext

(* Every unit is accounted for, whatever requests overlap: no commit loses  *)
(* another's update of a stock row, and stock, delivery lines, order-linked *)
(* sales and transactions rows always add up to the opening stock.          *)
THEOREM UnitsAreConserved == Spec => []UnitsConserved
<1>1. IInv /\ BooksInv /\ [Next]_vars => IInv' /\ BooksInv'
  BY NextKeeps, NextKeepsBooks
<1>2. BooksInv => UnitsConserved
  BY DEF BooksInv
<1> QED BY <1>1, <1>2, InitEstablishes, InitBooks, PTL DEF Spec

-----------------------------------------------------------------------------
(* One request at a time: what a step does to an order.                     *)

(* Every line keeps its order, item, quantity and delivered units.          *)
ContentKept ==
    \A l \in Lines :
        /\ line'[l].order = line[l].order /\ line'[l].item = line[l].item
        /\ line'[l].qty = line[l].qty /\ line'[l].delivered = line[l].delivered

Idles == UNCHANGED <<status, shipped>> /\ ContentKept

Opens(o) ==
    /\ status[o] = "None" \/ status[o] = "Draft"
    /\ status' = [status EXCEPT ![o] = "Draft"]
    /\ shipped' = shipped
    /\ \A l \in Lines :
          \/ line'[l] = line[l]
          \/ /\ line[l].order \in {o, NoOrder} /\ line[l].delivered = 0
             /\ line'[l] = NoLine \/ (line'[l].order = o /\ line'[l].delivered = 0 /\ line'[l].qty > 0)

Becomes(o, s) ==
    /\ \/ s = "Confirmed" /\ status[o] = "Draft"
       \/ s = "Cancelled" /\ status[o] \in {"Draft", "Confirmed"}
    /\ status' = [status EXCEPT ![o] = s]
    /\ shipped' = shipped
    /\ ContentKept

Gets(o, ask) ==
    /\ status[o] \in {"Confirmed", "Delivered"}
    /\ ask # NothingAsked
    /\ \A l \in Lines :
          /\ ask[l] <= line[l].qty - line[l].delivered
          /\ ask[l] > 0 => line[l].order = o
          /\ line'[l].order = line[l].order /\ line'[l].item = line[l].item
          /\ line'[l].qty = line[l].qty /\ line'[l].delivered = line[l].delivered + ask[l]
    /\ \A p \in Orders, i \in Items, l \in Lines :
          shipped'[p][i][l] = shipped[p][i][l] + IF p = o /\ line[l].item = i THEN ask[l] ELSE 0
    /\ status' = [status EXCEPT ![o] =
                     IF AllDelivered(line', LinesOf(line', o)) THEN "Closed" ELSE "Delivered"]

-----------------------------------------------------------------------------
(* Each of these keeps the books of the lines.                              *)

LEMMA LineFacts ==
    ASSUME OrderTypeOK, NEW l \in Lines
    PROVE  /\ line[l].qty \in Nat /\ line[l].delivered \in Nat
           /\ line[l].order \in Orders => line[l] # NoLine
           /\ line[l] # NoLine => line[l] \in LineRow /\ line[l].order \in Orders /\ line[l].item \in Items
BY NoValueAssumption DEF OrderTypeOK, LineTable, LineRow, NoLine

(* A line of an order that nobody confirmed has delivered nothing.          *)
LEMMA DraftLines ==
    ASSUME IInv, DraftHoldsNothing, LineBooks, NEW l \in Lines,
           line[l].order \in Orders, status[line[l].order] \in {"None", "Draft"}
    PROVE  line[l].delivered = 0
<1>1. line[l].item \in Items
  BY LineFacts DEF IInv
<1>2. shipped[line[l].order][line[l].item] = NothingAsked
  BY <1>1 DEF DraftHoldsNothing
<1>3. shipped[line[l].order][line[l].item][l] = 0
  BY <1>2 DEF NothingAsked
<1> QED BY <1>1, <1>3 DEF LineBooks

(* Whether an order is complete depends on the content of its lines.        *)
LEMMA CompleteKept ==
    ASSUME ContentKept, NEW o
    PROVE  /\ LinesOf(line', o) = LinesOf(line, o)
           /\ AllDelivered(line', LinesOf(line', o)) <=> AllDelivered(line, LinesOf(line, o))
<1>1. LinesOf(line', o) = LinesOf(line, o)
  BY DEF ContentKept, LinesOf
<1>2. \A l \in LinesOf(line, o) : line'[l].qty = line[l].qty /\ line'[l].delivered = line[l].delivered
  BY DEF ContentKept, LinesOf
<1> QED BY <1>1, <1>2 DEF AllDelivered

LEMMA ContentKeepsRows ==
    ASSUME OrderTypeOK, OrderTypeOK', LineBooks, ContentKept, shipped' = shipped
    PROVE  /\ \A l \in Lines : line'[l].delivered <= line'[l].qty
           /\ \A l \in Lines : line'[l] # NoLine => line'[l].qty > 0
           /\ \A o \in Orders, i \in Items, l \in Lines :
                 shipped'[o][i][l] =
                     IF line'[l].order = o /\ line'[l].item = i THEN line'[l].delivered ELSE 0
<1>1. ASSUME NEW l \in Lines, line'[l] # NoLine PROVE line'[l].qty > 0
  <2>1. line'[l].order \in Orders
    BY <1>1, NoValueAssumption DEF OrderTypeOK, LineTable, LineRow
  <2>2. line[l] # NoLine
    BY <2>1, LineFacts DEF ContentKept
  <2> QED BY <2>2 DEF LineBooks, ContentKept
<1> QED BY <1>1 DEF LineBooks, ContentKept

LEMMA IdlesKeepsLines ==
    ASSUME OrderTypeOK, OrderTypeOK', LineBooks, Idles
    PROVE  LineBooks'
<1>1. ContentKept /\ shipped' = shipped /\ status' = status
  BY DEF Idles
<1>2. \A o \in Orders : status'[o] \in {"Confirmed", "Delivered", "Closed"} =>
         (status'[o] = "Closed" <=> AllDelivered(line', LinesOf(line', o)))
  BY <1>1, CompleteKept DEF LineBooks
<1> QED BY <1>1, <1>2, ContentKeepsRows DEF LineBooks

LEMMA BecomesKeepsLines ==
    ASSUME IInv, IInv', DraftHoldsNothing, LineBooks, NEW o \in Orders, NEW s, Becomes(o, s)
    PROVE  LineBooks'
<1>1. ContentKept /\ shipped' = shipped /\ status' = [status EXCEPT ![o] = s]
  BY DEF Becomes
<1>2. ASSUME NEW p \in Orders, status'[p] \in {"Confirmed", "Delivered", "Closed"}
      PROVE  status'[p] = "Closed" <=> AllDelivered(line', LinesOf(line', p))
  <2>1. CASE p # o
    <3>1. status'[p] = status[p]
      BY <1>1, <2>1 DEF IInv, OrderTypeOK
    <3> QED BY <1>1, <1>2, <3>1, CompleteKept DEF LineBooks
  <2>2. CASE p = o
    <3>1. status'[o] = "Confirmed" /\ status[o] = "Draft"
      BY <1>1, <1>2, <2>2 DEF Becomes, IInv, OrderTypeOK
    <3>2. ASSUME NEW l \in LinesOf(line, o) PROVE line[l].qty > 0 /\ line[l].delivered = 0
      <4>1. l \in Lines /\ line[l].order = o /\ line[l] # NoLine
        BY LineFacts DEF LinesOf, IInv
      <4> QED BY <3>1, <4>1, DraftLines DEF LineBooks
    <3>3. ~AllDelivered(line, LinesOf(line, o))
      BY <3>2, LineFacts DEF AllDelivered, LinesOf, IInv
    <3> QED BY <1>1, <2>2, <3>1, <3>3, CompleteKept
  <2> QED BY <2>1, <2>2
<1> QED BY <1>1, <1>2, ContentKeepsRows DEF LineBooks, IInv

LEMMA OpensKeepsLines ==
    ASSUME IInv, IInv', LineBooks, NEW o \in Orders, Opens(o)
    PROVE  LineBooks'
<1>1. shipped' = shipped /\ status'[o] = "Draft" /\ \A p \in Orders \ {o} : status'[p] = status[p]
  BY DEF Opens, IInv, OrderTypeOK
<1>2. ASSUME NEW l \in Lines
      PROVE  /\ line'[l].delivered <= line'[l].qty
             /\ line'[l] # NoLine => line'[l].qty > 0
             /\ \A p \in Orders, i \in Items :
                  shipped'[p][i][l] =
                     IF line'[l].order = p /\ line'[l].item = i THEN line'[l].delivered ELSE 0
  <2>1. CASE line'[l] = line[l]
    BY <1>1, <2>1 DEF LineBooks
  <2>2. CASE line'[l] # line[l]
    <3>1. /\ line[l].delivered = 0
          /\ line'[l] = NoLine \/ (line'[l].delivered = 0 /\ line'[l].qty > 0)
      BY <2>2 DEF Opens
    <3>2. \A p \in Orders, i \in Items : shipped'[p][i][l] = 0
      BY <1>1, <3>1 DEF LineBooks
    <3>3. line'[l].delivered = 0 /\ line'[l].qty \in Nat
      BY <3>1 DEF NoLine, IInv, OrderTypeOK, LineTable, LineRow
    <3> QED BY <3>1, <3>2, <3>3
  <2> QED BY <2>1, <2>2
<1>3. ASSUME NEW p \in Orders, status'[p] \in {"Confirmed", "Delivered", "Closed"}
      PROVE  status'[p] = "Closed" <=> AllDelivered(line', LinesOf(line', p))
  <2>1. p # o /\ status'[p] = status[p]
    BY <1>1, <1>3
  <2>2. \A l \in Lines : (line'[l].order = p \/ line[l].order = p) => line'[l] = line[l]
    BY <2>1, NoValueAssumption DEF Opens, NoLine
  <2>3. LinesOf(line', p) = LinesOf(line, p)
    BY <2>2 DEF LinesOf
  <2>4. \A l \in LinesOf(line, p) : line'[l] = line[l]
    BY <2>2 DEF LinesOf
  <2>5. AllDelivered(line', LinesOf(line', p)) <=> AllDelivered(line, LinesOf(line, p))
    BY <2>3, <2>4 DEF AllDelivered
  <2> QED BY <1>3, <2>1, <2>5 DEF LineBooks
<1> QED BY <1>2, <1>3 DEF LineBooks

LEMMA GetsKeepsLines ==
    ASSUME IInv, IInv', LineBooks, NEW o \in Orders, NEW ask \in [Lines -> Nat], Gets(o, ask)
    PROVE  LineBooks'
<1>1. ASSUME NEW l \in Lines
      PROVE  /\ line'[l].delivered <= line'[l].qty
             /\ line'[l] # NoLine => line'[l].qty > 0
             /\ \A p \in Orders, i \in Items :
                  shipped'[p][i][l] =
                     IF line'[l].order = p /\ line'[l].item = i THEN line'[l].delivered ELSE 0
  <2>1. /\ line[l].qty \in Nat /\ line[l].delivered \in Nat /\ ask[l] \in Nat
        /\ line'[l].order = line[l].order /\ line'[l].item = line[l].item
        /\ line'[l].qty = line[l].qty /\ line'[l].delivered = line[l].delivered + ask[l]
        /\ ask[l] <= line[l].qty - line[l].delivered
        /\ ask[l] > 0 => line[l].order = o
    BY LineFacts DEF Gets, IInv
  <2>2. line'[l].delivered <= line'[l].qty
    BY <2>1
  <2>3. line'[l] # NoLine => line'[l].qty > 0
    <3>1. line'[l] # NoLine => line'[l].order \in Orders
      BY NoValueAssumption DEF IInv, OrderTypeOK, LineTable, LineRow
    <3>2. line'[l] # NoLine => line[l] # NoLine
      BY <2>1, <3>1, LineFacts DEF IInv
    <3> QED BY <2>1, <3>2 DEF LineBooks
  <2>4. ASSUME NEW p \in Orders, NEW i \in Items
        PROVE  shipped'[p][i][l] =
                  IF line'[l].order = p /\ line'[l].item = i THEN line'[l].delivered ELSE 0
    <3>1. shipped[p][i][l] = IF line[l].order = p /\ line[l].item = i THEN line[l].delivered ELSE 0
      BY DEF LineBooks
    <3>2. shipped'[p][i][l] = shipped[p][i][l] + IF p = o /\ line[l].item = i THEN ask[l] ELSE 0
      BY DEF Gets
    <3> QED BY <2>1, <3>1, <3>2
  <2> QED BY <2>2, <2>3, <2>4
<1>2. ASSUME NEW p \in Orders, status'[p] \in {"Confirmed", "Delivered", "Closed"}
      PROVE  status'[p] = "Closed" <=> AllDelivered(line', LinesOf(line', p))
  <2>1. CASE p = o
    BY <2>1 DEF Gets, IInv, OrderTypeOK
  <2>2. CASE p # o
    <3>1. status'[p] = status[p]
      BY <2>2 DEF Gets, IInv, OrderTypeOK
    <3>2. LinesOf(line', p) = LinesOf(line, p)
      BY DEF Gets, LinesOf
    <3>3. ASSUME NEW l \in LinesOf(line, p)
          PROVE  line'[l].qty = line[l].qty /\ line'[l].delivered = line[l].delivered
      <4>1. l \in Lines /\ line[l].order = p /\ line[l].delivered \in Nat
        BY LineFacts DEF LinesOf, IInv
      <4>2. ask[l] = 0
        BY <2>2, <4>1 DEF Gets
      <4> QED BY <4>1, <4>2 DEF Gets
    <3>4. AllDelivered(line', LinesOf(line', p)) <=> AllDelivered(line, LinesOf(line, p))
      BY <3>2, <3>3 DEF AllDelivered
    <3> QED BY <1>2, <3>1, <3>4 DEF LineBooks
  <2> QED BY <2>1, <2>2
<1> QED BY <1>1, <1>2 DEF LineBooks

-----------------------------------------------------------------------------
(* What the handlers do, when what they have read is still so.              *)

Serial == IInv /\ DraftHoldsNothing /\ LineBooks

LEMMA SameLines ==
    ASSUME UNCHANGED <<status, line, shipped>>
    PROVE  Idles
BY DEF Idles, ContentKept

LEMMA CreateOpens ==
    ASSUME Serial, NEW o \in Orders, CreateOrder(o)
    PROVE  Opens(o)
BY DEF CreateOrder, Opens, stockTables, Serial, IInv, OrderTypeOK

LEMMA IntakeOpens ==
    ASSUME Serial, NEW r \in Requests, NEW o \in Orders, NEW S \in SUBSET Lines, IntakeInsert(r, o, S)
    PROVE  Opens(o)
<1>1. /\ status[o] = "None" /\ status' = [status EXCEPT ![o] = "Draft"] /\ shipped' = shipped
      /\ S \cap Present(line) = {}
  BY DEF IntakeInsert, stockTables
<1>2. PICK item \in [S -> Items], qty \in [S -> 1..MaxQty] :
         line' = [l \in Lines |-> IF l \in S THEN NewLine(o, item[l], qty[l]) ELSE line[l]]
  BY DEF IntakeInsert
<1>3. ASSUME NEW l \in S
      PROVE  /\ line[l].order = NoOrder /\ line[l].delivered = 0
             /\ line'[l].order = o /\ line'[l].delivered = 0 /\ line'[l].qty > 0
  <2>1. line[l] = NoLine
    BY <1>1 DEF Present
  <2>2. line'[l] = NewLine(o, item[l], qty[l]) /\ qty[l] \in 1..MaxQty
    BY <1>2
  <2> QED BY <2>1, <2>2, MaxQtyAssumption DEF NoLine, NewLine
<1>4. \A l \in Lines \ S : line'[l] = line[l]
  BY <1>2
<1> QED BY <1>1, <1>3, <1>4 DEF Opens

LEMMA EditsOpen ==
    ASSUME Serial, NEW r \in Requests, ReadIsSo(r),
           \/ \E l \in Lines, i \in Items, n \in 1..MaxQty :
                 AddLineInsert(r, l, i, n) \/ UpdateLineSave(r, l, i, n)
           \/ RemoveLineDelete(r)
    PROVE  Opens(target[r])
<1>1. /\ pc[r] \in {"addLine", "updateLine", "removeLine"}
      /\ UNCHANGED <<status, shipped>>
  BY DEF AddLineInsert, UpdateLineSave, RemoveLineDelete, stockTables
<1>2. target[r] \in Orders /\ status[target[r]] = "Draft"
  BY <1>1 DEF ReadIsSo, Serial, IInv, RequestInv, RequestsWellFormed, QuotationWork, QuotationStatus
<1>3. status' = [status EXCEPT ![target[r]] = "Draft"]
  BY <1>1, <1>2 DEF Serial, IInv, OrderTypeOK
<1>4. ASSUME NEW l \in Lines, line[l].order = target[r] PROVE line[l].delivered = 0
  BY <1>2, <1>4, DraftLines DEF Serial
<1>5. ASSUME NEW m \in Lines, NEW i \in Items, NEW n \in 1..MaxQty, AddLineInsert(r, m, i, n), NEW l \in Lines
      PROVE  \/ line'[l] = line[l]
             \/ /\ line[l].order \in {target[r], NoOrder} /\ line[l].delivered = 0
                /\ line'[l].order = target[r] /\ line'[l].delivered = 0 /\ line'[l].qty > 0
  <2>1. line \in LineTable /\ line[m] = NoLine /\ line' = [line EXCEPT ![m] = NewLine(target[r], i, n)]
    BY <1>5 DEF AddLineInsert, Serial, IInv, OrderTypeOK
  <2>2. CASE l = m
    <3>1. line'[l] = NewLine(target[r], i, n) /\ line[l] = NoLine
      BY <2>1, <2>2 DEF LineTable
    <3> QED BY <3>1, MaxQtyAssumption DEF NewLine, NoLine
  <2>3. CASE l # m
    BY <2>1, <2>3 DEF LineTable
  <2> QED BY <2>2, <2>3
<1>6. ASSUME NEW m \in Lines, NEW i \in Items, NEW n \in 1..MaxQty, UpdateLineSave(r, m, i, n), NEW l \in Lines
      PROVE  \/ line'[l] = line[l]
             \/ /\ line[l].order \in {target[r], NoOrder} /\ line[l].delivered = 0
                /\ line'[l].order = target[r] /\ line'[l].delivered = 0 /\ line'[l].qty > 0
  <2>1. /\ line \in LineTable /\ pc[r] = "updateLine" /\ seen[r][m] # NoLine
        /\ line' = [line EXCEPT ![m] = [seen[r][m] EXCEPT !.item = i, !.qty = n]]
    BY <1>6 DEF UpdateLineSave, Serial, IInv, OrderTypeOK
  <2>2. seen[r][m] = line[m] /\ line[m].order = target[r] /\ line[m] \in LineRow
    BY <2>1, LineFacts DEF ReadIsSo, Serial, IInv
  <2>3. line[m].delivered = 0
    BY <1>4, <2>2
  <2>4. CASE l = m
    <3>1. PICK row \in LineRow : row = line[m]
      BY <2>2
    <3>2. line'[l] = [row EXCEPT !.item = i, !.qty = n]
      BY <2>1, <2>2, <2>4, <3>1 DEF LineTable
    <3>3. line'[l].order = row.order /\ line'[l].delivered = row.delivered /\ line'[l].qty = n
      BY <3>2 DEF LineRow
    <3> QED BY <2>2, <2>3, <2>4, <3>1, <3>3, MaxQtyAssumption
  <2>5. CASE l # m
    BY <2>1, <2>5 DEF LineTable
  <2> QED BY <2>4, <2>5
<1>7. ASSUME RemoveLineDelete(r), NEW l \in Lines
      PROVE  \/ line'[l] = line[l]
             \/ line[l].order \in {target[r], NoOrder} /\ line[l].delivered = 0 /\ line'[l] = NoLine
  <2>1. pc[r] = "removeLine" /\ line'[l] = IF seen[r][l] # NoLine THEN NoLine ELSE line[l]
    BY <1>7 DEF RemoveLineDelete
  <2>2. seen[r][l] # NoLine => line[l].order = target[r]
    BY <2>1 DEF ReadIsSo
  <2> QED BY <1>4, <2>1, <2>2
<1> QED BY <1>1, <1>2, <1>3, <1>5, <1>6, <1>7 DEF Opens

LEMMA ConfirmBecomes ==
    ASSUME Serial, NEW r \in Requests, ReadIsSo(r), ConfirmCommit(r)
    PROVE  Becomes(target[r], "Confirmed")
<1>1. /\ pc[r] \in {"reserve", "convert", "keep"}
      /\ shipped' = shipped /\ line' = Saved(line, seen[r])
      /\ status' = [status EXCEPT ![target[r]] = "Confirmed"]
  BY DEF ConfirmCommit, Reserved, Became
<1>2. status[target[r]] = "Draft" /\ LinesAreSo(r)
  BY <1>1 DEF ReadIsSo
<1>3. ASSUME NEW l \in Lines
      PROVE  /\ line'[l].order = line[l].order /\ line'[l].item = line[l].item
             /\ line'[l].qty = line[l].qty /\ line'[l].delivered = line[l].delivered
  <2>1. line'[l] = IF seen[r][l] # NoLine THEN seen[r][l] ELSE line[l]
    BY <1>1 DEF Saved
  <2>2. Passed(r, l) = 0 /\ line[l].delivered \in Nat
    BY <1>1, LineFacts DEF Passed, Serial, IInv
  <2> QED BY <1>2, <2>1, <2>2 DEF LinesAreSo
<1> QED BY <1>1, <1>2, <1>3 DEF Becomes, ContentKept

LEMMA CancelBecomes ==
    ASSUME Serial, NEW r \in Requests, ReadIsSo(r), CancelCommit(r)
    PROVE  Becomes(target[r], "Cancelled")
BY DEF CancelCommit, ReadIsSo, Becomes, Became, ContentKept

LEMMA DeliverGets ==
    ASSUME Serial, IInv', NEW r \in Requests, ReadIsSo(r), DeliverCommit(r)
    PROVE  Gets(target[r], asked[r])
<1> DEFINE o == target[r]
           written == [l \in Lines |-> IF asked[r][l] > 0 THEN seen[r][l] ELSE NoLine]
<1>1. /\ pc[r] = "handover" /\ todo[r] = {} /\ line' = Saved(line, written)
      /\ shipped' = [shipped EXCEPT ![o] = [i \in Items |-> [l \in Lines |->
               shipped[o][i][l] + IF seen[r][l].item = i THEN asked[r][l] ELSE 0]]]
      /\ status' = [status EXCEPT ![o] =
                       IF AllDelivered(seen[r], Present(seen[r])) THEN "Closed" ELSE "Delivered"]
  BY DEF DeliverCommit, Became
<1>2. /\ status[o] \in {"Confirmed", "Delivered"} /\ asked[r] # NothingAsked /\ LinesAreSo(r)
      /\ \A l \in Lines : asked[r][l] <= line[l].qty - line[l].delivered
  BY <1>1 DEF ReadIsSo
<1>3. o \in Orders /\ asked[r] \in [Lines -> Nat]
  BY <1>1 DEF Serial, IInv, RequestInv, RequestTypeOK, RequestsWellFormed, QuotationWork, QuotationStatus
<1>4. ASSUME NEW l \in Lines
      PROVE  /\ asked[r][l] > 0 => line[l].order = o /\ seen[r][l].item = line[l].item
             /\ line'[l].order = line[l].order /\ line'[l].item = line[l].item
             /\ line'[l].qty = line[l].qty /\ line'[l].delivered = line[l].delivered + asked[r][l]
  <2>1. line'[l] = IF written[l] # NoLine THEN written[l] ELSE line[l]
    BY <1>1 DEF Saved
  <2>2. Passed(r, l) = asked[r][l] /\ line[l].delivered \in Nat /\ asked[r][l] \in Nat
    BY <1>1, <1>3, LineFacts DEF Passed, Serial, IInv
  <2>3. CASE asked[r][l] > 0
    <3>1. seen[r][l] # NoLine
      BY <2>3 DEF Serial, IInv, RequestInv, RequestsWellFormed
    <3>2. line'[l] = seen[r][l]
      BY <2>1, <2>3, <3>1
    <3> QED BY <1>2, <2>2, <3>1, <3>2 DEF LinesAreSo
  <2>4. CASE asked[r][l] = 0
    <3>1. line'[l] = line[l]
      BY <2>1, <2>4
    <3> QED BY <2>2, <2>4, <3>1
  <2> QED BY <2>2, <2>3, <2>4
<1>5. ASSUME NEW p \in Orders, NEW i \in Items, NEW l \in Lines
      PROVE  shipped'[p][i][l] = shipped[p][i][l] + IF p = o /\ line[l].item = i THEN asked[r][l] ELSE 0
  <2>1. shipped \in [Orders -> [Items -> [Lines -> Nat]]] /\ asked[r][l] \in Nat
    BY <1>3 DEF Serial, IInv, StockInv, StockTypeOK
  <2>2. CASE p = o
    <3>1. shipped'[p][i][l] = shipped[p][i][l] + IF seen[r][l].item = i THEN asked[r][l] ELSE 0
      BY <1>1, <1>3, <2>1, <2>2
    <3> QED BY <1>4, <2>1, <2>2, <3>1
  <2>3. CASE p # o
    <3>1. shipped'[p][i][l] = shipped[p][i][l] /\ shipped[p][i][l] \in Nat
      BY <1>1, <1>3, <2>1, <2>3
    <3> QED BY <2>3, <3>1
  <2> QED BY <2>2, <2>3
<1>6. Present(seen[r]) = LinesOf(line', o)
  BY <1>2, <1>4 DEF LinesAreSo, Present, LinesOf
<1>7. ASSUME NEW l \in Present(seen[r])
      PROVE  seen[r][l].qty = line'[l].qty /\ seen[r][l].delivered = line'[l].delivered
  <2>1. l \in Lines /\ seen[r][l] # NoLine
    BY DEF Present
  <2>2. Passed(r, l) = asked[r][l]
    BY <1>1 DEF Passed
  <2> QED BY <1>2, <1>4, <2>1, <2>2 DEF LinesAreSo
<1>8. AllDelivered(seen[r], Present(seen[r])) <=> AllDelivered(line', LinesOf(line', o))
  BY <1>6, <1>7 DEF AllDelivered
<1>9. status' = [status EXCEPT ![o] =
                    IF AllDelivered(line', LinesOf(line', o)) THEN "Closed" ELSE "Delivered"]
  BY <1>1, <1>8
<1> QED BY <1>2, <1>4, <1>5, <1>9 DEF Gets

LEMMA SaleGets ==
    ASSUME Serial, NEW o \in Orders, NEW l \in Lines, NEW n \in 1..MaxQty, SellOnOrder(o, l, n)
    PROVE  \E ask \in [Lines -> Nat] : Gets(o, ask)
<1> DEFINE ask == [m \in Lines |-> IF m = l THEN n ELSE 0]
<1>1. /\ status[o] \in {"Confirmed", "Delivered"} /\ line[l].order = o
      /\ n <= line[l].qty - line[l].delivered
      /\ line' = [line EXCEPT ![l].delivered = @ + n]
      /\ status' = [status EXCEPT ![o] =
                       IF AllDelivered(line', LinesOf(line, o)) THEN "Closed" ELSE "Delivered"]
      /\ shipped' = [shipped EXCEPT ![o][line[l].item][l] = @ + n]
  BY DEF SellOnOrder, Became
<1>2. n \in Nat /\ n > 0
  BY MaxQtyAssumption
<1>3. ask \in [Lines -> Nat] /\ ask # NothingAsked
  BY <1>2 DEF NothingAsked
<1>4. line \in LineTable /\ shipped \in [Orders -> [Items -> [Lines -> Nat]]]
  BY DEF Serial, IInv, OrderTypeOK, StockInv, StockTypeOK
<1>5. line[l] \in LineRow /\ line[l].item \in Items
  BY <1>1, LineFacts DEF Serial, IInv
<1>6. PICK row \in LineRow : row = line[l]
  BY <1>5
<1>7. line'[l] = [row EXCEPT !.delivered = row.delivered + n]
  BY <1>1, <1>4, <1>6 DEF LineTable
<1>8. /\ line'[l].order = row.order /\ line'[l].item = row.item /\ line'[l].qty = row.qty
      /\ line'[l].delivered = row.delivered + n
  BY <1>7 DEF LineRow
<1>9. \A m \in Lines \ {l} : line'[m] = line[m]
  BY <1>1, <1>4 DEF LineTable
<1>10. ASSUME NEW m \in Lines
       PROVE  /\ ask[m] <= line[m].qty - line[m].delivered
              /\ ask[m] > 0 => line[m].order = o
              /\ line'[m].order = line[m].order /\ line'[m].item = line[m].item
              /\ line'[m].qty = line[m].qty /\ line'[m].delivered = line[m].delivered + ask[m]
  <2>1. line[m].qty \in Nat /\ line[m].delivered \in Nat /\ line[m].delivered <= line[m].qty
    BY LineFacts DEF Serial, IInv, LineBooks
  <2>2. CASE m = l
    BY <1>1, <1>6, <1>8, <2>2
  <2>3. CASE m # l
    BY <1>9, <2>1, <2>3
  <2> QED BY <2>2, <2>3
<1>11. ASSUME NEW p \in Orders, NEW i \in Items, NEW m \in Lines
       PROVE  shipped'[p][i][m] = shipped[p][i][m] + IF p = o /\ line[m].item = i THEN ask[m] ELSE 0
  <2>1. shipped[p][i][m] \in Nat
    BY <1>4
  <2>2. CASE p = o /\ i = line[l].item /\ m = l
    BY <1>1, <1>4, <1>5, <2>2
  <2>3. CASE ~(p = o /\ i = line[l].item /\ m = l)
    <3>1. shipped'[p][i][m] = shipped[p][i][m]
      BY <1>1, <1>4, <1>5, <2>3
    <3> QED BY <2>1, <2>3, <3>1
  <2> QED BY <2>2, <2>3
<1>12. LinesOf(line', o) = LinesOf(line, o)
  BY <1>10 DEF LinesOf
<1>13. Gets(o, ask)
  BY <1>1, <1>3, <1>10, <1>11, <1>12 DEF Gets
<1> QED BY <1>3, <1>13

-----------------------------------------------------------------------------
(* What the only request has read stays so.                                 *)

(* Requests that read no lines, or are over. *)
LEMMA NothingRead ==
    ASSUME NEW r \in Requests, pc'[r] \in {"idle", "intake"} \cup QuotationStatus
    PROVE  ReadIsSo(r)'
BY DEF ReadIsSo, QuotationStatus

LEMMA FinishReads ==
    ASSUME IInv, NEW r \in Requests, Finish(r)
    PROVE  ReadIsSo(r)'
<1>1. pc'[r] = "idle"
  BY DEF Finish, IInv, RequestInv, RequestTypeOK
<1> QED BY <1>1, NothingRead

LEMMA ReadLines ==
    ASSUME Serial, NEW r \in Requests, NEW o \in Orders,
           line' = line, target'[r] = o, seen'[r] = LinesRead(o), pc'[r] # "handover"
    PROVE  LinesAreSo(r)'
<1> SUFFICES ASSUME NEW l \in Lines
             PROVE  /\ seen'[r][l] # NoLine <=> line'[l].order = target'[r]
                    /\ seen'[r][l] # NoLine =>
                          /\ seen'[r][l].order = line'[l].order
                          /\ seen'[r][l].item = line'[l].item
                          /\ seen'[r][l].qty = line'[l].qty
                          /\ seen'[r][l].delivered = line'[l].delivered + Passed(r, l)'
  BY DEF LinesAreSo
<1>1. seen'[r][l] = IF line[l].order = o THEN line[l] ELSE NoLine
  BY DEF LinesRead
<1>2. Passed(r, l)' = 0
  BY DEF Passed
<1>3. line[l].delivered \in Nat /\ (line[l].order = o => line[l] # NoLine)
  BY LineFacts DEF Serial, IInv
<1> QED BY <1>1, <1>2, <1>3

LEMMA BeginningReads ==
    ASSUME Serial, NEW r \in Requests,
           \/ \E q \in Quotations : IntakeRead(r, q)
           \/ \E o \in Orders : AddLineRead(r, o) \/ ConfirmRead(r, o) \/ CancelRead(r, o)
           \/ \E l \in Lines, edit \in {"updateLine", "removeLine"} : EditRead(r, l, edit)
           \/ \E o \in Orders, ask \in [Lines -> 0..MaxQty] : DeliverRead(r, o, ask)
           \/ \E q \in Quotations, s \in QuotationStatus : StatusRead(r, q, s)
    PROVE  ReadIsSo(r)'
<1>0. /\ pc \in [Requests -> Step] /\ seen \in [Requests -> LineTable]
      /\ target \in [Requests -> Orders \cup {NoOrder} \cup Quotations]
      /\ asked \in [Requests -> [Lines -> Nat]]
  BY DEF Serial, IInv, RequestInv, RequestTypeOK
<1>1. CASE \/ \E q \in Quotations : IntakeRead(r, q)
           \/ \E q \in Quotations, s \in QuotationStatus : StatusRead(r, q, s)
  BY <1>0, <1>1, NothingRead DEF IntakeRead, StatusRead
<1>2. ASSUME NEW o \in Orders, AddLineRead(r, o) PROVE ReadIsSo(r)'
  <2>1. pc'[r] = "addLine" /\ target'[r] = o /\ status'[o] = "Draft"
    BY <1>0, <1>2 DEF AddLineRead, orderTables
  <2> QED BY <2>1 DEF ReadIsSo
<1>3. ASSUME NEW o \in Orders, ConfirmRead(r, o) PROVE ReadIsSo(r)'
  <2>1. /\ pc'[r] = "confirm" /\ target'[r] = o /\ status'[o] = "Draft"
        /\ line' = line /\ seen'[r] = LinesRead(o)
    BY <1>0, <1>3 DEF ConfirmRead, orderTables
  <2>2. LinesAreSo(r)'
    BY <2>1, ReadLines
  <2> QED BY <2>1, <2>2 DEF ReadIsSo
<1>4. ASSUME NEW o \in Orders, CancelRead(r, o) PROVE ReadIsSo(r)'
  <2>1. pc'[r] = "cancel" /\ target'[r] = o /\ status'[o] \in {"Draft", "Confirmed"}
    BY <1>0, <1>4 DEF CancelRead, orderTables
  <2> QED BY <2>1 DEF ReadIsSo
<1>5. ASSUME NEW l \in Lines, NEW edit \in {"updateLine", "removeLine"}, EditRead(r, l, edit)
      PROVE  ReadIsSo(r)'
  <2>1. /\ pc'[r] \in {"updateLine", "removeLine"} /\ target'[r] = line[l].order
        /\ status'[line[l].order] = "Draft" /\ line' = line
        /\ seen'[r] = [EmptyLines EXCEPT ![l] = line[l]]
    BY <1>0, <1>5 DEF EditRead, orderTables
  <2>2. \A m \in Lines : seen'[r][m] # NoLine => m = l /\ seen'[r][m] = line[m]
    BY <2>1 DEF EmptyLines
  <2> QED BY <2>1, <2>2 DEF ReadIsSo
<1>6. ASSUME NEW o \in Orders, NEW ask \in [Lines -> 0..MaxQty], DeliverRead(r, o, ask)
      PROVE  ReadIsSo(r)'
  <2>1. /\ pc'[r] = "deliver" /\ target'[r] = o /\ status'[o] \in {"Confirmed", "Delivered"}
        /\ line' = line /\ seen'[r] = LinesRead(o) /\ asked'[r] = ask /\ Requestable(o, ask)
    BY <1>0, <1>6 DEF DeliverRead, orderTables
  <2>2. LinesAreSo(r)'
    BY <2>1, ReadLines
  <2>3. ASSUME NEW l \in Lines PROVE ask[l] <= line[l].qty - line[l].delivered
    <3>1. ask[l] \in Nat /\ (ask[l] > 0 => ask[l] <= line[l].qty - line[l].delivered)
      BY <2>1, MaxQtyAssumption DEF Requestable
    <3>2. line[l].qty \in Nat /\ line[l].delivered \in Nat /\ line[l].delivered <= line[l].qty
      BY LineFacts DEF Serial, IInv, LineBooks
    <3> QED BY <3>1, <3>2
  <2>4. ask # NothingAsked
    BY <2>1 DEF Requestable
  <2> QED BY <2>1, <2>2, <2>3, <2>4 DEF ReadIsSo
<1> QED BY <1>1, <1>2, <1>3, <1>4, <1>5, <1>6

(* Steps of a request between its first read and its end.                   *)
LEMMA GoingOnReads ==
    ASSUME Serial, NEW r \in Requests, ReadIsSo(r),
           \/ ConfirmLock(r) \/ ConfirmFindQuotation(r) \/ CancelFind(r)
           \/ PermitGate(r) \/ DeliverLock(r)
    PROVE  ReadIsSo(r)'
<1>0. pc \in [Requests -> Step] /\ asked[r] \in [Lines -> Nat]
  BY DEF Serial, IInv, RequestInv, RequestTypeOK
<1>1. /\ UNCHANGED <<status, line, seen, target, asked>>
      /\ \/ pc[r] = "confirm" /\ pc'[r] = "reserve"
         \/ pc[r] = "reserve" /\ pc'[r] \in {"convert", "keep"}
         \/ pc[r] = "cancel" /\ pc'[r] = "release"
         \/ pc[r] = "deliver" /\ pc'[r] = "permits"
         \/ pc[r] = "permits" /\ pc'[r] = "handover" /\ todo'[r] = {l \in Lines : asked[r][l] > 0}
  BY <1>0 DEF ConfirmLock, ConfirmFindQuotation, CancelFind, PermitGate, DeliverLock, orderTables,
     Serial, IInv, RequestInv, RequestTypeOK
<1>2. pc[r] # "cancel" => LinesAreSo(r)
  BY <1>1 DEF ReadIsSo
<1>3. \A l \in Lines : Passed(r, l) = 0
  BY <1>1 DEF Passed
<1>4. \A l \in Lines : Passed(r, l)' = 0
  BY <1>0, <1>1 DEF Passed
<1>5. pc[r] # "cancel" => LinesAreSo(r)'
  BY <1>1, <1>2, <1>3, <1>4 DEF LinesAreSo
<1> QED BY <1>1, <1>5 DEF ReadIsSo

(* A loop passes line l, whose copy keeps its order, item and quantity.     *)
LEMMA LoopReads ==
    ASSUME Serial, NEW r \in Requests, ReadIsSo(r), NEW l \in Lines, l \in todo[r],
           ReserveLine(r, l) \/ HandOverLine(r, l)
    PROVE  ReadIsSo(r)'
<1>0. /\ seen \in [Requests -> LineTable] /\ asked[r] \in [Lines -> Nat] /\ todo[r] \subseteq Lines
      /\ seen[r][l] # NoLine /\ todo \in [Requests -> SUBSET Lines]
  BY DEF Serial, IInv, RequestInv, RequestTypeOK, RequestsWellFormed, Present
<1>1. /\ UNCHANGED <<status, line, target, asked, pc>>
      /\ pc[r] \in {"reserve", "handover"} /\ todo'[r] = todo[r] \ {l}
  BY <1>0 DEF ReserveLine, HandOverLine, orderTables
<1>2. seen[r][l] \in LineRow /\ seen[r] \in LineTable
  BY <1>0 DEF LineTable
<1>3. PICK row \in LineRow : row = seen[r][l]
  BY <1>2
<1>4. \A m \in Lines \ {l} : seen'[r][m] = seen[r][m]
  <2>1. CASE ReserveLine(r, l)
    <3> DEFINE i == seen[r][l].item
               qty == seen[r][l].qty
    <3>1. PICK take \in Reservations(work[r][i], qty) :
             /\ work' = [work EXCEPT ![r][i] = WithReserved(work[r][i], take)]
             /\ held' = [held EXCEPT ![r][i] = [m \in Locations |-> held[r][i][m] + take[m]]]
             /\ seen' = [seen EXCEPT ![r][l].shortage = @ \/ Total(take) < qty]
      BY <2>1 DEF ReserveLine
    <3> QED BY <1>0, <1>2, <3>1 DEF LineTable
  <2>2. CASE HandOverLine(r, l)
    BY <1>0, <1>2, <2>2 DEF HandOverLine, LineTable
  <2> QED BY <2>1, <2>2
<1>5. CASE ReserveLine(r, l)
  <2> DEFINE i == seen[r][l].item
             qty == seen[r][l].qty
  <2>0. PICK take \in Reservations(work[r][i], qty) :
           /\ work' = [work EXCEPT ![r][i] = WithReserved(work[r][i], take)]
           /\ held' = [held EXCEPT ![r][i] = [m \in Locations |-> held[r][i][m] + take[m]]]
           /\ seen' = [seen EXCEPT ![r][l].shortage = @ \/ Total(take) < qty]
    BY <1>5 DEF ReserveLine
  <2>1. seen'[r][l] = [seen[r][l] EXCEPT !.shortage = @ \/ Total(take) < qty]
    BY <1>0, <1>2, <2>0 DEF LineTable
  <2>2. /\ seen'[r][l].order = row.order /\ seen'[r][l].item = row.item
        /\ seen'[r][l].qty = row.qty /\ seen'[r][l].delivered = row.delivered
    BY <1>3, <2>1 DEF LineRow
  <2>3. row.order \in Orders
    BY DEF LineRow
  <2>4. seen'[r][l] # NoLine
    BY <2>2, <2>3, NoValueAssumption DEF NoLine
  <2>5. pc[r] = "reserve"
    BY <1>5 DEF ReserveLine
  <2>6. \A m \in Lines : Passed(r, m) = 0 /\ Passed(r, m)' = 0
    BY <1>1, <2>5 DEF Passed
  <2>7. LinesAreSo(r)
    BY <1>1 DEF ReadIsSo
  <2>8. LinesAreSo(r)'
    <3> SUFFICES ASSUME NEW m \in Lines
                 PROVE  /\ seen'[r][m] # NoLine <=> line[m].order = target[r]
                        /\ seen'[r][m] # NoLine =>
                              /\ seen'[r][m].order = line[m].order
                              /\ seen'[r][m].item = line[m].item
                              /\ seen'[r][m].qty = line[m].qty
                              /\ seen'[r][m].delivered = line[m].delivered + Passed(r, m)'
      BY <1>1 DEF LinesAreSo
    <3>1. CASE m = l
      BY <1>0, <1>3, <2>2, <2>4, <2>6, <2>7, <3>1 DEF LinesAreSo
    <3>2. CASE m # l
      BY <1>4, <2>6, <2>7, <3>2 DEF LinesAreSo
    <3> QED BY <3>1, <3>2
  <2> QED BY <1>1, <2>5, <2>8 DEF ReadIsSo
<1>6. CASE HandOverLine(r, l)
  <2>1. seen'[r][l] = [row EXCEPT !.delivered = row.delivered + asked[r][l]]
    BY <1>0, <1>2, <1>3, <1>6 DEF HandOverLine, LineTable
  <2>2. /\ seen'[r][l].order = row.order /\ seen'[r][l].item = row.item
        /\ seen'[r][l].qty = row.qty /\ seen'[r][l].delivered = row.delivered + asked[r][l]
    BY <2>1 DEF LineRow
  <2>3. row.order \in Orders
    BY DEF LineRow
  <2>4. seen'[r][l] # NoLine
    BY <2>2, <2>3, NoValueAssumption DEF NoLine
  <2>5. pc[r] = "handover"
    BY <1>6 DEF HandOverLine
  <2>6. \A m \in Lines \ {l} : Passed(r, m)' = Passed(r, m)
    BY <1>1, <2>5 DEF Passed
  <2>7. Passed(r, l) = 0 /\ Passed(r, l)' = asked[r][l]
    BY <1>1, <2>5 DEF Passed
  <2>8. LinesAreSo(r)
    BY <1>1 DEF ReadIsSo
  <2>9. line[l].delivered \in Nat /\ asked[r][l] \in Nat
    BY <1>0, LineFacts DEF Serial, IInv
  <2>10. LinesAreSo(r)'
    <3> SUFFICES ASSUME NEW m \in Lines
                 PROVE  /\ seen'[r][m] # NoLine <=> line[m].order = target[r]
                        /\ seen'[r][m] # NoLine =>
                              /\ seen'[r][m].order = line[m].order
                              /\ seen'[r][m].item = line[m].item
                              /\ seen'[r][m].qty = line[m].qty
                              /\ seen'[r][m].delivered = line[m].delivered + Passed(r, m)'
      BY <1>1 DEF LinesAreSo
    <3>1. CASE m = l
      <4>1. /\ seen[r][l].order = line[l].order /\ seen[r][l].item = line[l].item
            /\ seen[r][l].qty = line[l].qty /\ seen[r][l].delivered = line[l].delivered + 0
            /\ line[l].order = target[r]
        BY <1>0, <2>7, <2>8 DEF LinesAreSo
      <4> QED BY <1>3, <2>2, <2>4, <2>7, <2>9, <3>1, <4>1
    <3>2. CASE m # l
      <4>1. seen'[r][m] = seen[r][m] /\ Passed(r, m)' = Passed(r, m)
        BY <1>4, <2>6, <3>2
      <4> QED BY <2>8, <4>1 DEF LinesAreSo
    <3> QED BY <3>1, <3>2
  <2> QED BY <1>1, <2>5, <2>10 DEF ReadIsSo
<1> QED BY <1>5, <1>6

(* Every step does one of these, and keeps what the request has read.       *)
LivesOn ==
    \/ Idles
    \/ \E o \in Orders :
          \/ Opens(o) \/ Becomes(o, "Confirmed") \/ Becomes(o, "Cancelled")
          \/ \E ask \in [Lines -> Nat] : Gets(o, ask)

LEMMA SerialSales ==
    ASSUME Serial, NEW r \in Requests, ReadIsSo(r), SalesOrdersStep(r)
    PROVE  LivesOn /\ ReadIsSo(r)'
<1>0. target[r] \in Orders \/ pc[r] \in {"idle"} \cup QuotationWork
  BY DEF Serial, IInv, RequestInv, RequestsWellFormed
<1>1. CASE \/ \E q \in Quotations : IntakeRead(r, q)
           \/ \E o \in Orders : AddLineRead(r, o) \/ ConfirmRead(r, o) \/ CancelRead(r, o)
           \/ \E l \in Lines, edit \in {"updateLine", "removeLine"} : EditRead(r, l, edit)
  <2>1. UNCHANGED <<status, line, shipped>>
    BY <1>1 DEF IntakeRead, AddLineRead, ConfirmRead, CancelRead, EditRead, orderTables, stockTables
  <2> QED BY <1>1, <2>1, SameLines, BeginningReads DEF LivesOn
<1>2. CASE IntakeExisting(r) \/ ConfirmRefused(r) \/ CancelRefused(r)
  <2>1. Finish(r) /\ UNCHANGED <<status, line, shipped>>
    BY <1>2 DEF IntakeExisting, ConfirmRefused, CancelRefused, orderTables, stockTables
  <2> QED BY <2>1, SameLines, FinishReads DEF LivesOn, Serial
<1>3. ASSUME NEW o \in Orders, NEW S \in SUBSET Lines, IntakeInsert(r, o, S)
      PROVE  LivesOn /\ ReadIsSo(r)'
  BY <1>3, IntakeOpens, FinishReads DEF IntakeInsert, LivesOn, Serial
<1>4. CASE \/ \E l \in Lines, i \in Items, n \in 1..MaxQty :
                 AddLineInsert(r, l, i, n) \/ UpdateLineSave(r, l, i, n)
           \/ RemoveLineDelete(r)
  <2>1. Finish(r) /\ pc[r] \in {"addLine", "updateLine", "removeLine"}
    BY <1>4 DEF AddLineInsert, UpdateLineSave, RemoveLineDelete
  <2>2. target[r] \in Orders
    BY <1>0, <2>1 DEF QuotationWork, QuotationStatus
  <2> QED BY <1>4, <2>1, <2>2, EditsOpen, FinishReads DEF LivesOn, Serial
<1>5. CASE ConfirmLock(r) \/ ConfirmFindQuotation(r) \/ CancelFind(r)
  <2>1. UNCHANGED <<status, line, shipped>>
    BY <1>5 DEF ConfirmLock, ConfirmFindQuotation, CancelFind, orderTables, stockTables
  <2> QED BY <1>5, <2>1, SameLines, GoingOnReads DEF LivesOn
<1>6. ASSUME NEW l \in Lines, ReserveLine(r, l) PROVE LivesOn /\ ReadIsSo(r)'
  <2>1. l \in todo[r] /\ UNCHANGED <<status, line, shipped>>
    BY <1>6 DEF ReserveLine, orderTables, stockTables
  <2> QED BY <1>6, <2>1, SameLines, LoopReads DEF LivesOn
<1>7. CASE ConfirmCommit(r) \/ CancelCommit(r)
  <2>1. Finish(r) /\ target[r] \in Orders
    BY <1>7, CommitWrites DEF ConfirmCommit, CancelCommit, Serial
  <2> QED BY <1>7, <2>1, ConfirmBecomes, CancelBecomes, FinishReads DEF LivesOn, Serial
<1> QED BY <1>1, <1>2, <1>3, <1>4, <1>5, <1>6, <1>7 DEF SalesOrdersStep

LEMMA SerialDeliveries ==
    ASSUME Serial, IInv', NEW r \in Requests, ReadIsSo(r), DeliveriesStep(r)
    PROVE  LivesOn /\ ReadIsSo(r)'
<1>1. CASE \E o \in Orders, ask \in [Lines -> 0..MaxQty] : DeliverRead(r, o, ask)
  <2>1. UNCHANGED <<status, line, shipped>>
    BY <1>1 DEF DeliverRead, orderTables, stockTables
  <2> QED BY <1>1, <2>1, SameLines, BeginningReads DEF LivesOn
<1>2. CASE PermitRefused(r) \/ HandOverRefused(r) \/ DeliverRefused(r)
  <2>1. Finish(r) /\ UNCHANGED <<status, line, shipped>>
    BY <1>2 DEF PermitRefused, HandOverRefused, DeliverRefused, orderTables, stockTables
  <2> QED BY <2>1, SameLines, FinishReads DEF LivesOn, Serial
<1>3. CASE PermitGate(r) \/ DeliverLock(r)
  <2>1. UNCHANGED <<status, line, shipped>>
    BY <1>3 DEF PermitGate, DeliverLock, orderTables, stockTables
  <2> QED BY <1>3, <2>1, SameLines, GoingOnReads DEF LivesOn
<1>4. ASSUME NEW l \in Lines, HandOverLine(r, l) PROVE LivesOn /\ ReadIsSo(r)'
  <2>1. l \in todo[r] /\ UNCHANGED <<status, line, shipped>>
    BY <1>4 DEF HandOverLine, orderTables, stockTables
  <2> QED BY <1>4, <2>1, SameLines, LoopReads DEF LivesOn
<1>5. CASE DeliverCommit(r)
  <2>1. Finish(r) /\ target[r] \in Orders
    BY <1>5, CommitWrites DEF DeliverCommit, Serial
  <2>2. asked[r] \in [Lines -> Nat]
    BY DEF Serial, IInv, RequestInv, RequestTypeOK
  <2> QED BY <1>5, <2>1, <2>2, DeliverGets, FinishReads DEF LivesOn, Serial
<1> QED BY <1>1, <1>2, <1>3, <1>4, <1>5 DEF DeliveriesStep

(* What happens while no request is being served.                           *)
TableStep ==
    \/ OrderStep \/ MoveStep
    \/ \E q \in Quotations : ExpireOutdated(q)
    \/ \E l \in Lines, n \in PermitSums : PermitStep(l, n)

LEMMA TableStepLives ==
    ASSUME Serial, TableStep
    PROVE  LivesOn /\ UNCHANGED requestVars
<1>1. ASSUME NEW o \in Orders, CreateOrder(o) PROVE LivesOn /\ UNCHANGED requestVars
  BY <1>1, CreateOpens DEF LivesOn, CreateOrder
<1>2. ASSUME NEW o \in Orders, NEW l \in Lines, NEW n \in 1..MaxQty, SellOnOrder(o, l, n)
      PROVE  LivesOn /\ UNCHANGED requestVars
  BY <1>2, SaleGets DEF LivesOn, SellOnOrder
<1>3. CASE MoveStep
  <2>1. PICK i \in Items, l \in Locations, n \in 1..MaxQty :
           \/ \E to \in Locations : Transfer(i, l, to, n)
           \/ WalkInSale(i, l, n) \/ Return(i, l, n)
           \/ Increase(i, l, n) \/ Decrease(i, l, n)
    BY <1>3 DEF MoveStep
  <2>2. UNCHANGED <<orderTables, shipped, requestVars>>
    BY <2>1 DEF Transfer, WalkInSale, Return, Increase, Decrease
  <2> QED BY <2>2, SameLines DEF LivesOn, orderTables
<1>4. CASE \/ \E q \in Quotations : ExpireOutdated(q)
           \/ \E l \in Lines, n \in PermitSums : PermitStep(l, n)
  <2>1. UNCHANGED <<status, line, shipped, requestVars>>
    BY <1>4 DEF ExpireOutdated, PermitStep, orderTables, stockTables
  <2> QED BY <2>1, SameLines DEF LivesOn
<1> QED BY <1>1, <1>2, <1>3, <1>4 DEF TableStep, OrderStep

LEMMA SerialStep ==
    ASSUME Serial, IInv', NEW r \in Requests, Requests = {r}, ReadIsSo(r), [Next /\ OneAtATime]_vars
    PROVE  LivesOn /\ ReadIsSo(r)'
<1>1. CASE SalesOrdersStep(r)
  BY <1>1, SerialSales
<1>2. CASE DeliveriesStep(r)
  BY <1>2, SerialDeliveries
<1>3. CASE QuotationsStep(r)
  <2>1. UNCHANGED <<status, line, shipped>>
    BY <1>3 DEF QuotationsStep, StatusRead, StatusSave, orderTables, stockTables
  <2>2. CASE \E q \in Quotations, s \in QuotationStatus : StatusRead(r, q, s)
    BY <2>1, <2>2, SameLines, BeginningReads DEF LivesOn
  <2>3. CASE StatusSave(r)
    BY <2>1, <2>3, SameLines, FinishReads DEF LivesOn, StatusSave, Serial
  <2> QED BY <1>3, <2>2, <2>3 DEF QuotationsStep
<1>4. CASE Rollback(r)
  BY <1>4, SameLines, FinishReads DEF Rollback, LivesOn, orderTables, stockTables, Serial
<1>5. CASE UNCHANGED vars
  <2>1. ReadIsSo(r)' <=> ReadIsSo(r)
    BY <1>5 DEF ReadIsSo, LinesAreSo, Passed, NothingAsked, vars, orderTables, requestVars
  <2> QED BY <1>5, <2>1, SameLines DEF LivesOn, vars, orderTables, stockTables
<1>6. CASE TableStep /\ OneAtATime
  <2>1. LivesOn /\ requestVars' = requestVars
    BY <1>6, TableStepLives
  <2>2. pc[r] = "idle" /\ pc'[r] = "idle"
    BY <1>6, <2>1 DEF OneAtATime, requestVars
  <2> QED BY <2>1, <2>2, NothingRead
<1>7. Next => SalesOrdersStep(r) \/ DeliveriesStep(r) \/ QuotationsStep(r) \/ Rollback(r) \/ TableStep
  BY DEF Next, DeskNext, TableStep
<1> QED BY <1>1, <1>2, <1>3, <1>4, <1>5, <1>6, <1>7

LEMMA SerialKeeps ==
    ASSUME Serial, IInv', NEW r \in Requests, Requests = {r}, ReadIsSo(r), [Next /\ OneAtATime]_vars
    PROVE  LineBooks' /\ ReadIsSo(r)'
<1>1. LivesOn /\ ReadIsSo(r)'
  BY SerialStep
<1>2. CASE Idles
  BY <1>1, <1>2, IdlesKeepsLines DEF Serial, IInv
<1>3. CASE \E o \in Orders : Opens(o)
  BY <1>1, <1>3, OpensKeepsLines DEF Serial
<1>4. CASE \E o \in Orders : Becomes(o, "Confirmed") \/ Becomes(o, "Cancelled")
  BY <1>1, <1>4, BecomesKeepsLines DEF Serial
<1>5. CASE \E o \in Orders : \E ask \in [Lines -> Nat] : Gets(o, ask)
  BY <1>1, <1>5, GetsKeepsLines DEF Serial
<1> QED BY <1>1, <1>2, <1>3, <1>4, <1>5 DEF LivesOn

LEMMA InitSerial == Init => SerialInv
<1> SUFFICES ASSUME Init PROVE SerialInv
  OBVIOUS
<1>1. \A r \in Requests : ReadIsSo(r)
  BY DEF Init, ReadIsSo
<1>2. \A l \in Lines : line[l] = NoLine
  BY DEF Init, EmptyLines
<1>3. \A o \in Orders : status[o] = "None"
  BY DEF Init
<1>4. \A o \in Orders, i \in Items, l \in Lines : shipped[o][i][l] = 0
  BY DEF Init, NothingAsked
<1>5. \A l \in Lines : line[l].delivered = 0 /\ line[l].qty = 0
  BY <1>2 DEF NoLine
<1>6. LineBooks
  BY <1>2, <1>3, <1>4, <1>5 DEF LineBooks
<1> QED BY <1>1, <1>6 DEF SerialInv

(* The inductive invariant, in every behaviour of a single request.         *)
LEMMA SerialInvariance ==
    ASSUME NEW r \in Requests, Requests = {r}
    PROVE  SerialSpec => [](Serial /\ ReadIsSo(r))
<1>1. SerialSpec => Spec
  <2>1. [Next /\ OneAtATime]_vars => [Next]_vars
    OBVIOUS
  <2> QED BY <2>1, PTL DEF SerialSpec, Spec
<1>2. Init => LineBooks /\ ReadIsSo(r)
  BY InitSerial DEF SerialInv
<1>3. IInv /\ IInv' /\ DraftHoldsNothing /\ LineBooks /\ ReadIsSo(r) /\ [Next /\ OneAtATime]_vars
         => LineBooks' /\ ReadIsSo(r)'
  BY SerialKeeps DEF Serial
<1>4. IInv /\ DraftHoldsNothing /\ LineBooks <=> Serial
  BY DEF Serial
<1> QED BY <1>1, <1>2, <1>3, <1>4, Invariance, DraftsHoldNothing, PTL DEF SerialSpec

-----------------------------------------------------------------------------
(* From lines to orders.                                                    *)

LEMMA OrderLinesFinite ==
    ASSUME NEW o, NEW i
    PROVE  OrderLines(o, i) \subseteq Lines /\ IsFiniteSet(OrderLines(o, i))
<1>1. OrderLines(o, i) \subseteq Lines
  BY DEF OrderLines, LinesOf
<1> QED BY <1>1, FS_Subset, TablesAssumption

LEMMA OrderedNat ==
    ASSUME OrderTypeOK, NEW o \in Orders, NEW i \in Items
    PROVE  Ordered(o, i) \in Nat
<1> DEFINE f == [l \in Lines |-> line[l].qty]
<1>1. \A l \in Lines : f[l] \in Nat
  BY LineFacts
<1> HIDE DEF f
<1>2. SumFunctionOnSet(f, OrderLines(o, i)) \in Nat
  BY <1>1, OrderLinesFinite, SumOfSome, TablesAssumption
<1> QED BY <1>2 DEF Ordered, f

LEMMA DeliveredNat ==
    ASSUME OrderTypeOK, NEW o \in Orders, NEW i \in Items
    PROVE  Delivered(o, i) \in Nat
<1> DEFINE f == [l \in Lines |-> line[l].delivered]
<1>1. \A l \in Lines : f[l] \in Nat
  BY LineFacts
<1> HIDE DEF f
<1>2. SumFunctionOnSet(f, OrderLines(o, i)) \in Nat
  BY <1>1, OrderLinesFinite, SumOfSome, TablesAssumption
<1> QED BY <1>2 DEF Delivered, f

LEMMA ShippedIsDelivered ==
    ASSUME Serial, NEW o \in Orders, NEW i \in Items
    PROVE  Delivered(o, i) = ShippedOn(o, i)
<1> DEFINE f == [l \in Lines |-> line[l].delivered]
           T == OrderLines(o, i)
<1>1. PICK g : g = shipped[o][i]
  OBVIOUS
<1>2. \A l \in Lines : g[l] = IF line[l].order = o /\ line[l].item = i THEN f[l] ELSE 0
  BY <1>1 DEF Serial, LineBooks
<1>3. \A l \in Lines : l \in T <=> line[l].order = o /\ line[l].item = i
  BY DEF OrderLines, LinesOf
<1>4. \A l \in Lines : f[l] \in Int
  BY LineFacts DEF Serial, IInv
<1>5. T \subseteq Lines /\ IsFiniteSet(T) /\ IsFiniteSet(Lines)
  BY OrderLinesFinite, TablesAssumption
<1> HIDE DEF f, T
<1>6. \A l \in Lines \ T : g[l] = 0
  BY <1>2, <1>3
<1>7. \A l \in T : g[l] \in Int /\ g[l] = f[l]
  BY <1>2, <1>3, <1>4, <1>5
<1>8. SumFunctionOnSet(g, Lines) = SumFunctionOnSet(g, T)
  BY <1>5, <1>6, <1>7, SumSubset
<1>9. SumFunctionOnSet(g, T) = SumFunctionOnSet(f, T)
  BY <1>5, <1>7, SumEqual
<1>10. SumFunctionOnSet(g, Lines) = ShippedOn(o, i)
  BY <1>1, Zenon DEF ShippedOn
<1> QED BY <1>8, <1>9, <1>10 DEF Delivered, f, T

LEMMA DeliveredOfOrdered ==
    ASSUME Serial, NEW o \in Orders, NEW i \in Items
    PROVE  /\ Delivered(o, i) <= Ordered(o, i)
           /\ Delivered(o, i) = Ordered(o, i)
                <=> \A l \in OrderLines(o, i) : line[l].qty <= line[l].delivered
<1> DEFINE f == [l \in Lines |-> line[l].delivered]
           g == [l \in Lines |-> line[l].qty]
           T == OrderLines(o, i)
<1>1. \A l \in Lines : f[l] \in Int /\ g[l] \in Int /\ f[l] <= g[l]
  BY LineFacts DEF Serial, IInv, LineBooks
<1>2. T \subseteq Lines /\ IsFiniteSet(T)
  BY OrderLinesFinite
<1>3. \A l \in T : f[l] = line[l].delivered /\ g[l] = line[l].qty
  BY <1>2
<1> HIDE DEF f, g, T
<1>4. SumFunctionOnSet(f, T) <= SumFunctionOnSet(g, T)
  BY <1>1, <1>2, SumMonotone
<1>5. ASSUME SumFunctionOnSet(f, T) = SumFunctionOnSet(g, T)
      PROVE  \A l \in T : f[l] = g[l]
  BY <1>1, <1>2, <1>5, SumTight
<1>6. ASSUME \A l \in T : g[l] <= f[l]
      PROVE  SumFunctionOnSet(f, T) = SumFunctionOnSet(g, T)
  <2>1. \A l \in T : f[l] \in Int /\ f[l] = g[l]
    BY <1>1, <1>2, <1>6
  <2> QED BY <1>2, <2>1, SumEqual
<1>7. SumFunctionOnSet(f, T) = SumFunctionOnSet(g, T) <=> \A l \in T : g[l] <= f[l]
  BY <1>1, <1>2, <1>5, <1>6
<1>8. (\A l \in T : g[l] <= f[l]) <=> \A l \in T : line[l].qty <= line[l].delivered
  BY <1>3
<1>9. SumFunctionOnSet(f, T) = Delivered(o, i) /\ SumFunctionOnSet(g, T) = Ordered(o, i)
  BY DEF Delivered, Ordered, f, g, T
<1> QED BY <1>4, <1>7, <1>8, <1>9 DEF T

LEMMA SerialImpliesDelivered == Serial => DeliveredIsShipped
BY ShippedIsDelivered, DeliveredOfOrdered DEF DeliveredIsShipped

LEMMA SerialImpliesClosed == Serial => ClosedWhenDelivered
<1> SUFFICES ASSUME Serial, NEW o \in Orders, status[o] \in {"Confirmed", "Delivered", "Closed"}
             PROVE  status[o] = "Closed"
                      <=> /\ LinesOf(line, o) # {}
                          /\ \A i \in Items : ShippedOn(o, i) = Ordered(o, i)
  BY DEF ClosedWhenDelivered
<1>1. status[o] = "Closed" <=> AllDelivered(line, LinesOf(line, o))
  BY DEF Serial, LineBooks
<1>2. \A i \in Items : ShippedOn(o, i) = Ordered(o, i)
         <=> \A l \in OrderLines(o, i) : line[l].qty <= line[l].delivered
  BY ShippedIsDelivered, DeliveredOfOrdered
<1>3. (\A i \in Items : \A l \in OrderLines(o, i) : line[l].qty <= line[l].delivered)
         <=> \A l \in LinesOf(line, o) : line[l].qty <= line[l].delivered
  <2>1. ASSUME NEW l \in LinesOf(line, o) PROVE line[l].item \in Items /\ l \in OrderLines(o, line[l].item)
    BY LineFacts DEF LinesOf, OrderLines, Serial, IInv
  <2>2. \A i \in Items : OrderLines(o, i) \subseteq LinesOf(line, o)
    BY DEF OrderLines
  <2> QED BY <2>1, <2>2
<1> QED BY <1>1, <1>2, <1>3 DEF AllDelivered

(* What the lines of an order count as delivered is what delivery lines and *)
(* order-linked sales have recorded, and never more than was ordered, in    *)
(* every behaviour of one request at a time.                                *)
THEOREM DeliveriesAddUp ==
    ASSUME NEW r \in Requests, Requests = {r}
    PROVE  SerialSpec => []DeliveredIsShipped
BY SerialInvariance, SerialImpliesDelivered, PTL

(* One request at a time, a confirmed order is Closed exactly when          *)
(* something was ordered and all of it has left.                            *)
THEOREM CompleteOrdersClose ==
    ASSUME NEW r \in Requests, Requests = {r}
    PROVE  SerialSpec => []ClosedWhenDelivered
BY SerialInvariance, SerialImpliesClosed, PTL

-----------------------------------------------------------------------------
(* The life of an order.                                                    *)

LEMMA OrderedKept ==
    ASSUME NEW o, NEW i,
           \A l \in Lines : line[l].order = o \/ line'[l].order = o =>
               line'[l].order = line[l].order /\ line'[l].item = line[l].item
                   /\ line'[l].qty = line[l].qty /\ line[l].qty \in Int
    PROVE  Ordered(o, i)' = Ordered(o, i)
<1> DEFINE f == [l \in Lines |-> line[l].qty]
           g == [l \in Lines |-> line'[l].qty]
           T == OrderLines(o, i)
<1>1. OrderLines(o, i)' = T
  BY DEF OrderLines, LinesOf
<1>2. T \subseteq Lines /\ IsFiniteSet(T)
  BY OrderLinesFinite
<1>3. \A l \in T : f[l] \in Int /\ f[l] = g[l]
  BY DEF OrderLines, LinesOf
<1> HIDE DEF f, g, T
<1>4. SumFunctionOnSet(f, T) = SumFunctionOnSet(g, T)
  BY <1>2, <1>3, SumEqual
<1>5. Ordered(o, i) = SumFunctionOnSet(f, T)
  BY DEF Ordered, f, T
<1>6. Ordered(o, i)' = SumFunctionOnSet(g, T)
  BY <1>1, Zenon DEF Ordered, g
<1> QED BY <1>4, <1>5, <1>6

LEMMA ContentKeepsOrdered ==
    ASSUME OrderTypeOK, ContentKept, NEW o, NEW i
    PROVE  Ordered(o, i)' = Ordered(o, i)
BY LineFacts, OrderedKept DEF ContentKept

LEMMA ShippedKept ==
    ASSUME shipped' = shipped, NEW o, NEW i
    PROVE  ShippedOn(o, i)' = ShippedOn(o, i)
<1>1. shipped'[o][i] = shipped[o][i]
  OBVIOUS
<1> QED BY <1>1, Zenon DEF ShippedOn

(* The variables of OrderLifecycle.                                         *)
Content == [o \in Orders |-> [i \in Items |-> Ordered(o, i)]]
Received == [o \in Orders |-> [i \in Items |-> ShippedOn(o, i)]]

LEMMA TablesKept ==
    ASSUME OrderTypeOK, ContentKept, shipped' = shipped
    PROVE  Content' = Content /\ Received' = Received
<1>1. \A o \in Orders, i \in Items : Ordered(o, i)' = Ordered(o, i)
  BY ContentKeepsOrdered
<1>2. \A o \in Orders, i \in Items : ShippedOn(o, i)' = ShippedOn(o, i)
  BY ShippedKept
<1> QED BY <1>1, <1>2 DEF Content, Received

LEMMA BecomesLives ==
    ASSUME Serial, NEW o \in Orders, Becomes(o, "Confirmed") \/ Becomes(o, "Cancelled")
    PROVE  Lifecycle!Confirm(o) \/ Lifecycle!Cancel(o)
<1>1. Content' = Content /\ Received' = Received
  BY TablesKept DEF Becomes, Serial, IInv
<1>2. CASE Becomes(o, "Confirmed")
  <2>1. status[o] = "Draft" /\ status' = [status EXCEPT ![o] = "Confirmed"]
    BY <1>2 DEF Becomes
  <2> QED BY <1>1, <2>1 DEF Lifecycle!Confirm, Content, Received
<1>3. CASE Becomes(o, "Cancelled")
  <2>1. status[o] \in {"Draft", "Confirmed"} /\ status' = [status EXCEPT ![o] = "Cancelled"]
    BY <1>3 DEF Becomes
  <2> QED BY <1>1, <2>1 DEF Lifecycle!Cancel, Content, Received
<1> QED BY <1>2, <1>3

LEMMA OpensLives ==
    ASSUME Serial, OrderTypeOK', NEW o \in Orders, Opens(o)
    PROVE  Lifecycle!Open(o) \/ Lifecycle!Revise(o)
<1>1. ASSUME NEW p \in Orders \ {o}, NEW i \in Items PROVE Ordered(p, i)' = Ordered(p, i)
  <2>1. ASSUME NEW l \in Lines, line[l].order = p \/ line'[l].order = p
        PROVE  line'[l] = line[l] /\ line[l].qty \in Int
    BY <2>1, NoValueAssumption, LineFacts DEF Opens, NoLine, Serial, IInv
  <2> QED BY <2>1, OrderedKept
<1>2. ASSUME NEW i \in Items PROVE Ordered(o, i)' \in Nat
  <2> DEFINE g == [l \in Lines |-> line'[l].qty]
             T == OrderLines(o, i)'
  <2>1. \A l \in Lines : g[l] \in Nat
    BY DEF OrderTypeOK, LineTable, LineRow, NoLine
  <2>2. T \subseteq Lines /\ IsFiniteSet(Lines)
    BY TablesAssumption DEF OrderLines, LinesOf
  <2> HIDE DEF g, T
  <2>3. SumFunctionOnSet(g, T) \in Nat
    BY <2>1, <2>2, SumOfSome
  <2> QED BY <2>3 DEF Ordered, g, T
<1>3. Received' = Received
  BY ShippedKept DEF Opens, Received
<1>4. Content'[o] \in [Items -> Nat]
  BY <1>2 DEF Content
<1>5. Content' = [Content EXCEPT ![o] = Content'[o]]
  BY <1>1 DEF Content
<1>6. CASE status[o] = "None"
  <2>1. status' = [status EXCEPT ![o] = "Draft"]
    BY DEF Opens
  <2> QED BY <1>3, <1>4, <1>5, <1>6, <2>1 DEF Lifecycle!Open, Lifecycle!Rewritten, Content, Received
<1>7. CASE status[o] = "Draft"
  <2>1. status' = status
    BY <1>7 DEF Opens, Serial, IInv, OrderTypeOK
  <2> QED BY <1>3, <1>4, <1>5, <1>7, <2>1 DEF Lifecycle!Revise, Lifecycle!Rewritten, Content, Received
<1> QED BY <1>6, <1>7 DEF Opens

(* What a delivery or sale adds, in units per item.                         *)
LEMMA GetsMore ==
    ASSUME Serial, NEW o \in Orders, NEW ask \in [Lines -> Nat], Gets(o, ask)
    PROVE  /\ \A p \in Orders \ {o}, i \in Items : ShippedOn(p, i)' = ShippedOn(p, i)
           /\ \A i \in Items : ShippedOn(o, i) <= ShippedOn(o, i)'
           /\ \A i \in Items : ShippedOn(o, i) \in Nat /\ ShippedOn(o, i)' \in Nat
           /\ \E i \in Items : ShippedOn(o, i)' # ShippedOn(o, i)
<1>0. shipped \in [Orders -> [Items -> [Lines -> Nat]]] /\ IsFiniteSet(Lines)
  BY TablesAssumption DEF Serial, IInv, StockInv, StockTypeOK
<1>1. ASSUME NEW p \in Orders, NEW i \in Items
      PROVE  /\ ShippedOn(p, i) <= ShippedOn(p, i)'
             /\ ShippedOn(p, i) \in Nat /\ ShippedOn(p, i)' \in Nat
             /\ p # o => ShippedOn(p, i)' = ShippedOn(p, i)
             /\ (p = o /\ \E l \in Lines : line[l].item = i /\ ask[l] > 0)
                  => ShippedOn(p, i)' # ShippedOn(p, i)
  <2>1. PICK f : f = shipped[p][i]
    OBVIOUS
  <2>2. PICK g : g = shipped'[p][i]
    OBVIOUS
  <2>3. ASSUME NEW l \in Lines
        PROVE  f[l] \in Nat /\ g[l] = f[l] + IF p = o /\ line[l].item = i THEN ask[l] ELSE 0
    BY <1>0, <2>1, <2>2 DEF Gets
  <2>4. \A l \in Lines : f[l] \in Nat /\ g[l] \in Nat /\ f[l] <= g[l]
    BY <2>3
  <2>5. SumFunctionOnSet(f, Lines) = ShippedOn(p, i) /\ SumFunctionOnSet(g, Lines) = ShippedOn(p, i)'
    <3>1. SumFunctionOnSet(f, Lines) = ShippedOn(p, i)
      BY <2>1, Zenon DEF ShippedOn
    <3>2. SumFunctionOnSet(g, Lines) = ShippedOn(p, i)'
      BY <2>2, Zenon DEF ShippedOn
    <3> QED BY <3>1, <3>2
  <2>6. SumFunctionOnSet(f, Lines) <= SumFunctionOnSet(g, Lines)
    BY <1>0, <2>4, SumMonotone
  <2>7. SumFunctionOnSet(f, Lines) \in Nat /\ SumFunctionOnSet(g, Lines) \in Nat
    BY <1>0, <2>4, SumOfSome
  <2>8. ASSUME p # o PROVE SumFunctionOnSet(f, Lines) = SumFunctionOnSet(g, Lines)
    <3>1. \A l \in Lines : f[l] \in Int /\ f[l] = g[l]
      BY <2>3, <2>8
    <3> QED BY <1>0, <3>1, SumEqual
  <2>9. ASSUME p = o, NEW l \in Lines, line[l].item = i, ask[l] > 0
        PROVE  SumFunctionOnSet(f, Lines) # SumFunctionOnSet(g, Lines)
    <3>1. f[l] # g[l]
      BY <2>3, <2>9
    <3>2. SumFunctionOnSet(f, Lines) = SumFunctionOnSet(g, Lines) => \A m \in Lines : f[m] = g[m]
      BY <1>0, <2>4, SumTight
    <3> QED BY <3>1, <3>2
  <2> QED BY <2>5, <2>6, <2>7, <2>8, <2>9
<1>2. PICK l \in Lines : ask[l] > 0
  <2>1. ask # [l \in Lines |-> 0]
    BY DEF Gets, NothingAsked
  <2> QED BY <2>1
<1>3. line[l].order = o /\ line[l].item \in Items
  <2>1. line[l].order = o
    BY <1>2 DEF Gets
  <2>2. line[l] # NoLine
    BY <2>1, LineFacts DEF Serial, IInv
  <2> QED BY <2>1, <2>2, LineFacts DEF Serial, IInv
<1>4. PICK i \in Items : line[l].item = i
  BY <1>3
<1>5. ShippedOn(o, i)' # ShippedOn(o, i)
  BY <1>1, <1>2, <1>4
<1> QED BY <1>1, <1>5

LEMMA GetsLives ==
    ASSUME Serial, DeliveredIsShipped', ClosedWhenDelivered',
           NEW o \in Orders, NEW ask \in [Lines -> Nat], Gets(o, ask)
    PROVE  Lifecycle!Receive(o)
<1>1. Content' = Content
  <2>1. \A p \in Orders, i \in Items : Ordered(p, i)' = Ordered(p, i)
    BY LineFacts, OrderedKept DEF Gets, Serial, IInv
  <2> QED BY <2>1 DEF Content
<1>2. Received' = [Received EXCEPT ![o] = Received'[o]]
  BY GetsMore DEF Received
<1>3. Received'[o] \in [Items -> Nat] \ {Received[o]}
  <2>1. Received'[o] \in [Items -> Nat]
    BY GetsMore DEF Received
  <2>2. PICK i \in Items : ShippedOn(o, i)' # ShippedOn(o, i)
    BY GetsMore
  <2>3. Received'[o][i] # Received[o][i]
    BY <2>2 DEF Received
  <2> QED BY <2>1, <2>3
<1>4. \A i \in Items : Received[o][i] <= Received'[o][i] /\ Received'[o][i] <= Content[o][i]
  <2>1. \A i \in Items : ShippedOn(o, i)' <= Ordered(o, i)'
    BY DEF DeliveredIsShipped
  <2>2. \A i \in Items : Content[o][i] = Ordered(o, i)'
    BY <1>1 DEF Content
  <2> QED BY <2>1, <2>2, GetsMore DEF Received
<1>5. \E s \in {"Closed", "Delivered"} : status' = [status EXCEPT ![o] = s]
  BY DEF Gets
<1>6. status'[o] = "Closed" <=> Received'[o] = Content[o]
  <2>1. status'[o] \in {"Closed", "Delivered"}
    BY <1>5 DEF Serial, IInv, OrderTypeOK
  <2>2. LinesOf(line', o) # {}
    <3>1. PICK l \in Lines : ask[l] # 0
      BY DEF Gets, NothingAsked
    <3>2. line'[l].order = o
      BY <3>1 DEF Gets
    <3> QED BY <3>2 DEF LinesOf
  <2>3. status'[o] = "Closed" <=> \A i \in Items : ShippedOn(o, i)' = Ordered(o, i)'
    BY <2>1, <2>2 DEF ClosedWhenDelivered
  <2>4. Content[o] = [i \in Items |-> Ordered(o, i)']
    BY <1>1 DEF Content
  <2>5. Received'[o] = [i \in Items |-> ShippedOn(o, i)']
    BY DEF Received
  <2> QED BY <2>3, <2>4, <2>5
<1>7. status' = [status EXCEPT ![o] = IF Received'[o] = Content[o] THEN "Closed" ELSE "Delivered"]
  <2>1. status \in [Orders -> OrderStatus]
    BY DEF Serial, IInv, OrderTypeOK
  <2> QED BY <1>5, <1>6, <2>1
<1>8. status[o] \in {"Confirmed", "Delivered"}
  BY DEF Gets
<1> QED BY <1>1, <1>2, <1>3, <1>4, <1>7, <1>8 DEF Lifecycle!Receive, Content, Received

LEMMA StepLives ==
    ASSUME Serial, OrderTypeOK', DeliveredIsShipped', ClosedWhenDelivered', LivesOn
    PROVE  [Lifecycle!Next]_Lifecycle!life
<1>1. CASE Idles
  <2>1. status' = status /\ Content' = Content /\ Received' = Received
    BY <1>1, TablesKept DEF Idles, Serial, IInv
  <2> QED BY <2>1 DEF Lifecycle!life, Content, Received
<1>2. ASSUME NEW o \in Orders, Opens(o) PROVE Lifecycle!Next
  BY <1>2, OpensLives DEF Lifecycle!Next
<1>3. ASSUME NEW o \in Orders, Becomes(o, "Confirmed") \/ Becomes(o, "Cancelled") PROVE Lifecycle!Next
  BY <1>3, BecomesLives DEF Lifecycle!Next
<1>4. ASSUME NEW o \in Orders, NEW ask \in [Lines -> Nat], Gets(o, ask) PROVE Lifecycle!Next
  BY <1>4, GetsLives DEF Lifecycle!Next
<1> QED BY <1>1, <1>2, <1>3, <1>4 DEF LivesOn

LEMMA InitLives == Init => Lifecycle!Init
<1> SUFFICES ASSUME Init PROVE Lifecycle!Init
  OBVIOUS
<1>1. ASSUME NEW o \in Orders, NEW i \in Items PROVE Ordered(o, i) = 0 /\ ShippedOn(o, i) = 0
  <2>1. OrderLines(o, i) = {}
    BY NoValueAssumption DEF Init, OrderLines, LinesOf, EmptyLines, NoLine
  <2>2. Ordered(o, i) = 0
    BY <2>1, SumEmpty DEF Ordered
  <2>3. \A l \in Lines : shipped[o][i][l] = 0
    BY DEF Init, NothingAsked
  <2>4. ShippedOn(o, i) = 0
    BY <2>3, SumZero, TablesAssumption DEF ShippedOn
  <2> QED BY <2>2, <2>4
<1>2. status = [o \in Orders |-> "None"]
  BY DEF Init
<1> QED BY <1>1, <1>2 DEF Lifecycle!Init, Lifecycle!None

(* An order lives as OrderLifecycle promises, one request at a time: its    *)
(* content is fixed at confirmation, goods arrive within what was ordered,  *)
(* the step that completes it closes it, and nothing is called off after a  *)
(* first delivery.                                                          *)
THEOREM OrdersLiveAsPromised ==
    ASSUME NEW r \in Requests, Requests = {r}
    PROVE  SerialSpec => LifecycleSpec
<1>1. Serial /\ ReadIsSo(r) /\ Serial' /\ DeliveredIsShipped' /\ ClosedWhenDelivered'
         /\ [Next /\ OneAtATime]_vars => [Lifecycle!Next]_Lifecycle!life
  BY SerialStep, StepLives DEF Serial, IInv
<1>2. SerialSpec => Lifecycle!Init /\ [][Lifecycle!Next]_Lifecycle!life
  BY <1>1, InitLives, SerialInvariance, DeliveriesAddUp, CompleteOrdersClose, PTL DEF SerialSpec
<1> QED BY <1>2 DEF LifecycleSpec, Lifecycle!Spec

-----------------------------------------------------------------------------
(* What a loop takes in all: as much as it wants, or all there is.          *)

LEMMA LocationsFinite == IsFiniteSet(Locations)
BY LocationsAssumption

Ranks(rank) ==
    /\ \A l \in Locations : rank[l] \in Int
    /\ \A l, m \in Locations : rank[l] = rank[m] => l = m

LEMMA TheRanks == Ranks(ById) /\ Ranks(ShowroomFirst)
BY LocationsAssumption DEF Ranks, ById, ShowroomFirst

LEMMA RankOrders ==
    ASSUME NEW rank, Ranks(rank)
    PROVE  StrictOrder([l \in Locations |-> {m \in Locations : rank[m] < rank[l]}], Locations)
BY DEF Ranks, StrictOrder

LEMMA TakeTotal ==
    ASSUME NEW cap \in Quantities, NEW qty \in Nat, NEW rank, Ranks(rank),
           NEW take \in Greedy(cap, qty, rank)
    PROVE  /\ Total(take) = IF qty <= Total(cap) THEN qty ELSE Total(cap)
           /\ Total(cap) \in Nat /\ Total(take) \in Nat
<1> DEFINE pre == [l \in Locations |-> {m \in Locations : rank[m] < rank[l]}]
<1>1. StrictOrder(pre, Locations)
  BY RankOrders
<1>2. \A l \in Locations : cap[l] \in Nat /\ take[l] \in Nat
  BY GreedyBounds DEF Quantities
<1>3. ASSUME NEW l \in Locations
      PROVE  take[l] = LET remaining == qty - SumFunctionOnSet(cap, pre[l]) IN
                       IF remaining <= 0 THEN 0 ELSE IF remaining > cap[l] THEN cap[l] ELSE remaining
  <2>1. PICK S \in SUBSET Locations : S = {m \in Locations : rank[m] < rank[l]}
    OBVIOUS
  <2>2. SumFunctionOnSet(cap, S) \in Nat
    BY <1>2, SumOfSome, LocationsFinite
  <2>3. take[l] = IF qty - SumFunctionOnSet(cap, S) <= 0 THEN 0
                  ELSE IF cap[l] <= qty - SumFunctionOnSet(cap, S) THEN cap[l]
                  ELSE qty - SumFunctionOnSet(cap, S)
    BY <2>1 DEF Greedy, Wanted
  <2>4. take[l] = IF qty - SumFunctionOnSet(cap, S) <= 0 THEN 0
                  ELSE IF qty - SumFunctionOnSet(cap, S) > cap[l] THEN cap[l]
                  ELSE qty - SumFunctionOnSet(cap, S)
    BY <1>2, <2>2, <2>3
  <2>5. pre[l] = S
    BY <2>1
  <2> QED BY <2>4, <2>5, Zenon
<1> HIDE DEF pre
<1>4. SumFunctionOnSet(take, Locations) =
          IF qty <= SumFunctionOnSet(cap, Locations) THEN qty ELSE SumFunctionOnSet(cap, Locations)
  BY <1>1, <1>2, <1>3, GreedyTotal, LocationsFinite
<1>5. SumFunctionOnSet(take, Locations) \in Nat /\ SumFunctionOnSet(cap, Locations) \in Nat
  BY <1>2, SumOfSome, LocationsFinite
<1> QED BY <1>4, <1>5 DEF Total

LEMMA TotalCounts ==
    ASSUME NEW amount \in Quantities
    PROVE  /\ Total(amount) \in Nat
           /\ Total(amount) = 0 <=> amount = NoQuantities
<1>1. \A l \in Locations : amount[l] \in Nat
  BY DEF Quantities
<1>2. SumFunctionOnSet(amount, Locations) \in Nat
  BY <1>1, SumOfSome, LocationsFinite
<1>3. PICK zero : zero = NoQuantities
  OBVIOUS
<1>4. SumFunctionOnSet(zero, Locations) = 0
  BY <1>3, SumZero, LocationsFinite DEF NoQuantities
<1>5. ASSUME SumFunctionOnSet(amount, Locations) = 0 PROVE amount = NoQuantities
  <2>1. \A l \in Locations : zero[l] \in Int /\ amount[l] \in Int /\ zero[l] <= amount[l]
    BY <1>1, <1>3 DEF NoQuantities
  <2>2. \A l \in Locations : zero[l] = amount[l]
    BY <1>4, <1>5, <2>1, SumTight, LocationsFinite
  <2> QED BY <1>3, <2>2 DEF Quantities, NoQuantities
<1>6. ASSUME amount = NoQuantities PROVE SumFunctionOnSet(amount, Locations) = 0
  BY <1>3, <1>4, <1>6, Zenon
<1> QED BY <1>2, <1>5, <1>6 DEF Total

(* Holding more or less adds up location by location.                       *)
LEMMA TotalPlus ==
    ASSUME NEW a \in Quantities, NEW b \in Quantities, NEW c \in Quantities,
           \A l \in Locations : c[l] = a[l] + b[l]
    PROVE  Total(c) = Total(a) + Total(b)
<1>1. \A l \in Locations : a[l] \in Int /\ b[l] \in Int /\ c[l] = a[l] + b[l]
  BY DEF Quantities
<1>2. SumFunctionOnSet(c, Locations) = SumFunctionOnSet(a, Locations) + SumFunctionOnSet(b, Locations)
  BY <1>1, SumPlus, LocationsFinite
<1> QED BY <1>2 DEF Total

-----------------------------------------------------------------------------
(* The reserved counters follow the reservations of one order.              *)

LEMMA ReservedFollows ==
    ASSUME OrderTypeOK, OrderTypeOK', StockInv, ReservedIsHeld, NEW o \in Orders,
           \A p \in Orders \ {o} : resv'[p] = resv[p],
           \A i \in Items, m \in Locations :
               stock'[i][m].reserved = stock[i][m].reserved + resv'[o][i][m] - resv[o][i][m]
    PROVE  ReservedIsHeld'
<1> SUFFICES ASSUME NEW i \in Items, NEW m \in Locations
             PROVE  stock'[i][m].reserved = SumFunctionOnSet([p \in Orders |-> resv'[p][i][m]], Orders)
  BY DEF ReservedIsHeld
<1> DEFINE f == [p \in Orders |-> resv[p][i][m]]
           g == [p \in Orders |-> resv'[p][i][m]]
<1>1. \A p \in Orders : f[p] \in Int /\ g[p] \in Int
  BY DEF OrderTypeOK, Held, Quantities
<1>2. \A p \in Orders \ {o} : g[p] = f[p]
  OBVIOUS
<1>3. f[o] = resv[o][i][m] /\ g[o] = resv'[o][i][m]
  OBVIOUS
<1>4. stock[i][m].reserved = SumFunctionOnSet(f, Orders)
  BY DEF ReservedIsHeld
<1>5. stock'[i][m].reserved = stock[i][m].reserved + resv'[o][i][m] - resv[o][i][m]
  OBVIOUS
<1> HIDE DEF f, g
<1>6. SumFunctionOnSet(g, Orders) = SumFunctionOnSet(f, Orders) + g[o] - f[o]
  BY <1>1, <1>2, SumChange, TablesAssumption
<1>7. stock'[i][m].reserved = SumFunctionOnSet(g, Orders)
  BY <1>3, <1>4, <1>5, <1>6
<1> QED BY <1>7 DEF g

LEMMA ReservedRests ==
    ASSUME ReservedIsHeld, resv' = resv,
           \A i \in Items, m \in Locations : stock'[i][m].reserved = stock[i][m].reserved
    PROVE  ReservedIsHeld'
BY DEF ReservedIsHeld

-----------------------------------------------------------------------------
(* The books of one order, and the orders that a step leaves alone.         *)

Untouched(o) ==
    /\ status'[o] = status[o] /\ resv'[o] = resv[o]
    /\ \A l \in Lines : line[l].order = o \/ line'[l].order = o => line'[l] = line[l]

LEMMA DeliveredKept ==
    ASSUME NEW o, NEW i,
           \A l \in Lines : line[l].order = o \/ line'[l].order = o =>
               line'[l] = line[l] /\ line[l].delivered \in Int
    PROVE  Delivered(o, i)' = Delivered(o, i)
<1> DEFINE f == [l \in Lines |-> line[l].delivered]
           g == [l \in Lines |-> line'[l].delivered]
           T == OrderLines(o, i)
<1>1. OrderLines(o, i)' = T
  BY DEF OrderLines, LinesOf
<1>2. T \subseteq Lines /\ IsFiniteSet(T)
  BY OrderLinesFinite
<1>3. \A l \in T : f[l] \in Int /\ f[l] = g[l]
  BY DEF OrderLines, LinesOf
<1> HIDE DEF f, g, T
<1>4. SumFunctionOnSet(f, T) = SumFunctionOnSet(g, T)
  BY <1>2, <1>3, SumEqual
<1>5. Delivered(o, i) = SumFunctionOnSet(f, T)
  BY DEF Delivered, f, T
<1>6. Delivered(o, i)' = SumFunctionOnSet(g, T)
  BY <1>1, Zenon DEF Delivered, g
<1> QED BY <1>4, <1>5, <1>6

LEMMA HeldKept ==
    ASSUME NEW o, NEW i, resv'[o][i] = resv[o][i]
    PROVE  HeldBy(o, i)' = HeldBy(o, i)
BY Zenon DEF HeldBy

LEMMA UntouchedBooks ==
    ASSUME OrderTypeOK, NEW o \in Orders, BooksOf(o), Untouched(o)
    PROVE  BooksOf(o)'
<1>1. \A l \in Lines : line[l].order = o \/ line'[l].order = o =>
         line'[l] = line[l] /\ line[l].delivered \in Int /\ line[l].qty \in Int
  BY LineFacts DEF Untouched
<1>2. ASSUME NEW i \in Items
      PROVE  /\ Ordered(o, i)' = Ordered(o, i) /\ Delivered(o, i)' = Delivered(o, i)
             /\ HeldBy(o, i)' = HeldBy(o, i)
             /\ OrderLines(o, i)' = OrderLines(o, i)
             /\ \A l \in OrderLines(o, i) : line'[l] = line[l]
  <2>1. Ordered(o, i)' = Ordered(o, i)
    BY <1>1, OrderedKept
  <2>2. Delivered(o, i)' = Delivered(o, i)
    BY <1>1, DeliveredKept
  <2>3. resv'[o][i] = resv[o][i]
    BY DEF Untouched
  <2> QED BY <1>1, <2>1, <2>2, <2>3, HeldKept DEF OrderLines, LinesOf
<1>3. LinesOf(line', o) = LinesOf(line, o) /\ \A l \in LinesOf(line, o) : line'[l] = line[l]
  BY <1>1 DEF LinesOf
<1> QED BY <1>2, <1>3 DEF BooksOf, Untouched

-----------------------------------------------------------------------------
(* What a step does to the books of the orders.                             *)

OrderCounts ==
    \A o \in Orders, i \in Items :
        /\ Ordered(o, i) \in Nat /\ Delivered(o, i) \in Nat /\ HeldBy(o, i) \in Nat
        /\ HeldBy(o, i) = 0 <=> resv[o][i] = NoQuantities

LEMMA CountsNow == OrderTypeOK => OrderCounts
<1> SUFFICES ASSUME OrderTypeOK, NEW o \in Orders, NEW i \in Items
             PROVE  /\ Ordered(o, i) \in Nat /\ Delivered(o, i) \in Nat /\ HeldBy(o, i) \in Nat
                    /\ HeldBy(o, i) = 0 <=> resv[o][i] = NoQuantities
  BY DEF OrderCounts
<1>1. resv[o][i] \in Quantities
  BY DEF OrderTypeOK, Held
<1> QED BY <1>1, OrderedNat, DeliveredNat, TotalCounts DEF HeldBy

(* The same after a step.                                                   *)
LEMMA CountsThen == (OrderTypeOK => OrderCounts)'
BY CountsNow, PTL

LEMMA DeliveredThen == (Serial => DeliveredIsShipped)'
BY SerialImpliesDelivered, PTL

LEMMA ClosedThen == (Serial => ClosedWhenDelivered)'
BY SerialImpliesClosed, PTL

Books == Serial /\ ReservedIsHeld /\ \A o \in Orders : BooksOf(o)
BooksKeptBy == ReservedIsHeld' /\ \A o \in Orders : BooksOf(o)'

LEMMA RestKeepsOrders ==
    ASSUME Books, UNCHANGED <<status, line, resv>>,
           \A i \in Items, m \in Locations : stock'[i][m].reserved = stock[i][m].reserved
    PROVE  BooksKeptBy
<1>1. ReservedIsHeld'
  BY ReservedRests DEF Books
<1>2. \A o \in Orders : BooksOf(o)'
  BY UntouchedBooks DEF Untouched, Books, Serial, IInv
<1> QED BY <1>1, <1>2 DEF BooksKeptBy

(* A draft holds nothing, so its lines may change as they like.             *)
LEMMA OpensKeepsOrders ==
    ASSUME Books, Serial', NEW o \in Orders, Opens(o), UNCHANGED <<resv, stock>>,
           \A l \in Lines : line'[l] = line[l] \/ ~line'[l].shortage
    PROVE  BooksKeptBy
<1>1. ReservedIsHeld'
  BY ReservedRests DEF Books
<1>2. status'[o] = "Draft" /\ \A p \in Orders \ {o} : status'[p] = status[p]
  BY DEF Opens, Books, Serial, IInv, OrderTypeOK
<1>3. ASSUME NEW p \in Orders \ {o} PROVE BooksOf(p)'
  <2>1. \A l \in Lines : (line'[l].order = p \/ line[l].order = p) => line'[l] = line[l]
    BY NoValueAssumption DEF Opens, NoLine
  <2> QED BY <1>2, <2>1, UntouchedBooks DEF Untouched, Books, Serial, IInv
<1>4. BooksOf(o)'
  <2>1. resv'[o] = NothingHeld
    BY <1>2 DEF Serial, DraftHoldsNothing
  <2>2. OrderCounts' /\ DeliveredIsShipped'
    BY CountsThen, DeliveredThen DEF Serial, IInv
  <2>3. ASSUME NEW i \in Items PROVE HeldBy(o, i)' <= Ordered(o, i)' - Delivered(o, i)'
    <3>1. HeldBy(o, i)' = 0
      BY <2>1, <2>2 DEF OrderCounts, NothingHeld
    <3>2. Delivered(o, i)' <= Ordered(o, i)'
      BY <2>2 DEF DeliveredIsShipped
    <3>3. Delivered(o, i)' \in Nat /\ Ordered(o, i)' \in Nat
      BY <2>2 DEF OrderCounts
    <3> QED BY <3>1, <3>2, <3>3
  <2>4. ASSUME NEW l \in Lines, line'[l].order = o PROVE ~line'[l].shortage
    <3>1. CASE line'[l] = line[l]
      <4>1. status[o] \in {"None", "Draft"} /\ l \in LinesOf(line, o)
        BY <2>4, <3>1 DEF Opens, LinesOf
      <4> QED BY <3>1, <4>1 DEF Books, BooksOf
    <3> QED BY <3>1
  <2> QED BY <1>2, <2>3, <2>4 DEF BooksOf, LinesOf
<1> QED BY <1>1, <1>3, <1>4 DEF BooksKeptBy

(* One order comes to hold other units, the others stay as they are.        *)
LEMMA OneOrderMoves ==
    ASSUME Books, Serial', NEW o \in Orders, BooksOf(o)',
           \A p \in Orders \ {o} : Untouched(p),
           \A i \in Items, m \in Locations :
               stock'[i][m].reserved = stock[i][m].reserved + resv'[o][i][m] - resv[o][i][m]
    PROVE  BooksKeptBy
<1>1. ReservedIsHeld'
  BY ReservedFollows DEF Untouched, Books, Serial, IInv
<1>2. \A p \in Orders \ {o} : BooksOf(p)'
  BY UntouchedBooks DEF Books, Serial, IInv
<1> QED BY <1>1, <1>2 DEF BooksKeptBy

LEMMA CancelKeepsOrders ==
    ASSUME Books, Serial', NEW r \in Requests, ReadIsSo(r), HoldsSo(r), CancelCommit(r)
    PROVE  BooksKeptBy
<1>0. PICK o \in Orders : o = target[r]
  BY CommitWrites DEF Books, Serial
<1>1. /\ pc[r] = "release" /\ line' = line
      /\ stock' = [i \in Items |-> WithReleased(stock[i], held[r][i])]
      /\ resv' = [resv EXCEPT ![o] = [i \in Items |-> [m \in Locations |->
                     IF held[r][i][m] > 0 THEN 0 ELSE resv[o][i][m]]]]
      /\ status' = [status EXCEPT ![o] = "Cancelled"]
  BY <1>0 DEF CancelCommit, Became
<1>2. held[r] = resv[o]
  BY <1>0, <1>1 DEF HoldsSo
<1>3. resv \in [Orders -> Held] /\ status \in [Orders -> OrderStatus]
  BY DEF Books, Serial, IInv, OrderTypeOK
<1>4. ASSUME NEW i \in Items, NEW m \in Locations PROVE resv'[o][i][m] = 0 /\ resv[o][i][m] \in Nat
  <2>1. resv[o][i][m] \in Nat
    BY <1>2, <1>3 DEF Held, Quantities
  <2> QED BY <1>1, <1>2, <1>3, <2>1
<1>5. resv'[o] = NothingHeld
  <2>1. resv'[o] = [i \in Items |-> [m \in Locations |-> IF held[r][i][m] > 0 THEN 0 ELSE resv[o][i][m]]]
    BY <1>1, <1>2, <1>3
  <2> QED BY <1>4, <2>1 DEF NothingHeld, NoQuantities
<1>6. ASSUME NEW i \in Items, NEW m \in Locations
      PROVE  stock'[i][m].reserved = stock[i][m].reserved + resv'[o][i][m] - resv[o][i][m]
  <2>1. PICK row : row = stock[i][m]
    OBVIOUS
  <2>2. row \in Row
    BY <2>1 DEF Books, Serial, IInv, StockInv, StockTypeOK, Rows
  <2>3. stock'[i][m] = [row EXCEPT !.reserved = row.reserved - held[r][i][m]]
    BY <1>1, <2>1 DEF WithReleased
  <2>4. stock'[i][m].reserved = row.reserved - held[r][i][m] /\ row.reserved \in Int
    BY <2>2, <2>3 DEF Row
  <2> QED BY <1>2, <1>4, <2>1, <2>4
<1>7. \A p \in Orders \ {o} : Untouched(p)
  BY <1>1, <1>2, <1>3 DEF Untouched
<1>8. BooksOf(o)'
  <2>1. OrderCounts' /\ DeliveredIsShipped'
    BY CountsThen, DeliveredThen DEF Serial, IInv
  <2>2. ASSUME NEW i \in Items PROVE HeldBy(o, i)' <= Ordered(o, i)' - Delivered(o, i)'
    <3>1. HeldBy(o, i)' = 0
      BY <1>5, <2>1 DEF OrderCounts, NothingHeld
    <3>2. Delivered(o, i)' <= Ordered(o, i)'
      BY <2>1 DEF DeliveredIsShipped
    <3>3. Delivered(o, i)' \in Nat /\ Ordered(o, i)' \in Nat
      BY <2>1 DEF OrderCounts
    <3> QED BY <3>1, <3>2, <3>3
  <2>3. status'[o] = "Cancelled"
    BY <1>1, <1>3
  <2> QED BY <1>5, <2>2, <2>3 DEF BooksOf
<1> QED BY <1>6, <1>7, <1>8, OneOrderMoves

(* The lines that a request has read are those of its order.               *)
LEMMA SeenOfOrder ==
    ASSUME NEW r \in Requests, LinesAreSo(r), NEW l \in Lines, NEW i \in Items
    PROVE  /\ l \in OrderLines(target[r], i) <=> seen[r][l].item = i
           /\ l \in OrderLines(target[r], i) => seen[r][l] # NoLine
<1>1. seen[r][l] # NoLine <=> line[l].order = target[r]
  BY DEF LinesAreSo
<1>2. seen[r][l] # NoLine => seen[r][l].item = line[l].item
  BY DEF LinesAreSo
<1>3. seen[r][l] = NoLine => seen[r][l].item # i
  BY NoValueAssumption DEF NoLine
<1>4. l \in OrderLines(target[r], i) <=> line[l].order = target[r] /\ line[l].item = i
  BY DEF OrderLines, LinesOf
<1> QED BY <1>1, <1>2, <1>3, <1>4

(* What a request asks for on the lines it has read is what was ordered.    *)
LEMMA AskedIsOrdered ==
    ASSUME Serial, NEW r \in Requests, LinesAreSo(r), NEW o \in Orders, o = target[r], NEW i \in Items
    PROVE  TakenOf(seen[r], {}, [l \in Lines |-> seen[r][l].qty], i) = Ordered(o, i)
<1> DEFINE f == [l \in Lines |-> IF seen[r][l].item = i /\ l \notin {}
                                 THEN [m \in Lines |-> seen[r][m].qty][l] ELSE 0]
           g == [l \in Lines |-> line[l].qty]
           T == OrderLines(o, i)
<1>1. ASSUME NEW l \in Lines
      PROVE  /\ l \in T <=> seen[r][l].item = i
             /\ l \in T => seen[r][l] # NoLine /\ seen[r][l].qty = line[l].qty
             /\ line[l].qty \in Int
  <2>1. seen[r][l] # NoLine => seen[r][l].qty = line[l].qty
    BY DEF LinesAreSo
  <2> QED BY <2>1, SeenOfOrder, LineFacts DEF Serial, IInv
<1>2. T \subseteq Lines /\ IsFiniteSet(T) /\ IsFiniteSet(Lines)
  BY OrderLinesFinite, TablesAssumption
<1>3. /\ \A l \in T : f[l] \in Int /\ f[l] = g[l]
      /\ \A l \in Lines \ T : f[l] = 0
  BY <1>1, <1>2
<1>4. TakenOf(seen[r], {}, [l \in Lines |-> seen[r][l].qty], i) = SumFunctionOnSet(f, Lines)
  BY DEF TakenOf
<1>5. Ordered(o, i) = SumFunctionOnSet(g, T)
  BY DEF Ordered
<1> HIDE DEF f, g, T
<1>6. SumFunctionOnSet(f, Lines) = SumFunctionOnSet(f, T)
  BY <1>2, <1>3, SumSubset
<1>7. SumFunctionOnSet(f, T) = SumFunctionOnSet(g, T)
  BY <1>2, <1>3, SumEqual
<1> QED BY <1>4, <1>5, <1>6, <1>7

LEMMA ConfirmKeepsOrders ==
    ASSUME Books, Serial', NEW r \in Requests, ReadIsSo(r), HoldsSo(r), ConfirmCommit(r)
    PROVE  BooksKeptBy
<1>0. PICK o \in Orders : o = target[r]
  BY CommitWrites DEF Books, Serial
<1>1. /\ pc[r] \in {"reserve", "convert", "keep"} /\ todo[r] = {}
      /\ line' = Saved(line, seen[r]) /\ stock' = WorkOf(r)
      /\ resv' = [resv EXCEPT ![o] =
                    [i \in Items |-> [m \in Locations |-> resv[o][i][m] + held[r][i][m]]]]
      /\ status' = [status EXCEPT ![o] = "Confirmed"]
  BY <1>0 DEF ConfirmCommit, Reserved, Became, HoldsSo
<1>2. status[o] = "Draft" /\ LinesAreSo(r)
  BY <1>0, <1>1 DEF ReadIsSo
<1>3. resv \in [Orders -> Held] /\ status \in [Orders -> OrderStatus] /\ held[r] \in Held
  BY DEF Books, Serial, IInv, OrderTypeOK, RequestInv, RequestTypeOK
<1>4. resv[o] = NothingHeld /\ \A i \in Items : shipped[o][i] = NothingAsked
  BY <1>2 DEF Books, Serial, DraftHoldsNothing
<1>5. ASSUME NEW i \in Items PROVE resv'[o][i] = held[r][i]
  <2>1. held[r][i] \in [Locations -> Nat]
    BY <1>3 DEF Held, Quantities
  <2>2. \A m \in Locations : resv[o][i][m] = 0
    BY <1>4 DEF NothingHeld, NoQuantities
  <2>3. resv'[o][i] = [m \in Locations |-> resv[o][i][m] + held[r][i][m]]
    BY <1>1, <1>3
  <2> QED BY <2>1, <2>2, <2>3
<1>6. ASSUME NEW i \in Items, NEW m \in Locations
      PROVE  stock'[i][m].reserved = stock[i][m].reserved + resv'[o][i][m] - resv[o][i][m]
  <2>1. resv'[o][i][m] = held[r][i][m] /\ resv[o][i][m] = 0 /\ held[r][i][m] \in Nat
    BY <1>3, <1>4, <1>5 DEF NothingHeld, NoQuantities, Held, Quantities
  <2>2. stock[i][m].reserved \in Int
    BY DEF Books, Serial, IInv, StockInv, StockTypeOK, Rows, Row
  <2>3. CASE i \in locks[r]
    <3>1. stock'[i] = work[r][i]
      BY <1>1, <2>3 DEF WorkOf
    <3>2. work[r][i][m].reserved = stock[i][m].reserved + held[r][i][m]
      BY <1>1, <2>3 DEF HoldsSo
    <3> QED BY <2>1, <2>2, <3>1, <3>2
  <2>4. CASE i \notin locks[r]
    <3>1. stock'[i] = stock[i]
      BY <1>1, <2>4 DEF WorkOf
    <3>2. held[r][i][m] = 0
      BY <1>1, <2>4 DEF HoldsSo, NoQuantities
    <3> QED BY <2>1, <2>2, <3>1, <3>2
  <2> QED BY <2>3, <2>4
<1>7. ASSUME NEW p \in Orders \ {o} PROVE Untouched(p)
  <2>1. ContentKept
    BY ConfirmBecomes DEF Books, Becomes
  <2>2. ASSUME NEW l \in Lines, line[l].order = p PROVE line'[l] = line[l]
    <3>1. seen[r][l] = NoLine
      BY <1>0, <1>2, <2>2 DEF LinesAreSo
    <3> QED BY <1>1, <3>1 DEF Saved
  <2>3. \A l \in Lines : line[l].order = p \/ line'[l].order = p => line'[l] = line[l]
    BY <2>1, <2>2 DEF ContentKept
  <2> QED BY <1>1, <1>3, <2>3 DEF Untouched
<1>8. ASSUME NEW i \in Items
      PROVE  /\ HeldBy(o, i)' <= Ordered(o, i)' - Delivered(o, i)'
             /\ HeldBy(o, i)' < Ordered(o, i)' <=> \E l \in OrderLines(o, i)' : line'[l].shortage
  <2>1. Ordered(o, i)' = Ordered(o, i) /\ OrderLines(o, i)' = OrderLines(o, i)
    BY ConfirmBecomes, ContentKeepsOrdered DEF Books, Serial, IInv, Becomes, ContentKept, OrderLines, LinesOf
  <2>2. Delivered(o, i)' = 0
    <3>1. \A l \in Lines : shipped'[o][i][l] = 0
      BY <1>4 DEF ConfirmCommit, NothingAsked
    <3>2. ShippedOn(o, i)' = 0
      <4>1. PICK f : f = shipped'[o][i]
        OBVIOUS
      <4>2. SumFunctionOnSet(f, Lines) = 0
        BY <3>1, <4>1, SumZero, TablesAssumption
      <4> QED BY <4>1, <4>2, Zenon DEF ShippedOn
    <3>3. DeliveredIsShipped'
      BY DeliveredThen
    <3> QED BY <3>2, <3>3 DEF DeliveredIsShipped
  <2>3. HeldBy(o, i)' = Total(held[r][i])
    BY <1>5, Zenon DEF HeldBy
  <2>4. PICK wanted : wanted = TakenOf(seen[r], todo[r], [l \in Lines |-> seen[r][l].qty], i)
    OBVIOUS
  <2>5. wanted = Ordered(o, i)
    <3>1. TakenOf(seen[r], {}, [l \in Lines |-> seen[r][l].qty], i) = Ordered(o, i)
      BY <1>0, <1>2, AskedIsOrdered DEF Books
    <3> QED BY <1>1, <2>4, <3>1, Zenon
  <2>6. /\ Total(held[r][i]) <= wanted
        /\ Total(held[r][i]) < wanted <=> \E l \in Lines : seen[r][l].item = i /\ seen[r][l].shortage
    BY <1>1, <2>4 DEF HoldsSo, FlagsAreSo
  <2>7. (\E l \in Lines : seen[r][l].item = i /\ seen[r][l].shortage)
           <=> \E l \in OrderLines(o, i) : line'[l].shortage
    <3>0. /\ \A l \in Lines : l \in OrderLines(o, i) <=> seen[r][l].item = i
          /\ \A l \in OrderLines(o, i) : seen[r][l] # NoLine
      <4>1. OrderLines(o, i) \subseteq Lines
        BY OrderLinesFinite
      <4> QED BY <1>0, <1>2, <4>1, SeenOfOrder
    <3>1. \A l \in Lines : l \in OrderLines(o, i) <=> seen[r][l].item = i
      BY <3>0
    <3>2. ASSUME NEW l \in OrderLines(o, i) PROVE l \in Lines /\ line'[l] = seen[r][l]
      <4>1. seen[r][l] # NoLine /\ l \in Lines
        BY <3>0, OrderLinesFinite
      <4> QED BY <1>1, <4>1 DEF Saved
    <3> QED BY <3>1, <3>2
  <2>8. Ordered(o, i) \in Nat /\ Total(held[r][i]) \in Int
    <3>1. held[r][i] \in Quantities
      BY <1>3 DEF Held
    <3> QED BY <3>1, CountsNow, TotalCounts DEF OrderCounts, Books, Serial, IInv
  <2> QED BY <2>1, <2>2, <2>3, <2>5, <2>6, <2>7, <2>8
<1>9. BooksOf(o)'
  <2>1. status'[o] = "Confirmed"
    BY <1>1, <1>3
  <2> QED BY <1>8, <2>1 DEF BooksOf
<1> QED BY <1>6, <1>7, <1>9, OneOrderMoves

(* What a sale ships, in units per item.                                    *)
LEMMA SaleShips ==
    ASSUME Serial, NEW o \in Orders, NEW l \in Lines, NEW n \in 1..MaxQty, SellOnOrder(o, l, n),
           NEW i \in Items
    PROVE  ShippedOn(o, i)' = ShippedOn(o, i) + IF i = line[l].item THEN n ELSE 0
<1>1. PICK f : f = shipped[o][i]
  OBVIOUS
<1>2. PICK g : g = shipped'[o][i]
  OBVIOUS
<1>3. shipped \in [Orders -> [Items -> [Lines -> Nat]]] /\ n \in Nat
  BY MaxQtyAssumption DEF Serial, IInv, StockInv, StockTypeOK
<1>4. shipped' = [shipped EXCEPT ![o][line[l].item][l] = @ + n]
  BY DEF SellOnOrder
<1>5. SumFunctionOnSet(f, Lines) = ShippedOn(o, i)
  BY <1>1, Zenon DEF ShippedOn
<1>6. SumFunctionOnSet(g, Lines) = ShippedOn(o, i)'
  BY <1>2, Zenon DEF ShippedOn
<1>7. \A m \in Lines : f[m] \in Int
  BY <1>1, <1>3
<1>8. CASE i = line[l].item
  <2>1. g[l] = f[l] + n /\ \A m \in Lines \ {l} : g[m] = f[m]
    BY <1>1, <1>2, <1>3, <1>4, <1>8
  <2>2. g[l] \in Int /\ f[l] \in Int
    BY <1>3, <1>7, <2>1
  <2>3. SumFunctionOnSet(g, Lines) = SumFunctionOnSet(f, Lines) + g[l] - f[l]
    BY <1>7, <2>1, <2>2, SumChange, TablesAssumption
  <2>4. SumFunctionOnSet(f, Lines) \in Int
    BY <1>7, SumInt, TablesAssumption
  <2> QED BY <1>3, <1>5, <1>6, <1>8, <2>1, <2>2, <2>3, <2>4
<1>9. CASE i # line[l].item
  <2>1. f = g
    BY <1>1, <1>2, <1>3, <1>4, <1>9
  <2>2. SumFunctionOnSet(f, Lines) = SumFunctionOnSet(g, Lines)
    BY <2>1, Zenon
  <2>3. SumFunctionOnSet(f, Lines) \in Int
    BY <1>7, SumInt, TablesAssumption
  <2> QED BY <1>5, <1>6, <1>9, <2>2, <2>3
<1> QED BY <1>8, <1>9

LEMMA SaleKeepsOrders ==
    ASSUME Books, Serial', NEW o \in Orders, NEW l \in Lines, NEW n \in 1..MaxQty, SellOnOrder(o, l, n)
    PROVE  BooksKeptBy
<1> DEFINE i == line[l].item
<1>0. line[l].order = o /\ n \in Nat
  BY MaxQtyAssumption DEF SellOnOrder
<1>1. i \in Items
  BY <1>0, LineFacts DEF Books, Serial, IInv
<1>2. PICK taken \in FromReserved(stock[i], resv[o][i], n) :
         \E free \in FromFree(stock[i], taken, n) :
            /\ stock' = [stock EXCEPT ![i] = Consumed(stock[i], taken, free)]
            /\ resv' = [resv EXCEPT ![o][i] = [m \in Locations |-> resv[o][i][m] - taken[m]]]
  BY DEF SellOnOrder
<1>3. PICK free \in FromFree(stock[i], taken, n) :
            /\ stock' = [stock EXCEPT ![i] = Consumed(stock[i], taken, free)]
            /\ resv' = [resv EXCEPT ![o][i] = [m \in Locations |-> resv[o][i][m] - taken[m]]]
  BY <1>2
<1> HIDE DEF i
<1>4. /\ resv \in [Orders -> Held] /\ status \in [Orders -> OrderStatus] /\ line \in LineTable
      /\ stock \in [Items -> CountedRows] /\ resv[o][i] \in Quantities
      /\ \A m \in Locations : resv[o][i][m] \in Nat
  BY <1>1 DEF Books, Serial, IInv, OrderTypeOK, StockInv, Held, Quantities
<1>5. taken \in Quantities /\ \A m \in Locations : taken[m] <= resv[o][i][m]
  BY <1>1, <1>0, <1>4, DeliverCounts
<1>6. /\ resv'[o][i] = [m \in Locations |-> resv[o][i][m] - taken[m]]
      /\ \A j \in Items \ {i} : resv'[o][j] = resv[o][j]
      /\ \A p \in Orders \ {o} : resv'[p] = resv[p]
  BY <1>1, <1>3, <1>4 DEF Held
<1>7. ASSUME NEW j \in Items, NEW m \in Locations
      PROVE  stock'[j][m].reserved = stock[j][m].reserved + resv'[o][j][m] - resv[o][j][m]
  <2>1. stock[j][m].reserved \in Nat /\ resv[o][j][m] \in Nat
    BY <1>4 DEF CountedRows, Held, Quantities
  <2>2. CASE j = i
    <3>1. stock'[i][m].reserved = stock[i][m].reserved - taken[m]
      BY <1>1, <1>3, <1>4 DEF Consumed
    <3>2. taken[m] \in Nat
      BY <1>5 DEF Quantities
    <3> QED BY <1>6, <2>1, <2>2, <3>1, <3>2
  <2>3. CASE j # i
    <3>1. stock'[j] = stock[j]
      BY <1>3, <1>4, <2>3
    <3> QED BY <1>6, <2>1, <2>3, <3>1
  <2> QED BY <2>2, <2>3
<1>8. /\ line' = [line EXCEPT ![l].delivered = @ + n]
      /\ \E s \in {"Closed", "Delivered"} : status' = [status EXCEPT ![o] = s]
  BY DEF SellOnOrder, Became
<1>9. ASSUME NEW p \in Orders \ {o} PROVE Untouched(p)
  <2>1. \A m \in Lines \ {l} : line'[m] = line[m]
    BY <1>4, <1>8 DEF LineTable
  <2>2. line'[l].order = o
    <3>1. \E ask \in [Lines -> Nat] : Gets(o, ask)
      BY SaleGets DEF Books
    <3> QED BY <1>0, <3>1 DEF Gets
  <2>3. \A m \in Lines : line[m].order = p \/ line'[m].order = p => line'[m] = line[m]
    BY <1>0, <2>1, <2>2
  <2>4. status'[p] = status[p]
    BY <1>4, <1>8
  <2> QED BY <1>6, <2>3, <2>4 DEF Untouched
<1>10. ASSUME NEW j \in Items PROVE HeldBy(o, j)' <= Ordered(o, j)' - Delivered(o, j)'
  <2>1. /\ OrderCounts /\ OrderCounts' /\ DeliveredIsShipped /\ DeliveredIsShipped'
    BY CountsNow, CountsThen, SerialImpliesDelivered, DeliveredThen DEF Books, Serial, IInv
  <2>2. Ordered(o, j)' = Ordered(o, j)
    <3>1. \E ask \in [Lines -> Nat] : Gets(o, ask)
      BY SaleGets DEF Books
    <3>2. \A m \in Lines : line'[m].order = line[m].order /\ line'[m].item = line[m].item
             /\ line'[m].qty = line[m].qty /\ line[m].qty \in Int
      BY <3>1, LineFacts DEF Gets, Books, Serial, IInv
    <3> QED BY <3>2, OrderedKept
  <2>3. Delivered(o, j)' = Delivered(o, j) + IF j = i THEN n ELSE 0
    BY <1>1, <2>1, SaleShips DEF DeliveredIsShipped, Books, i
  <2>4. HeldBy(o, j) <= Ordered(o, j) - Delivered(o, j)
    BY DEF Books, BooksOf
  <2>5. Delivered(o, j)' <= Ordered(o, j)'
    BY <2>1 DEF DeliveredIsShipped
  <2>6. /\ Ordered(o, j) \in Nat /\ Delivered(o, j) \in Nat /\ HeldBy(o, j) \in Nat
        /\ HeldBy(o, j)' \in Nat
    BY <2>1 DEF OrderCounts
  <2>7. CASE j = i
    <3>1. Total(taken) = IF n <= HeldBy(o, j) THEN n ELSE HeldBy(o, j)
      <4>1. taken \in Greedy(resv[o][i], n, ById)
        BY DEF FromReserved
      <4> QED BY <1>0, <1>4, <2>7, <4>1, TheRanks, TakeTotal DEF HeldBy
    <3>2. HeldBy(o, j) = HeldBy(o, j)' + Total(taken)
      <4>1. PICK after : after = resv'[o][j]
        OBVIOUS
      <4>2. after = [m \in Locations |-> resv[o][i][m] - taken[m]]
        BY <1>6, <2>7, <4>1
      <4>3. \A m \in Locations : taken[m] \in Nat
        BY <1>5 DEF Quantities
      <4>4. after \in Quantities /\ \A m \in Locations : resv[o][i][m] = after[m] + taken[m]
        BY <1>4, <1>5, <4>2, <4>3 DEF Quantities
      <4>5. Total(resv[o][i]) = Total(after) + Total(taken)
        BY <1>4, <1>5, <4>4, TotalPlus
      <4>6. HeldBy(o, j)' = Total(after)
        BY <4>1, Zenon DEF HeldBy
      <4> QED BY <2>7, <4>5, <4>6 DEF HeldBy
    <3> QED BY <1>0, <2>2, <2>3, <2>4, <2>5, <2>6, <2>7, <3>1, <3>2
  <2>8. CASE j # i
    <3>1. HeldBy(o, j)' = HeldBy(o, j)
      BY <1>6, <2>8, HeldKept
    <3> QED BY <2>2, <2>3, <2>4, <2>6, <2>8, <3>1
  <2> QED BY <2>7, <2>8
<1>11. BooksOf(o)'
  <2>1. status'[o] \in {"Closed", "Delivered"}
    BY <1>4, <1>8
  <2> QED BY <1>10, <2>1 DEF BooksOf
<1> QED BY <1>7, <1>9, <1>11, OneOrderMoves

-----------------------------------------------------------------------------
(* What a request holds stays what HoldsSo says.                            *)

LEMMA FinishHolds ==
    ASSUME IInv, NEW r \in Requests, Finish(r)
    PROVE  HoldsSo(r)'
<1>1. pc'[r] = "idle" /\ held'[r] = NothingHeld
  BY DEF Finish, IInv, RequestInv, RequestTypeOK
<1> QED BY <1>1 DEF HoldsSo

LEMMA BeginningHolds ==
    ASSUME Books, NEW r \in Requests, HoldsSo(r),
           \/ \E q \in Quotations : IntakeRead(r, q)
           \/ \E o \in Orders : AddLineRead(r, o) \/ ConfirmRead(r, o) \/ CancelRead(r, o)
           \/ \E l \in Lines, edit \in {"updateLine", "removeLine"} : EditRead(r, l, edit)
           \/ \E q \in Quotations, s \in QuotationStatus : StatusRead(r, q, s)
    PROVE  HoldsSo(r)'
<1>0. pc \in [Requests -> Step] /\ seen \in [Requests -> LineTable]
  BY DEF Books, Serial, IInv, RequestInv, RequestTypeOK
<1>1. pc[r] = "idle" /\ held' = held
  BY DEF IntakeRead, AddLineRead, ConfirmRead, CancelRead, EditRead, StatusRead
<1>2. held'[r] = NothingHeld
  BY <1>1 DEF HoldsSo
<1>3. pc'[r] \notin {"reserve", "convert", "keep", "release"}
  BY <1>0 DEF IntakeRead, AddLineRead, ConfirmRead, CancelRead, EditRead, StatusRead, QuotationStatus
<1>4. ASSUME pc'[r] = "confirm", NEW l \in Lines PROVE ~seen'[r][l].shortage
  <2>1. PICK o \in Orders : ConfirmRead(r, o)
    BY <1>0, <1>4 DEF IntakeRead, AddLineRead, CancelRead, EditRead, StatusRead, QuotationStatus
  <2>2. status[o] = "Draft" /\ seen'[r][l] = IF line[l].order = o THEN line[l] ELSE NoLine
    BY <1>0, <2>1 DEF ConfirmRead, LinesRead
  <2>3. line[l].order = o => ~line[l].shortage
    BY <2>2 DEF Books, BooksOf, LinesOf
  <2> QED BY <2>2, <2>3 DEF NoLine
<1> QED BY <1>2, <1>3, <1>4 DEF HoldsSo

LEMMA FlagsStay ==
    ASSUME NEW r, UNCHANGED <<seen, todo, held>>
    PROVE  FlagsAreSo(r)' <=> FlagsAreSo(r)
BY DEF FlagsAreSo, TakenOf

LEMMA LockingHolds ==
    ASSUME Books, NEW r \in Requests, HoldsSo(r), ConfirmLock(r)
    PROVE  HoldsSo(r)'
<1>0. /\ pc \in [Requests -> Step] /\ seen \in [Requests -> LineTable]
      /\ todo \in [Requests -> SUBSET Lines] /\ locks \in [Requests -> SUBSET Items]
      /\ work \in [Requests -> [Items -> Rows]] /\ stock \in [Items -> Rows]
  BY DEF Books, Serial, IInv, RequestInv, RequestTypeOK, StockInv, StockTypeOK
<1>1. /\ pc[r] = "confirm" /\ pc'[r] = "reserve" /\ UNCHANGED <<stock, seen, held>>
      /\ todo'[r] = Present(seen[r])
      /\ locks'[r] = ItemsOf(seen[r], Present(seen[r]))
      /\ work' = [work EXCEPT ![r] = [i \in Items |-> IF i \in locks'[r] THEN stock[i] ELSE EmptyStock[i]]]
  BY <1>0 DEF ConfirmLock, TakeLocks, stockTables
<1>2. held[r] = NothingHeld /\ \A l \in Lines : ~seen[r][l].shortage
  BY <1>1 DEF HoldsSo
<1>3. \A l \in Lines : seen'[r][l] # NoLine => seen'[r][l].item \in locks'[r]
  BY <1>1 DEF ItemsOf, Present
<1>4. \A i \in Items \ locks'[r] : held'[r][i] = NoQuantities
  BY <1>1, <1>2 DEF NothingHeld
<1>5. ASSUME NEW i \in locks'[r], NEW m \in Locations
      PROVE  work'[r][i][m].reserved = stock'[i][m].reserved + held'[r][i][m]
  <2>1. i \in Items
    BY <1>0, <1>5 DEF ConfirmLock, TakeLocks, ItemsOf, Present, LineTable, LineRow,
       IInv, RequestInv, RequestTypeOK, Books, Serial
  <2>2. work'[r][i] = stock[i]
    BY <1>0, <1>1, <2>1
  <2>3. held'[r][i][m] = 0 /\ stock[i][m].reserved \in Int
    BY <1>0, <1>1, <1>2, <2>1 DEF NothingHeld, NoQuantities, Rows, Row
  <2> QED BY <1>1, <2>2, <2>3
<1>6. FlagsAreSo(r)'
  <2> SUFFICES ASSUME NEW i \in Items
               PROVE  LET wanted == TakenOf(seen'[r], todo'[r], [l \in Lines |-> seen'[r][l].qty], i)
                      IN  /\ Total(held'[r][i]) <= wanted
                          /\ Total(held'[r][i]) < wanted
                                <=> \E l \in Lines : seen'[r][l].item = i /\ seen'[r][l].shortage
    BY DEF FlagsAreSo
  <2>1. TakenOf(seen'[r], todo'[r], [l \in Lines |-> seen'[r][l].qty], i) = 0
    <3>1. ASSUME NEW l \in Lines, l \notin todo'[r] PROVE seen'[r][l].qty = 0
      BY <1>1, <3>1 DEF Present, NoLine
    <3> QED BY <3>1, TakenNothing
  <2>2. Total(held'[r][i]) = 0
    <3>1. held'[r][i] = NoQuantities
      BY <1>1, <1>2 DEF NothingHeld
    <3>2. NoQuantities \in Quantities
      BY DEF NoQuantities, Quantities
    <3> QED BY <3>1, <3>2, TotalCounts
  <2>3. \A l \in Lines : ~seen'[r][l].shortage
    BY <1>1, <1>2
  <2> QED BY <2>1, <2>2, <2>3
<1>7. \A l \in Lines : ~seen'[r][l].shortage
  BY <1>1, <1>2
<1> QED BY <1>1, <1>3, <1>4, <1>5, <1>6, <1>7 DEF HoldsSo

LEMMA FindingHolds ==
    ASSUME Books, NEW r \in Requests, HoldsSo(r), ConfirmFindQuotation(r) \/ CancelFind(r)
    PROVE  HoldsSo(r)'
<1>0. pc \in [Requests -> Step] /\ held \in [Requests -> Held]
  BY DEF Books, Serial, IInv, RequestInv, RequestTypeOK
<1>1. CASE ConfirmFindQuotation(r)
  <2>1. /\ pc[r] = "reserve" /\ todo[r] = {} /\ pc'[r] \in {"convert", "keep"}
        /\ UNCHANGED <<stock, seen, todo, locks, work, held>>
    BY <1>0, <1>1 DEF ConfirmFindQuotation, stockTables
  <2>2. FlagsAreSo(r)'
    BY <2>1, FlagsStay DEF HoldsSo
  <2> QED BY <2>1, <2>2 DEF HoldsSo
<1>2. CASE CancelFind(r)
  <2>1. pc'[r] = "release" /\ held'[r] = resv'[target'[r]]
    BY <1>0, <1>2 DEF CancelFind, orderTables
  <2> QED BY <2>1 DEF HoldsSo
<1> QED BY <1>1, <1>2

LEMMA ReservingHolds ==
    ASSUME Books, NEW r \in Requests, HoldsSo(r), NEW l \in Lines, ReserveLine(r, l)
    PROVE  HoldsSo(r)'
<1>0. /\ seen \in [Requests -> LineTable] /\ work \in [Requests -> [Items -> CountedRows]]
      /\ todo \in [Requests -> SUBSET Lines] /\ held \in [Requests -> Held]
      /\ locks \in [Requests -> SUBSET Items] /\ stock \in [Items -> CountedRows]
  BY DEF Books, Serial, IInv, RequestInv, RequestTypeOK, StockInv
<1>1. /\ pc[r] = "reserve" /\ l \in todo[r] /\ todo'[r] = todo[r] \ {l}
      /\ UNCHANGED <<stock, pc, locks>>
  BY <1>0 DEF ReserveLine, stockTables
<1>2. /\ \A k \in Lines : seen[r][k] # NoLine => seen[r][k].item \in locks[r]
      /\ \A i \in Items \ locks[r] : held[r][i] = NoQuantities
      /\ \A i \in locks[r], m \in Locations :
            work[r][i][m].reserved = stock[i][m].reserved + held[r][i][m]
      /\ FlagsAreSo(r) /\ \A k \in todo[r] : ~seen[r][k].shortage
  BY <1>0, <1>1 DEF HoldsSo
<1>3. seen[r] \in LineTable /\ seen[r][l] # NoLine
  BY <1>0, <1>1 DEF Books, Serial, IInv, RequestInv, RequestsWellFormed, Present
<1>4. seen[r][l] \in LineRow
  BY <1>3 DEF LineTable
<1>5. PICK row \in LineRow : row = seen[r][l]
  BY <1>4
<1> DEFINE i == seen[r][l].item
           qty == seen[r][l].qty
<1>6. PICK take \in Reservations(work[r][i], qty) :
         /\ work' = [work EXCEPT ![r][i] = WithReserved(work[r][i], take)]
         /\ held' = [held EXCEPT ![r][i] = [m \in Locations |-> held[r][i][m] + take[m]]]
         /\ seen' = [seen EXCEPT ![r][l].shortage = @ \/ Total(take) < qty]
  BY DEF ReserveLine
<1>7. seen'[r][l] = [row EXCEPT !.shortage = row.shortage \/ Total(take) < qty]
  BY <1>0, <1>3, <1>5, <1>6 DEF LineTable
<1>8. \A k \in Lines \ {l} : seen'[r][k] = seen[r][k]
  BY <1>0, <1>3, <1>6 DEF LineTable
<1>9. i \in Items /\ i \in locks[r] /\ qty \in Nat
  BY <1>0, <1>2, <1>3, <1>4 DEF LineRow
<1>10. /\ seen'[r][l].item = row.item /\ seen'[r][l].qty = row.qty
       /\ seen'[r][l].shortage <=> Total(take) < qty
  <2>1. ~row.shortage
    BY <1>1, <1>2, <1>5
  <2>2. seen'[r][l].item = row.item /\ seen'[r][l].qty = row.qty
    BY <1>7 DEF LineRow
  <2>3. seen'[r][l].shortage = (row.shortage \/ Total(take) < qty)
    BY <1>7 DEF LineRow
  <2> QED BY <2>1, <2>2, <2>3
<1>11. /\ take \in Quantities /\ Total(take) \in Nat /\ Total(take) <= qty
  <2>1. work[r][i] \in CountedRows
    BY <1>0, <1>9
  <2>2. Free(work[r][i]) \in Quantities
    BY <2>1, FreeCounts
  <2>3. take \in Greedy(Free(work[r][i]), qty, ShowroomFirst)
    BY DEF Reservations
  <2>4. /\ Total(take) = IF qty <= Total(Free(work[r][i])) THEN qty ELSE Total(Free(work[r][i]))
        /\ Total(Free(work[r][i])) \in Nat /\ Total(take) \in Nat
    BY <1>9, <2>2, <2>3, TheRanks, TakeTotal
  <2>5. take \in Quantities
    BY <2>3, GreedyBounds
  <2> QED BY <1>9, <2>4, <2>5
<1> HIDE DEF i, qty
<1>12. /\ \A k \in Lines : seen'[r][k].item = seen[r][k].item /\ seen'[r][k].qty = seen[r][k].qty
       /\ \A k \in Lines : k # l => seen'[r][k].shortage = seen[r][k].shortage
       /\ ~seen[r][l].shortage
  BY <1>1, <1>2, <1>5, <1>8, <1>10
<1>13. /\ held'[r][i] = [m \in Locations |-> held[r][i][m] + take[m]]
       /\ work'[r][i] = WithReserved(work[r][i], take)
       /\ \A j \in Items \ {i} : held'[r][j] = held[r][j] /\ work'[r][j] = work[r][j]
  BY <1>0, <1>6, <1>9 DEF Held
<1>14. ASSUME NEW k \in Lines, seen'[r][k] # NoLine PROVE seen'[r][k].item \in locks'[r]
  <2>1. seen[r][k] # NoLine
    BY <1>3, <1>8, <1>14
  <2> QED BY <1>1, <1>2, <1>12, <2>1
<1>15. ASSUME NEW j \in locks'[r], NEW m \in Locations
       PROVE  work'[r][j][m].reserved = stock'[j][m].reserved + held'[r][j][m]
  <2>1. j \in Items /\ j \in locks[r] /\ stock'[j] = stock[j]
    BY <1>0, <1>1, <1>15
  <2>2. work[r][j][m].reserved = stock[j][m].reserved + held[r][j][m]
    BY <1>2, <2>1
  <2>3. stock[j][m].reserved \in Nat /\ held[r][j][m] \in Nat /\ take[m] \in Nat
    BY <1>0, <1>11, <2>1 DEF CountedRows, Held, Quantities
  <2>4. CASE j = i
    <3>1. work'[r][j][m].reserved = work[r][j][m].reserved + take[m]
      <4>1. PICK old : old = work[r][i][m]
        OBVIOUS
      <4>2. old \in [onHand : Nat, reserved : Nat]
        BY <1>0, <1>9, <4>1 DEF CountedRows
      <4>3. work'[r][i][m] = [old EXCEPT !.reserved = old.reserved + take[m]]
        BY <1>13, <4>1 DEF WithReserved
      <4> QED BY <2>4, <4>1, <4>2, <4>3
    <3>2. held'[r][j][m] = held[r][j][m] + take[m]
      BY <1>13, <2>4
    <3> QED BY <2>1, <2>2, <2>3, <3>1, <3>2
  <2>5. CASE j # i
    BY <1>13, <2>1, <2>2, <2>5
  <2> QED BY <2>4, <2>5
<1>16. \A j \in Items \ locks'[r] : held'[r][j] = NoQuantities
  BY <1>1, <1>2, <1>9, <1>13
<1>17. FlagsAreSo(r)'
  <2> SUFFICES ASSUME NEW j \in Items
               PROVE  LET wanted == TakenOf(seen'[r], todo'[r], [k \in Lines |-> seen'[r][k].qty], j)
                      IN  /\ Total(held'[r][j]) <= wanted
                          /\ Total(held'[r][j]) < wanted
                                <=> \E k \in Lines : seen'[r][k].item = j /\ seen'[r][k].shortage
    BY DEF FlagsAreSo
  <2>1. PICK ask : ask = [k \in Lines |-> seen[r][k].qty]
    OBVIOUS
  <2>2. ask = [k \in Lines |-> seen'[r][k].qty]
    BY <1>12, <2>1
  <2>3. ask \in [Lines -> Nat] /\ ask[l] = qty
    BY <1>3, <2>1 DEF LineTable, LineRow, NoLine, qty
  <2>4. PICK before : before = TakenOf(seen[r], todo[r], ask, j)
    OBVIOUS
  <2>5. PICK after : after = TakenOf(seen'[r], todo'[r], ask, j)
    OBVIOUS
  <2>6. before \in Int
    BY <2>3, <2>4, TakenInt
  <2>7. /\ Total(held[r][j]) <= before
        /\ Total(held[r][j]) < before <=> \E k \in Lines : seen[r][k].item = j /\ seen[r][k].shortage
    BY <1>2, <2>1, <2>4 DEF FlagsAreSo
  <2>8. todo[r] \in SUBSET Lines
    BY <1>0
  <2>9. held[r][j] \in Quantities /\ Total(held[r][j]) \in Nat
    <3>1. held[r][j] \in Quantities
      BY <1>0 DEF Held
    <3> QED BY <3>1, TotalCounts
  <2>10. CASE j = i
    <3>1. after = before + qty
      <4>1. TakenOf(seen'[r], todo'[r], ask, seen[r][l].item)
              = TakenOf(seen[r], todo[r], ask, seen[r][l].item) + ask[l]
        BY <1>1, <1>12, <2>3, <2>8, TakenOne
      <4>2. seen[r][l].item = j
        BY <2>10 DEF i
      <4> QED BY <2>3, <2>4, <2>5, <4>1, <4>2, Zenon
    <3>2. Total(held'[r][j]) = Total(held[r][j]) + Total(take)
      <4>1. PICK more : more = held'[r][j]
        OBVIOUS
      <4>2. PICK less : less = held[r][j]
        OBVIOUS
      <4>3. more = [m \in Locations |-> less[m] + take[m]]
        BY <1>13, <2>10, <4>1, <4>2
      <4>4. more \in Quantities /\ \A m \in Locations : more[m] = less[m] + take[m]
        BY <1>11, <2>9, <4>2, <4>3 DEF Quantities
      <4>5. Total(more) = Total(less) + Total(take)
        BY <1>11, <2>9, <4>2, <4>4, TotalPlus
      <4> QED BY <4>1, <4>2, <4>5
    <3>3. (\E k \in Lines : seen'[r][k].item = j /\ seen'[r][k].shortage)
             <=> \/ \E k \in Lines : seen[r][k].item = j /\ seen[r][k].shortage
                 \/ Total(take) < qty
      <4>1. seen'[r][l].shortage <=> Total(take) < qty
        BY <1>10 DEF qty
      <4>2. seen'[r][l].item = j
        BY <1>12, <2>10 DEF i
      <4> QED BY <1>12, <4>1, <4>2
    <3>4. /\ Total(held'[r][j]) <= after
          /\ Total(held'[r][j]) < after <=> Total(held[r][j]) < before \/ Total(take) < qty
      BY <1>9, <1>11, <2>6, <2>7, <2>9, <3>1, <3>2
    <3> QED BY <2>2, <2>5, <2>7, <3>3, <3>4
  <2>11. CASE j # i
    <3>1. after = before
      <4>1. \A m : m # seen[r][l].item =>
               TakenOf(seen'[r], todo'[r], ask, m) = TakenOf(seen[r], todo[r], ask, m)
        BY <1>1, <1>12, <2>3, <2>8, TakenOne
      <4> QED BY <2>4, <2>5, <2>11, <4>1 DEF i
    <3>2. held'[r][j] = held[r][j]
      BY <1>13, <2>11
    <3>3. (\E k \in Lines : seen'[r][k].item = j /\ seen'[r][k].shortage)
             <=> \E k \in Lines : seen[r][k].item = j /\ seen[r][k].shortage
      <4>1. seen[r][l].item # j
        BY <2>11 DEF i
      <4> QED BY <1>12, <4>1
    <3> QED BY <2>2, <2>5, <2>7, <3>1, <3>2, <3>3
  <2> QED BY <2>10, <2>11
<1>18. \A k \in todo'[r] : ~seen'[r][k].shortage
  BY <1>0, <1>1, <1>2, <1>8
<1> QED BY <1>1, <1>14, <1>15, <1>16, <1>17, <1>18 DEF HoldsSo

-----------------------------------------------------------------------------
(* Every step of the desk, one request at a time.                           *)

LEMMA SameStockKeepsOrders ==
    ASSUME Books, UNCHANGED <<status, line, resv, stock>>
    PROVE  BooksKeptBy
BY RestKeepsOrders

(* A request that ends has changed nothing or drafted an order.             *)
LEMMA EditsKeepOrders ==
    ASSUME Books, Serial', NEW r \in Requests, ReadIsSo(r),
           \/ \E l \in Lines, i \in Items, n \in 1..MaxQty :
                 AddLineInsert(r, l, i, n) \/ UpdateLineSave(r, l, i, n)
           \/ RemoveLineDelete(r)
    PROVE  BooksKeptBy
<1>1. /\ pc[r] \in {"addLine", "updateLine", "removeLine"}
      /\ UNCHANGED <<resv, stock>>
  BY DEF AddLineInsert, UpdateLineSave, RemoveLineDelete, stockTables
<1>2. target[r] \in Orders /\ status[target[r]] = "Draft"
  BY <1>1 DEF ReadIsSo, Books, Serial, IInv, RequestInv, RequestsWellFormed, QuotationWork, QuotationStatus
<1>3. line \in LineTable
  BY DEF Books, Serial, IInv, OrderTypeOK
<1>4. ASSUME NEW m \in Lines, NEW i \in Items, NEW n \in 1..MaxQty, AddLineInsert(r, m, i, n), NEW l \in Lines
      PROVE  line'[l] = line[l] \/ ~line'[l].shortage
  BY <1>3, <1>4 DEF AddLineInsert, LineTable, NewLine
<1>5. ASSUME NEW m \in Lines, NEW i \in Items, NEW n \in 1..MaxQty, UpdateLineSave(r, m, i, n), NEW l \in Lines
      PROVE  line'[l] = line[l] \/ ~line'[l].shortage
  <2>1. /\ pc[r] = "updateLine" /\ seen[r][m] # NoLine
        /\ line' = [line EXCEPT ![m] = [seen[r][m] EXCEPT !.item = i, !.qty = n]]
    BY <1>5 DEF UpdateLineSave
  <2>2. seen[r][m] = line[m] /\ line[m].order = target[r] /\ line[m] \in LineRow
    BY <2>1, LineFacts DEF ReadIsSo, Books, Serial, IInv
  <2>3. CASE l = m
    <3>1. PICK row \in LineRow : row = line[m]
      BY <2>2
    <3>2. ~row.shortage
      BY <1>2, <2>2, <3>1 DEF Books, BooksOf, LinesOf
    <3>3. line'[l] = [row EXCEPT !.item = i, !.qty = n]
      BY <1>3, <2>1, <2>2, <2>3, <3>1 DEF LineTable
    <3> QED BY <3>2, <3>3 DEF LineRow
  <2>4. CASE l # m
    BY <1>3, <2>1, <2>4 DEF LineTable
  <2> QED BY <2>3, <2>4
<1>6. ASSUME RemoveLineDelete(r), NEW l \in Lines
      PROVE  line'[l] = line[l] \/ ~line'[l].shortage
  BY <1>6 DEF RemoveLineDelete, NoLine
<1>7. \A l \in Lines : line'[l] = line[l] \/ ~line'[l].shortage
  BY <1>4, <1>5, <1>6
<1>8. Opens(target[r])
  BY EditsOpen DEF Books
<1> QED BY <1>1, <1>2, <1>7, <1>8, OpensKeepsOrders

LEMMA IntakeKeepsOrders ==
    ASSUME Books, Serial', NEW r \in Requests, NEW o \in Orders, NEW S \in SUBSET Lines,
           IntakeInsert(r, o, S)
    PROVE  BooksKeptBy
<1>1. UNCHANGED <<resv, stock>>
  BY DEF IntakeInsert, stockTables
<1>2. PICK item \in [S -> Items], qty \in [S -> 1..MaxQty] :
         line' = [l \in Lines |-> IF l \in S THEN NewLine(o, item[l], qty[l]) ELSE line[l]]
  BY DEF IntakeInsert
<1>3. \A l \in Lines : line'[l] = line[l] \/ ~line'[l].shortage
  BY <1>2 DEF NewLine
<1>4. Opens(o)
  BY IntakeOpens DEF Books
<1> QED BY <1>1, <1>3, <1>4, OpensKeepsOrders

LEMMA MovesKeepOrders ==
    ASSUME Books, MoveStep
    PROVE  BooksKeptBy
<1>1. PICK i \in Items, l \in Locations, n \in 1..MaxQty :
         \/ \E to \in Locations : Transfer(i, l, to, n)
         \/ WalkInSale(i, l, n) \/ Return(i, l, n)
         \/ Increase(i, l, n) \/ Decrease(i, l, n)
  BY DEF MoveStep
<1>2. UNCHANGED <<status, line, resv>>
  BY <1>1 DEF Transfer, WalkInSale, Return, Increase, Decrease, orderTables
<1>3. stock \in [Items -> Rows]
  BY DEF Books, Serial, IInv, StockInv, StockTypeOK
<1>4. ASSUME NEW rows \in Rows, NEW k \in Locations, NEW m \in Locations
      PROVE  /\ Decremented(rows, k, n) \in Rows /\ Decremented(rows, k, n)[m].reserved = rows[m].reserved
             /\ Incremented(rows, k, n) \in Rows /\ Incremented(rows, k, n)[m].reserved = rows[m].reserved
  BY DEF Decremented, Incremented, Rows, Row
<1>5. \E rows \in Rows :
         /\ stock' = [stock EXCEPT ![i] = rows]
         /\ \A m \in Locations : rows[m].reserved = stock[i][m].reserved
  <2>1. stock[i] \in Rows
    BY <1>3
  <2>2. CASE \E to \in Locations : Transfer(i, l, to, n)
    <3>1. PICK to \in Locations : Transfer(i, l, to, n)
      BY <2>2
    <3>2. stock' = [stock EXCEPT ![i] = Incremented(Decremented(stock[i], l, n), to, n)]
      BY <3>1 DEF Transfer, SetRows
    <3>3. PICK middle \in Rows : /\ middle = Decremented(stock[i], l, n)
                                 /\ \A m \in Locations : middle[m].reserved = stock[i][m].reserved
      BY <1>4, <2>1
    <3>4. PICK rows \in Rows : /\ rows = Incremented(middle, to, n)
                               /\ \A m \in Locations : rows[m].reserved = middle[m].reserved
      BY <1>4
    <3>5. stock' = [stock EXCEPT ![i] = rows]
      BY <3>2, <3>3, <3>4, Zenon
    <3> QED BY <3>3, <3>4, <3>5
  <2>3. CASE WalkInSale(i, l, n) \/ Return(i, l, n) \/ Increase(i, l, n) \/ Decrease(i, l, n)
    <3>1. stock' = [stock EXCEPT ![i] = Incremented(stock[i], l, n)]
            \/ stock' = [stock EXCEPT ![i] = Decremented(stock[i], l, n)]
      BY <2>3 DEF WalkInSale, Return, Increase, Decrease, SetRows
    <3> QED BY <1>4, <2>1, <3>1
  <2> QED BY <1>1, <2>2, <2>3
<1>6. \A j \in Items, m \in Locations : stock'[j][m].reserved = stock[j][m].reserved
  BY <1>3, <1>5
<1> QED BY <1>2, <1>6, RestKeepsOrders

LEMMA SalesKeepOrders ==
    ASSUME Books, Serial', NEW r \in Requests, ReadIsSo(r), HoldsSo(r), SalesOrdersStep(r)
    PROVE  BooksKeptBy /\ HoldsSo(r)'
<1>1. CASE \/ \E q \in Quotations : IntakeRead(r, q)
           \/ \E o \in Orders : AddLineRead(r, o) \/ ConfirmRead(r, o) \/ CancelRead(r, o)
           \/ \E l \in Lines, edit \in {"updateLine", "removeLine"} : EditRead(r, l, edit)
  <2>1. UNCHANGED <<status, line, resv, stock>>
    BY <1>1 DEF IntakeRead, AddLineRead, ConfirmRead, CancelRead, EditRead, orderTables, stockTables
  <2> QED BY <1>1, <2>1, SameStockKeepsOrders, BeginningHolds
<1>2. CASE IntakeExisting(r) \/ ConfirmRefused(r) \/ CancelRefused(r)
  <2>1. Finish(r) /\ UNCHANGED <<status, line, resv, stock>>
    BY <1>2 DEF IntakeExisting, ConfirmRefused, CancelRefused, orderTables, stockTables
  <2> QED BY <2>1, SameStockKeepsOrders, FinishHolds DEF Books, Serial
<1>3. ASSUME NEW o \in Orders, NEW S \in SUBSET Lines, IntakeInsert(r, o, S)
      PROVE  BooksKeptBy /\ HoldsSo(r)'
  BY <1>3, IntakeKeepsOrders, FinishHolds DEF IntakeInsert, Books, Serial
<1>4. CASE \/ \E l \in Lines, i \in Items, n \in 1..MaxQty :
                 AddLineInsert(r, l, i, n) \/ UpdateLineSave(r, l, i, n)
           \/ RemoveLineDelete(r)
  <2>1. Finish(r)
    BY <1>4 DEF AddLineInsert, UpdateLineSave, RemoveLineDelete
  <2> QED BY <1>4, <2>1, EditsKeepOrders, FinishHolds DEF Books, Serial
<1>5. CASE ConfirmLock(r) \/ ConfirmFindQuotation(r) \/ CancelFind(r)
  <2>1. UNCHANGED <<status, line, resv, stock>>
    BY <1>5 DEF ConfirmLock, ConfirmFindQuotation, CancelFind, orderTables, stockTables
  <2> QED BY <1>5, <2>1, SameStockKeepsOrders, LockingHolds, FindingHolds
<1>6. ASSUME NEW l \in Lines, ReserveLine(r, l) PROVE BooksKeptBy /\ HoldsSo(r)'
  <2>1. UNCHANGED <<status, line, resv, stock>>
    BY <1>6 DEF ReserveLine, orderTables, stockTables
  <2> QED BY <1>6, <2>1, SameStockKeepsOrders, ReservingHolds
<1>7. CASE ConfirmCommit(r) \/ CancelCommit(r)
  <2>1. Finish(r)
    BY <1>7 DEF ConfirmCommit, CancelCommit
  <2> QED BY <1>7, <2>1, ConfirmKeepsOrders, CancelKeepsOrders, FinishHolds DEF Books, Serial
<1> QED BY <1>1, <1>2, <1>3, <1>4, <1>5, <1>6, <1>7 DEF SalesOrdersStep

LEMMA TablesKeepOrders ==
    ASSUME Books, Serial', OrderStep \/ MoveStep \/ \E q \in Quotations : ExpireOutdated(q)
    PROVE  BooksKeptBy /\ UNCHANGED requestVars
<1>1. ASSUME NEW o \in Orders, CreateOrder(o) PROVE BooksKeptBy /\ UNCHANGED requestVars
  <2>1. Opens(o)
    BY <1>1, CreateOpens DEF Books
  <2>2. UNCHANGED <<resv, stock, line, requestVars>>
    BY <1>1 DEF CreateOrder, stockTables
  <2> QED BY <2>1, <2>2, OpensKeepsOrders
<1>2. ASSUME NEW o \in Orders, NEW l \in Lines, NEW n \in 1..MaxQty, SellOnOrder(o, l, n)
      PROVE  BooksKeptBy /\ UNCHANGED requestVars
  BY <1>2, SaleKeepsOrders DEF SellOnOrder
<1>3. MoveStep => UNCHANGED requestVars
  BY DEF MoveStep, Transfer, WalkInSale, Return, Increase, Decrease
<1>4. ASSUME NEW q \in Quotations, ExpireOutdated(q) PROVE BooksKeptBy /\ UNCHANGED requestVars
  <2>1. UNCHANGED <<status, line, resv, stock, requestVars>>
    BY <1>4 DEF ExpireOutdated, stockTables
  <2> QED BY <2>1, SameStockKeepsOrders
<1> QED BY <1>1, <1>2, <1>3, <1>4, MovesKeepOrders DEF OrderStep

LEMMA DeskStep ==
    ASSUME Books, Serial', NEW r \in Requests, Requests = {r}, ReadIsSo(r), HoldsSo(r),
           [DeskNext /\ OneAtATime]_vars
    PROVE  BooksKeptBy /\ HoldsSo(r)'
<1>1. CASE SalesOrdersStep(r)
  BY <1>1, SalesKeepOrders
<1>2. CASE QuotationsStep(r)
  <2>1. UNCHANGED <<status, line, resv, stock>>
    BY <1>2 DEF QuotationsStep, StatusRead, StatusSave, orderTables, stockTables
  <2>2. CASE \E q \in Quotations, s \in QuotationStatus : StatusRead(r, q, s)
    BY <2>1, <2>2, SameStockKeepsOrders, BeginningHolds
  <2>3. CASE StatusSave(r)
    BY <2>1, <2>3, SameStockKeepsOrders, FinishHolds DEF StatusSave, Books, Serial
  <2> QED BY <1>2, <2>2, <2>3 DEF QuotationsStep
<1>3. CASE Rollback(r)
  <2>1. Finish(r) /\ UNCHANGED <<status, line, resv, stock>>
    BY <1>3 DEF Rollback, orderTables, stockTables
  <2> QED BY <2>1, SameStockKeepsOrders, FinishHolds DEF Books, Serial
<1>4. CASE UNCHANGED vars
  <2>1. UNCHANGED <<status, line, resv, stock, pc, target, seen, todo, locks, work, held>>
    BY <1>4 DEF vars, orderTables, stockTables, requestVars
  <2>2. HoldsSo(r)'
    BY <2>1, FlagsStay DEF HoldsSo
  <2> QED BY <2>1, <2>2, SameStockKeepsOrders
<1>5. CASE /\ OrderStep \/ MoveStep \/ \E q \in Quotations : ExpireOutdated(q)
           /\ OneAtATime
  <2>1. BooksKeptBy /\ UNCHANGED requestVars
    BY <1>5, TablesKeepOrders
  <2>2. pc[r] = "idle" /\ pc'[r] = "idle" /\ held' = held
    BY <1>5, <2>1 DEF OneAtATime, requestVars
  <2> QED BY <2>1, <2>2 DEF HoldsSo
<1> QED BY <1>1, <1>2, <1>3, <1>4, <1>5 DEF DeskNext

LEMMA InitDesk == Init => DeskInv
<1> SUFFICES ASSUME Init PROVE DeskInv
  OBVIOUS
<1>1. \A o \in Orders : resv[o] = NothingHeld /\ status[o] = "None"
  BY DEF Init
<1>2. \A l \in Lines : line[l] = NoLine
  BY DEF Init, EmptyLines
<1>3. ReservedIsHeld
  <2> SUFFICES ASSUME NEW i \in Items, NEW m \in Locations
               PROVE  stock[i][m].reserved = SumFunctionOnSet([o \in Orders |-> resv[o][i][m]], Orders)
    BY DEF ReservedIsHeld
  <2> DEFINE f == [o \in Orders |-> resv[o][i][m]]
  <2>1. \A o \in Orders : f[o] = 0
    BY <1>1 DEF NothingHeld, NoQuantities
  <2> HIDE DEF f
  <2>2. SumFunctionOnSet(f, Orders) = 0
    BY <2>1, SumZero, TablesAssumption
  <2>3. stock[i][m].reserved = 0
    BY DEF Init
  <2> QED BY <2>2, <2>3 DEF f
<1>4. ASSUME NEW o \in Orders PROVE BooksOf(o)
  <2>1. LinesOf(line, o) = {}
    BY <1>2, NoValueAssumption DEF LinesOf, NoLine
  <2>2. ASSUME NEW i \in Items PROVE HeldBy(o, i) <= Ordered(o, i) - Delivered(o, i)
    <3>1. OrderLines(o, i) = {}
      BY <2>1 DEF OrderLines
    <3>2. Ordered(o, i) = 0 /\ Delivered(o, i) = 0
      BY <3>1, SumEmpty DEF Ordered, Delivered
    <3>3. resv[o][i] = NoQuantities /\ NoQuantities \in Quantities
      BY <1>1 DEF NothingHeld, NoQuantities, Quantities
    <3>4. HeldBy(o, i) = 0
      BY <3>3, TotalCounts DEF HeldBy
    <3> QED BY <3>2, <3>4
  <2> QED BY <1>1, <2>1, <2>2 DEF BooksOf
<1>5. \A r \in Requests : HoldsSo(r)
  BY DEF Init, HoldsSo
<1> QED BY <1>3, <1>4, <1>5 DEF DeskInv

(* The inductive invariant, in every behaviour of a single request.         *)
LEMMA DeskInvariance ==
    ASSUME NEW r \in Requests, Requests = {r}
    PROVE  SerialDeskSpec => [](Books /\ HoldsSo(r))
<1>1. SerialDeskSpec => SerialSpec
  <2>1. [DeskNext /\ OneAtATime]_vars => [Next /\ OneAtATime]_vars
    BY DEF Next
  <2> QED BY <2>1, PTL DEF SerialDeskSpec, SerialSpec
<1> DEFINE Orderly == ReservedIsHeld /\ \A o \in Orders : BooksOf(o)
<1>2. Init => Orderly /\ HoldsSo(r)
  BY InitDesk DEF DeskInv
<1>3. Serial /\ Serial' /\ ReadIsSo(r) /\ Orderly /\ HoldsSo(r) /\ [DeskNext /\ OneAtATime]_vars
         => Orderly' /\ HoldsSo(r)'
  BY DeskStep DEF Books, BooksKeptBy
<1>4. Books <=> Serial /\ Orderly
  BY DEF Books
<1> HIDE DEF Orderly
<1> QED BY <1>1, <1>2, <1>3, <1>4, SerialInvariance, PTL DEF SerialDeskSpec

-----------------------------------------------------------------------------
(* The properties of the desk.                                              *)

LEMMA DeskKeepsPromises ==
    Books => ReservedIsHeld /\ HeldWithinOutstanding /\ ShortageFlagged /\ OverHoldsNothing
<1> SUFFICES ASSUME Books
             PROVE  ReservedIsHeld /\ HeldWithinOutstanding /\ ShortageFlagged /\ OverHoldsNothing
  OBVIOUS
<1>1. ReservedIsHeld /\ \A o \in Orders : BooksOf(o)
  BY DEF Books
<1>2. ASSUME NEW o \in Orders, status[o] = "Closed" PROVE resv[o] = NothingHeld
  <2>1. ASSUME NEW i \in Items PROVE resv[o][i] = NoQuantities
    <3>1. ShippedOn(o, i) = Ordered(o, i)
      BY <1>2, SerialImpliesClosed DEF ClosedWhenDelivered, Books
    <3>2. Delivered(o, i) = ShippedOn(o, i)
      BY SerialImpliesDelivered DEF DeliveredIsShipped, Books
    <3>3. HeldBy(o, i) <= Ordered(o, i) - Delivered(o, i)
      BY <1>1 DEF BooksOf
    <3>4. OrderCounts
      BY CountsNow DEF Books, Serial, IInv
    <3>5. HeldBy(o, i) = 0
      BY <3>1, <3>2, <3>3, <3>4 DEF OrderCounts
    <3> QED BY <3>4, <3>5 DEF OrderCounts
  <2>2. resv[o] \in [Items -> Quantities]
    BY DEF Books, Serial, IInv, OrderTypeOK, Held
  <2> QED BY <2>1, <2>2 DEF NothingHeld
<1> QED BY <1>1, <1>2 DEF HeldWithinOutstanding, ShortageFlagged, OverHoldsNothing, BooksOf

(* The reserved counter of a stock row is the sum of the reservation rows   *)
(* that point to it, in every behaviour of the order desk that serves one   *)
(* request at a time: releasing and selling give back exactly what          *)
(* confirming took.                                                         *)
THEOREM ReservedUnitsAreHeld ==
    ASSUME NEW r \in Requests, Requests = {r}
    PROVE  SerialDeskSpec => []ReservedIsHeld
BY DeskInvariance, DeskKeepsPromises, PTL

(* The order desk never lets an order hold more of an item than it still    *)
(* has to receive.                                                          *)
THEOREM HoldingsStayOutstanding ==
    ASSUME NEW r \in Requests, Requests = {r}
    PROVE  SerialDeskSpec => []HeldWithinOutstanding
BY DeskInvariance, DeskKeepsPromises, PTL

(* The shortage flags tell the truth: a confirmed order holds less of an    *)
(* item than ordered exactly when one of its lines is flagged.              *)
THEOREM FlagsTellTheTruth ==
    ASSUME NEW r \in Requests, Requests = {r}
    PROVE  SerialDeskSpec => []ShortageFlagged
BY DeskInvariance, DeskKeepsPromises, PTL

(* An order of the desk that is closed or cancelled holds no stock.         *)
THEOREM OverOrdersHoldNothing ==
    ASSUME NEW r \in Requests, Requests = {r}
    PROVE  SerialDeskSpec => []OverHoldsNothing
BY DeskInvariance, DeskKeepsPromises, PTL
=============================================================================
