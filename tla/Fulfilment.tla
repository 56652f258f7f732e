---------------------------- MODULE Fulfilment ----------------------------
(***************************************************************************)
(* The selling side of the ERP put together: sales orders, quotations,      *)
(* deliveries and stock moves on the same tables, with the decisions about  *)
(* release permits that deliveries read.                                    *)
(***************************************************************************)
EXTENDS SalesOrders, Deliveries, Transactions, Quotations

(* A release permit of a line is released or, through a race of two status  *)
(* updates, withdrawn: the sum that the gate computes becomes n.            *)
PermitStep(l, n) ==
    /\ n # permitted[l]
    /\ permitted' = [permitted EXCEPT ![l] = n]
    /\ UNCHANGED <<orderTables, stockTables, requestVars>>

(* The request ends without a trace: an exception, the victim of a deadlock,*)
(* a lost connection or a crash of the server before the commit.            *)
Rollback(r) ==
    /\ pc[r] # "idle"
    /\ Finish(r)
    /\ UNCHANGED <<orderTables, stockTables, permitted>>

(* Everything but deliveries: what the order desk and the shop floor do.    *)
DeskNext ==
    \/ OrderStep \/ MoveStep
    \/ \E q \in Quotations : ExpireOutdated(q)
    \/ \E r \in Requests : SalesOrdersStep(r) \/ QuotationsStep(r) \/ Rollback(r)

Next ==
    \/ DeskNext
    \/ \E r \in Requests : DeliveriesStep(r)
    \/ \E l \in Lines, n \in PermitSums : PermitStep(l, n)

Spec == Init /\ [][Next]_vars

DeskSpec == Init /\ [][DeskNext]_vars

(* One request at a time, for the runs with a single element in Requests    *)
(* (an ACTION_CONSTRAINT of theirs): nothing commits between two steps of a *)
(* request. This is the handlers' own logic, without the races between them.*)
OneAtATime == (\A r \in Requests : pc[r] = "idle") \/ requestVars' # requestVars

-----------------------------------------------------------------------------
(* Books: what the tables say of an item or an order, added up.             *)
ShippedOn(o, i) == SumFunctionOnSet(shipped[o][i], Lines)
ShippedOf(i) == SumFunctionOnSet([o \in Orders |-> ShippedOn(o, i)], Orders)
HeldBy(o, i) == Total(resv[o][i])
OrderLines(o, i) == {l \in LinesOf(line, o) : line[l].item = i}
Ordered(o, i) == SumFunctionOnSet([l \in Lines |-> line[l].qty], OrderLines(o, i))
Delivered(o, i) == SumFunctionOnSet([l \in Lines |-> line[l].delivered], OrderLines(o, i))

(* Nothing is sold that is not there: whatever requests overlap, no row     *)
(* ever shows a negative number of units on hand or of reserved units, as   *)
(* the stock engine's checks under the row locks are meant to ensure.       *)
NonNegativeStock ==
    \A i \in Items, l \in Locations : stock[i][l].onHand >= 0 /\ stock[i][l].reserved >= 0

(* Every unit is accounted for: the units on hand and the units the         *)
(* delivery lines and order-linked sales say have left are the opening      *)
(* stock plus what the other transactions rows say. A lost update of a      *)
(* stock row by two overlapping requests would break it.                    *)
UnitsConserved ==
    \A i \in Items : OnHand(stock[i]) + ShippedOf(i) = Total(OpeningStock[i]) + moved[i]

(* An order that nobody confirmed holds no stock and has shipped nothing,   *)
(* whatever confirmations, cancellations and edits overlap on it.           *)
DraftHoldsNothing ==
    \A o \in Orders : status[o] \in {"None", "Draft"} =>
        resv[o] = NothingHeld /\ \A i \in Items : shipped[o][i] = NothingAsked

(* At most one order of a quotation is not cancelled, although a            *)
(* confirmation may bring a cancelled order back (the filtered unique       *)
(* index).                                                                  *)
OneActiveOrderPerQuotation ==
    \A a, b \in Orders :
        (a # b /\ source[a] # NoQuotation /\ source[a] = source[b])
            => "Cancelled" \in {status[a], status[b]}

(* The reserved counter of a stock row is the sum of the reservation rows   *)
(* that point to it: releasing and selling give back exactly what           *)
(* confirming took.                                                         *)
ReservedIsHeld ==
    \A i \in Items, l \in Locations :
        stock[i][l].reserved = SumFunctionOnSet([o \in Orders |-> resv[o][i][l]], Orders)

(* An order never holds more of an item than it still has to receive.       *)
HeldWithinOutstanding ==
    \A o \in Orders, i \in Items : HeldBy(o, i) > 0 => HeldBy(o, i) <= Ordered(o, i) - Delivered(o, i)

(* The shortage flags tell the truth when an order is confirmed: it holds   *)
(* less of an item than ordered exactly when one of its lines is flagged.   *)
ShortageFlagged ==
    \A o \in Orders, i \in Items : status[o] = "Confirmed" =>
        (HeldBy(o, i) < Ordered(o, i) <=> \E l \in OrderLines(o, i) : line[l].shortage)

(* What the lines of an order count as delivered is what delivery lines and *)
(* order-linked sales have recorded, and never more than was ordered.       *)
DeliveredIsShipped ==
    \A o \in Orders, i \in Items :
        Delivered(o, i) = ShippedOn(o, i) /\ ShippedOn(o, i) <= Ordered(o, i)

(* A confirmed order is Closed exactly when something was ordered and all   *)
(* of it has left, whichever deliveries and sales took it out.              *)
ClosedWhenDelivered ==
    \A o \in Orders : status[o] \in {"Confirmed", "Delivered", "Closed"} =>
        (status[o] = "Closed"
            <=> /\ LinesOf(line, o) # {}
                /\ \A i \in Items : ShippedOn(o, i) = Ordered(o, i))

(* The orders live the life that OrderLifecycle promises: the content is    *)
(* fixed at confirmation, goods arrive within what was ordered, the step    *)
(* that completes an order closes it, and nothing is called off after a     *)
(* first delivery.                                                          *)
Lifecycle == INSTANCE OrderLifecycle WITH
    phase <- status,
    ordered <- [o \in Orders |-> [i \in Items |-> Ordered(o, i)]],
    received <- [o \in Orders |-> [i \in Items |-> ShippedOn(o, i)]]
LifecycleSpec == Lifecycle!Spec

(* An order that is over holds no stock.                                    *)
OverHoldsNothing ==
    \A o \in Orders : status[o] \in {"Closed", "Cancelled"} => resv[o] = NothingHeld

-----------------------------------------------------------------------------
(* Whatever overlaps: the inductive invariants of FulfilmentProofs.         *)

QuotationWork == {"intake"} \cup QuotationStatus

(* What a request has read fits the place where it is: it has an order or   *)
(* quotation to work on, and works only on lines that it has read.          *)
RequestsWellFormed ==
    \A r \in Requests :
        /\ pc[r] = "idle" => todo[r] = {} /\ asked[r] = NothingAsked
        /\ pc[r] \in QuotationWork => target[r] \in Quotations
        /\ pc[r] \notin {"idle"} \cup QuotationWork => target[r] \in Orders
        /\ todo[r] \subseteq Present(seen[r])
        /\ \A l \in Lines : asked[r][l] > 0 => seen[r][l] # NoLine

(* The copies that requests work on are rows of counts too, or a commit     *)
(* would write a negative number.                                           *)
StockInv == StockTypeOK /\ stock \in [Items -> CountedRows]
RequestInv ==
    /\ RequestTypeOK
    /\ work \in [Requests -> [Items -> CountedRows]]
    /\ RequestsWellFormed

IInv == StockInv /\ OrderTypeOK /\ RequestInv

(* An order that does not exist yet has no quotation to share.              *)
SourceInv ==
    /\ \A o \in Orders : status[o] = "None" => source[o] = NoQuotation
    /\ OneActiveOrderPerQuotation

(* What a delivery has taken of item i: what it asks for on the lines of i  *)
(* that its loop has passed.                                                *)
TakenOf(read, left, ask, i) ==
    SumFunctionOnSet([l \in Lines |-> IF read[l].item = i /\ l \notin left THEN ask[l] ELSE 0], Lines)

(* Stock rows are locked by one request at a time.                          *)
LocksExclusive == \A r, p \in Requests : r # p => locks[r] \cap locks[p] = {}

(* Only a request that reserves or hands over has locked rows, a delivery   *)
(* all that it takes from; and its copy of a locked row never goes stale:   *)
(* with what was taken from it, it still makes up what the table has.       *)
CopyFits(r) ==
    /\ locks[r] # {} => pc[r] \in {"reserve", "convert", "keep", "handover"}
    /\ pc[r] \notin {"deliver", "permits", "handover"} => asked[r] = NothingAsked
    /\ pc[r] = "handover" => \A l \in Lines : asked[r][l] > 0 => seen[r][l].item \in locks[r]
    /\ \A i \in locks[r] :
          OnHand(work[r][i]) + TakenOf(seen[r], todo[r], asked[r], i) = OnHand(stock[i])

BooksInv == LocksExclusive /\ (\A r \in Requests : CopyFits(r)) /\ UnitsConserved

-----------------------------------------------------------------------------
(* One request at a time: the inductive invariant of FulfilmentProofs.      *)

SerialSpec == Init /\ [][Next /\ OneAtATime]_vars

(* Line by line: what an order has shipped is what its lines count as       *)
(* delivered, and an order closes when all of its lines are complete.       *)
LineBooks ==
    /\ \A l \in Lines : line[l].delivered <= line[l].qty
    /\ \A l \in Lines : line[l] # NoLine => line[l].qty > 0
    /\ \A o \in Orders, i \in Items, l \in Lines :
          shipped[o][i][l] =
              IF line[l].order = o /\ line[l].item = i THEN line[l].delivered ELSE 0
    /\ \A o \in Orders : status[o] \in {"Confirmed", "Delivered", "Closed"} =>
          (status[o] = "Closed" <=> AllDelivered(line, LinesOf(line, o)))

(* What a delivery has counted on line l when its loop has passed it.       *)
Passed(r, l) == IF pc[r] = "handover" /\ l \notin todo[r] THEN asked[r][l] ELSE 0

(* The request has read the lines of its order as they still are, but for   *)
(* the flags that a confirmation sets and the units of its own delivery.    *)
LinesAreSo(r) ==
    \A l \in Lines :
        /\ seen[r][l] # NoLine <=> line[l].order = target[r]
        /\ seen[r][l] # NoLine =>
              /\ seen[r][l].order = line[l].order
              /\ seen[r][l].item = line[l].item
              /\ seen[r][l].qty = line[l].qty
              /\ seen[r][l].delivered = line[l].delivered + Passed(r, l)

(* What a request found when it began is so until it ends.                  *)
ReadIsSo(r) ==
    /\ pc[r] \in {"addLine", "updateLine", "removeLine", "confirm", "reserve", "convert", "keep"}
          => status[target[r]] = "Draft"
    /\ pc[r] \in {"cancel", "release"} => status[target[r]] \in {"Draft", "Confirmed"}
    /\ pc[r] \in {"deliver", "permits", "handover"} =>
          /\ status[target[r]] \in {"Confirmed", "Delivered"}
          /\ asked[r] # NothingAsked
          /\ \A l \in Lines : asked[r][l] <= line[l].qty - line[l].delivered
    /\ pc[r] \in {"updateLine", "removeLine"} =>
          \A l \in Lines : seen[r][l] # NoLine => seen[r][l] = line[l] /\ line[l].order = target[r]
    /\ pc[r] \in {"confirm", "reserve", "convert", "keep", "deliver", "permits", "handover"}
          => LinesAreSo(r)

SerialInv == LineBooks /\ \A r \in Requests : ReadIsSo(r)

-----------------------------------------------------------------------------
(* One request at a time and no deliveries, whose reconciliation drops      *)
(* reservations: the inductive invariant of FulfilmentProofs.               *)

SerialDeskSpec == Init /\ [][DeskNext /\ OneAtATime]_vars

(* The books of one order: it holds at most what it has still to receive,   *)
(* called off it holds nothing, and the flags of its lines tell the truth   *)
(* from its confirmation until goods arrive.                                *)
BooksOf(o) ==
    /\ \A i \in Items : HeldBy(o, i) <= Ordered(o, i) - Delivered(o, i)
    /\ status[o] = "Cancelled" => resv[o] = NothingHeld
    /\ status[o] = "Confirmed" =>
          \A i \in Items :
              HeldBy(o, i) < Ordered(o, i) <=> \E l \in OrderLines(o, i) : line[l].shortage
    /\ status[o] \in {"None", "Draft"} => \A l \in LinesOf(line, o) : ~line[l].shortage

(* What a confirmation holds of an item is less than what the lines that    *)
(* its loop has passed ask for exactly when it has flagged one of them.     *)
FlagsAreSo(r) ==
    \A i \in Items :
        LET wanted == TakenOf(seen[r], todo[r], [l \in Lines |-> seen[r][l].qty], i)
        IN  /\ Total(held[r][i]) <= wanted
            /\ Total(held[r][i]) < wanted
                  <=> \E l \in Lines : seen[r][l].item = i /\ seen[r][l].shortage

(* What a request holds: a confirmation what it has reserved on its copy of *)
(* the rows it has locked, a cancellation the reservations of the order.    *)
HoldsSo(r) ==
    /\ pc[r] \notin {"reserve", "convert", "keep", "release"} => held[r] = NothingHeld
    /\ pc[r] = "release" => held[r] = resv[target[r]]
    /\ pc[r] \in {"confirm", "reserve"} =>
          \A l \in Lines : pc[r] = "confirm" \/ l \in todo[r] => ~seen[r][l].shortage
    /\ pc[r] \in {"convert", "keep"} => todo[r] = {}
    /\ pc[r] \in {"reserve", "convert", "keep"} =>
          /\ \A l \in Lines : seen[r][l] # NoLine => seen[r][l].item \in locks[r]
          /\ \A i \in Items \ locks[r] : held[r][i] = NoQuantities
          /\ \A i \in locks[r], m \in Locations :
                work[r][i][m].reserved = stock[i][m].reserved + held[r][i][m]
          /\ FlagsAreSo(r)

DeskInv ==
    /\ ReservedIsHeld
    /\ \A o \in Orders : BooksOf(o)
    /\ \A r \in Requests : HoldsSo(r)

-----------------------------------------------------------------------------
(* A statement of the repository that the code as it is (QueriesAsMeant =   *)
(* FALSE) does not keep; a run of its own finds it violated.                *)
(* sales-orders.service.ts:252: confirm "Marks the source quotation         *)
(* Converted": no confirmation leaves it Approved.                          *)
ConfirmConverts ==
    [][\A r \in Requests :
          (ConfirmCommit(r) /\ source[target[r]] # NoQuotation)
              => quote'[source[target[r]]] # "Approved"]_vars
=============================================================================
