------------------------------ MODULE Finance ------------------------------
(***************************************************************************)
(* FinanceService (src/src/finance/finance.service.ts): invoices, made from *)
(* an order's delivered quantities or by hand, and payments, which are      *)
(* spread over the invoices of their client, oldest first, under the locks  *)
(* of the invoice rows.                                                     *)
(*                                                                         *)
(* Money is counted in whole units and an order's goods cost one unit each: *)
(* discounts, VAT and rounding change what a total is, not what is done with*)
(* it. An invoice by hand has any total: a negative one is a credit note.   *)
(* Invoices are their ids.                                                  *)
(***************************************************************************)
EXTENDS Integers, FiniteSets, Functions

CONSTANTS
    Clients, NoClient,
    Orders, NoOrder,
    Requests,
    OrderClient,    \* sales_orders.client_id
    MaxInvoice,     \* bound: the number of invoices
    MaxDate,        \* bound: the number of days
    MaxMoney        \* bound: the largest amount of a total, credit or payment

ASSUME FinanceAssumption ==
    /\ NoClient \notin Clients /\ NoOrder \notin Orders
    /\ OrderClient \in [Orders -> Clients \cup {NoClient}]
    /\ MaxInvoice \in Nat /\ MaxDate \in Nat /\ MaxMoney \in Nat

Invoices == 1..MaxInvoice
Dates == 1..MaxDate
InvoiceStatus == {"Open", "PartiallyPaid", "Paid"}

Invoice ==
    [client : Clients \cup {NoClient}, order : Orders \cup {NoOrder},
     date : Dates, total : Int, status : InvoiceStatus]
NoInvoice == [client |-> NoClient, order |-> NoOrder, date |-> 0, total |-> 0, status |-> "None"]

VARIABLES
    invoice,     \* invoices
    paid,        \* payment_allocations: the sum of the amounts, per invoice
    received,    \* payments: the sum of the amounts, per client
    delivered,   \* sales_order_lines.qty_delivered, the sum over an order's lines
    pc,          \* where a request is
    client,      \* the client who pays, or whose order is billed
    order,       \* the order that is billed
    amount,      \* what is paid, or what is billed as it was read
    found,       \* the invoices that a payment has found
    known        \* paid, as a payment has read it

tables == <<invoice, paid, received>>
private == <<pc, client, order, amount, found, known>>
vars == <<tables, delivered, private>>

TypeOK ==
    /\ invoice \in [Invoices -> Invoice \cup {NoInvoice}]
    /\ paid \in [Invoices -> Nat]
    /\ received \in [Clients -> Nat]
    /\ delivered \in [Orders -> Nat]
    /\ pc \in [Requests -> {"idle", "bill", "found", "locked", "allocate"}]
    /\ client \in [Requests -> Clients \cup {NoClient}]
    /\ order \in [Requests -> Orders \cup {NoOrder}]
    /\ amount \in [Requests -> Nat]
    /\ found \in [Requests -> SUBSET Invoices]
    /\ known \in [Requests -> [Invoices -> Nat]]

Init ==
    /\ invoice = [i \in Invoices |-> NoInvoice]
    /\ paid = [i \in Invoices |-> 0]
    /\ received = [c \in Clients |-> 0]
    /\ delivered = [o \in Orders |-> 0]
    /\ pc = [r \in Requests |-> "idle"]
    /\ client = [r \in Requests |-> NoClient]
    /\ order = [r \in Requests |-> NoOrder]
    /\ amount = [r \in Requests |-> 0]
    /\ found = [r \in Requests |-> {}]
    /\ known = [r \in Requests |-> [i \in Invoices |-> 0]]

-----------------------------------------------------------------------------
Finish(r) ==
    /\ pc' = [pc EXCEPT ![r] = "idle"]
    /\ client' = [client EXCEPT ![r] = NoClient]
    /\ order' = [order EXCEPT ![r] = NoOrder]
    /\ amount' = [amount EXCEPT ![r] = 0]
    /\ found' = [found EXCEPT ![r] = {}]
    /\ known' = [known EXCEPT ![r] = [i \in Invoices |-> 0]]

Insert(i, c, o, d, total) ==
    /\ invoice[i] = NoInvoice
    /\ invoice' = [invoice EXCEPT ![i] =
           [client |-> c, order |-> o, date |-> d, total |-> total, status |-> "Open"]]

(* Deliveries and sales on an order. *)
Deliver(o) ==
    /\ delivered[o] < MaxMoney
    /\ delivered' = [delivered EXCEPT ![o] = @ + 1]
    /\ UNCHANGED <<tables, private>>

(* invoiceFromOrder: what has been delivered is read without a lock and, as *)
(* soon as the number is drawn, billed: all of it, whatever was billed      *)
(* before. (An order is Delivered or Closed once something is delivered.)   *)
BillRead(r, o) ==
    /\ pc[r] = "idle"
    /\ delivered[o] > 0
    /\ pc' = [pc EXCEPT ![r] = "bill"]
    /\ client' = [client EXCEPT ![r] = OrderClient[o]]
    /\ order' = [order EXCEPT ![r] = o]
    /\ amount' = [amount EXCEPT ![r] = delivered[o]]
    /\ UNCHANGED <<tables, delivered, found, known>>

BillInsert(r, i, d) ==
    /\ pc[r] = "bill"
    /\ Insert(i, client[r], order[r], d, amount[r])
    /\ Finish(r)
    /\ UNCHANGED <<paid, received, delivered>>

(* createManualInvoice: for a client or just for a name. *)
CreateManualInvoice(i, c, d, total) ==
    /\ Insert(i, c, NoOrder, d, total)
    /\ UNCHANGED <<paid, received, delivered, private>>

-----------------------------------------------------------------------------
(* createPayment: find the client's invoices, whatever their balance; ...   *)
PayFind(r, c, n) ==
    /\ pc[r] = "idle"
    /\ n > 0
    /\ pc' = [pc EXCEPT ![r] = "found"]
    /\ client' = [client EXCEPT ![r] = c]
    /\ amount' = [amount EXCEPT ![r] = n]
    /\ found' = [found EXCEPT ![r] = {i \in Invoices : invoice[i].client = c}]
    /\ UNCHANGED <<tables, delivered, order, known>>

Holds(r) == IF pc[r] \in {"locked", "allocate"} THEN found[r] ELSE {}

(* ... get their locks; ...                                                 *)
\* Mutant: the invoices are read without FOR UPDATE.
PayLockWithoutWaiting(r) ==
    /\ pc[r] = "found"
    /\ pc' = [pc EXCEPT ![r] = "locked"]
    /\ UNCHANGED <<tables, delivered, client, order, amount, found, known>>

PayLock(r) ==
    /\ pc[r] = "found"
    /\ \A s \in Requests : found[r] \cap Holds(s) = {}
    /\ pc' = [pc EXCEPT ![r] = "locked"]
    /\ UNCHANGED <<tables, delivered, client, order, amount, found, known>>

(* ... and then, in a later statement, read what has been paid on them; ... *)
PayRead(r) ==
    /\ pc[r] = "locked"
    /\ pc' = [pc EXCEPT ![r] = "allocate"]
    /\ known' = [known EXCEPT ![r] = [i \in Invoices |-> IF i \in found[r] THEN paid[i] ELSE 0]]
    /\ UNCHANGED <<tables, delivered, client, order, amount, found>>

(* ... spread the amount over the balances, oldest invoice first; ...       *)
Balance(r, i) == invoice[i].total - known[r][i]
Payable(r) == {i \in found[r] : Balance(r, i) > 0}

\* Mutant: in the order of the ids, whatever the dates.
BeforeById(i, j) == i < j
Before(i, j) ==
    \/ invoice[i].date < invoice[j].date
    \/ invoice[i].date = invoice[j].date /\ i < j

Remaining(r, i) ==
    amount[r] - SumFunctionOnSet([j \in Invoices |-> Balance(r, j)], {j \in Payable(r) : Before(j, i)})

\* Mutant: goes on when nothing remains.
TakeWithoutBreak(r, i) ==
    CASE i \notin Payable(r) -> 0
      [] i \in Payable(r) /\ Remaining(r, i) > Balance(r, i) -> Balance(r, i)
      [] OTHER -> Remaining(r, i)

Take(r, i) ==
    CASE i \in Payable(r) /\ Remaining(r, i) \in 1..Balance(r, i) -> Remaining(r, i)
      [] i \in Payable(r) /\ Remaining(r, i) > Balance(r, i) -> Balance(r, i)
      [] OTHER -> 0

\* Mutant: an overpayment is accepted.
CoveredAlways(r) == Payable(r) # {}
Covered(r) == amount[r] <= SumFunctionOnSet([i \in Invoices |-> Balance(r, i)], Payable(r))

\* Mutant: forgets what was paid on the invoice before.
StatusOfThisPayment(r, i) ==
    IF invoice[i].total - Take(r, i) <= 0 THEN "Paid" ELSE "PartiallyPaid"
StatusAfter(r, i) ==
    IF invoice[i].total - Take(r, i) - known[r][i] <= 0 THEN "Paid" ELSE "PartiallyPaid"

(* ... and save payment, allocations and statuses, or answer 422.           *)
PayCommit(r) ==
    /\ pc[r] = "allocate"
    /\ Covered(r)
    /\ received' = [received EXCEPT ![client[r]] = @ + amount[r]]
    /\ paid' = [i \in Invoices |-> paid[i] + Take(r, i)]
    /\ invoice' = [i \in Invoices |->
           IF Take(r, i) > 0 THEN [invoice[i] EXCEPT !.status = StatusAfter(r, i)] ELSE invoice[i]]
    /\ Finish(r)
    /\ UNCHANGED delivered

PayRefused(r) ==
    /\ pc[r] = "allocate"
    /\ ~Covered(r)
    /\ Finish(r)
    /\ UNCHANGED <<tables, delivered>>

(* aging: the open balances, whatever their age (the buckets by age are a   *)
(* partition of them), and their sum.                                       *)
AgingRows == {i \in Invoices : invoice[i].total - paid[i] > 0}
Owed(invoices) ==
    SumFunctionOnSet([i \in Invoices |-> invoice[i].total - paid[i]], AgingRows \cap invoices)

(* An exception, a lost connection or a crash before the commit.            *)
Rollback(r) ==
    /\ pc[r] # "idle"
    /\ Finish(r)
    /\ UNCHANGED <<tables, delivered>>

Next ==
    \/ \E o \in Orders : Deliver(o)
    \/ \E i \in Invoices, c \in Clients \cup {NoClient}, d \in Dates, n \in -MaxMoney..MaxMoney :
          CreateManualInvoice(i, c, d, n)
    \/ \E r \in Requests :
          \/ \E o \in Orders : BillRead(r, o)
          \/ \E i \in Invoices, d \in Dates : BillInsert(r, i, d)
          \/ \E c \in Clients, n \in 1..MaxMoney : PayFind(r, c, n)
          \/ PayLock(r) \/ PayRead(r) \/ PayCommit(r) \/ PayRefused(r)
          \/ Rollback(r)

Spec == Init /\ [][Next]_vars

-----------------------------------------------------------------------------
Of(c) == {i \in Invoices : invoice[i].client = c}

(* "concurrent payments cannot double-allocate the same balance": whatever  *)
(* payments overlap, no more is allocated to an invoice than its total, and *)
(* nothing to a credit note or to an invoice without a client.              *)
NeverOverAllocated ==
    \A i \in Invoices :
        paid[i] > 0 => paid[i] <= invoice[i].total /\ invoice[i].client \in Clients

(* The status of an invoice that asks for money tells what has been paid on *)
(* it by all payments together, although each payment sets it from what it  *)
(* has read.                                                                *)
StatusTellsBalance ==
    \A i \in Invoices : invoice[i].total > 0 =>
        /\ invoice[i].status = "Open" <=> paid[i] = 0
        /\ invoice[i].status = "Paid" <=> paid[i] = invoice[i].total

(* The inductive invariant of FinanceProofs: a payment works on invoices of  *)
(* its client, which nobody else has locked, and what it has read of them   *)
(* is still so.                                                             *)
PaymentsWellFormed ==
    \A r \in Requests :
        /\ pc[r] \in {"found", "locked", "allocate"} => client[r] \in Clients /\ amount[r] > 0
        /\ pc[r] \in {"idle", "bill"} => found[r] = {}
        /\ \A i \in found[r] :
              /\ invoice[i].client = client[r]
              /\ pc[r] = "allocate" => known[r][i] = paid[i]

HeldOnce == \A r, s \in Requests : r # s => Holds(r) \cap Holds(s) = {}

FinanceInv ==
    /\ TypeOK /\ PaymentsWellFormed /\ HeldOnce
    /\ NeverOverAllocated /\ StatusTellsBalance

(* A client's payments and the allocations to the client's invoices are the *)
(* same money, none is left over and none is allocated twice; and what the  *)
(* aging report says the client owes is what was billed and not paid.       *)
Asked(i) == IF invoice[i].total > 0 THEN invoice[i].total ELSE 0
Billed(c) == SumFunctionOnSet([i \in Invoices |-> Asked(i)], Of(c))
PaymentsSpent ==
    \A c \in Clients :
        /\ received[c] = SumFunctionOnSet(paid, Of(c))
        /\ Owed(Of(c)) = Billed(c) - received[c]

(* "oldest open invoice first": a payment that gives anything to an invoice *)
(* settles every invoice of an earlier date that it has found.              *)
OldestFirst ==
    [][\A i, j \in Invoices :
          LET settledBy(r) == {i, j} \subseteq found[r] /\ pc[r] = "allocate" /\ pc'[r] = "idle" IN
          (/\ \E r \in Requests : settledBy(r)
           /\ invoice[i].date < invoice[j].date
           /\ paid'[j] > paid[j])
              => paid'[i] >= invoice[i].total]_vars

(* Each client has an account as in Receivables: a payment counts at once   *)
(* and never for more than the invoices ask for, although it is spread over *)
(* several of them and payments overlap.                                    *)
Account == INSTANCE Receivables WITH billed <- [c \in Clients |-> Billed(c)]
AccountSpec == Account!Spec
=============================================================================
