--------------------------- MODULE FinanceProofs ---------------------------
(***************************************************************************)
(* For any number of clients, invoices and overlapping payments, and for    *)
(* any amounts: no invoice is paid twice and its status tells what has been *)
(* paid on it; all of a payment is spread, oldest invoice first; and what a *)
(* client has been asked for and has paid is an account as in Receivables.  *)
(***************************************************************************)
EXTENDS Finance, SumTheorems

PaymentSteps == {"idle", "bill", "found", "locked", "allocate"}

LEMMA Initially == Init => FinanceInv
BY FinanceAssumption DEF Init, FinanceInv, TypeOK, PaymentsWellFormed, HeldOnce, Holds,
   NeverOverAllocated, StatusTellsBalance, NoInvoice, Invoices

(* What PaymentsWellFormed says of one request. *)
WellFormed(r) ==
    /\ pc[r] \in {"found", "locked", "allocate"} => client[r] \in Clients /\ amount[r] > 0
    /\ pc[r] \in {"idle", "bill"} => found[r] = {}
    /\ \A i \in found[r] :
          /\ invoice[i].client = client[r]
          /\ pc[r] = "allocate" => known[r][i] = paid[i]

LEMMA OfOneRequest == PaymentsWellFormed <=> \A r \in Requests : WellFormed(r)
BY DEF PaymentsWellFormed, WellFormed

(* A request that ends forgets everything and leaves the others as they     *)
(* were.                                                                    *)
LEMMA FinishKeeps ==
    ASSUME FinanceInv, NEW r \in Requests, Finish(r)
    PROVE  /\ pc' \in [Requests -> PaymentSteps]
           /\ client' \in [Requests -> Clients \cup {NoClient}]
           /\ order' \in [Requests -> Orders \cup {NoOrder}]
           /\ amount' \in [Requests -> Nat]
           /\ found' \in [Requests -> SUBSET Invoices]
           /\ known' \in [Requests -> [Invoices -> Nat]]
           /\ pc'[r] = "idle" /\ found'[r] = {}
           /\ \A s \in Requests \ {r} :
                 /\ pc'[s] = pc[s] /\ client'[s] = client[s] /\ amount'[s] = amount[s]
                 /\ found'[s] = found[s] /\ known'[s] = known[s]
<1>1. [i \in Invoices |-> 0] \in [Invoices -> Nat]
  OBVIOUS
<1> QED BY <1>1 DEF FinanceInv, TypeOK, Finish, PaymentSteps

(* Locks stay with one request when a request ends. *)
LEMMA FinishKeepsHeld ==
    ASSUME FinanceInv, NEW r \in Requests, Finish(r)
    PROVE  HeldOnce'
<1>1. SUFFICES ASSUME NEW s \in Requests, NEW t \in Requests, s # t
               PROVE  Holds(s)' \cap Holds(t)' = {}
  BY DEF HeldOnce
<1>2. Holds(s) \cap Holds(t) = {}
  BY <1>1 DEF FinanceInv, HeldOnce
<1>3. \A q \in Requests : Holds(q)' \subseteq Holds(q)
  BY FinishKeeps DEF Holds
<1> QED BY <1>1, <1>2, <1>3

(* An id that is inserted belongs to no payment yet. *)
LEMMA InsertIsNew ==
    ASSUME FinanceInv, NEW i \in Invoices, invoice[i] = NoInvoice
    PROVE  paid[i] = 0 /\ \A r \in Requests : i \notin found[r]
<1>1. paid[i] \in Nat /\ ~(paid[i] > 0)
  BY FinanceAssumption DEF FinanceInv, TypeOK, NeverOverAllocated, NoInvoice
<1>2. ASSUME NEW r \in Requests, i \in found[r] PROVE FALSE
  <2>1. pc[r] \in {"found", "locked", "allocate"} /\ invoice[i].client = client[r]
    BY <1>2 DEF FinanceInv, TypeOK, PaymentsWellFormed
  <2>2. client[r] \in Clients
    BY <2>1 DEF FinanceInv, PaymentsWellFormed
  <2> QED BY <2>1, <2>2, FinanceAssumption DEF NoInvoice
<1> QED BY <1>1, <1>2

(* What an insertion does to the tables. *)
LEMMA InsertKeeps ==
    ASSUME FinanceInv, UNCHANGED paid,
           NEW i \in Invoices, NEW c \in Clients \cup {NoClient}, NEW o \in Orders \cup {NoOrder},
           NEW d \in Dates, NEW n \in Int, Insert(i, c, o, d, n)
    PROVE  /\ invoice' \in [Invoices -> Invoice \cup {NoInvoice}]
           /\ NeverOverAllocated' /\ StatusTellsBalance'
           /\ \A r \in Requests : \A j \in found[r] : invoice'[j] = invoice[j]
<1> DEFINE new == [client |-> c, order |-> o, date |-> d, total |-> n, status |-> "Open"]
<1>1. invoice' = [invoice EXCEPT ![i] = new] /\ invoice[i] = NoInvoice
  BY DEF Insert
<1>2. new \in Invoice
  BY DEF Invoice, InvoiceStatus
<1>3. invoice \in [Invoices -> Invoice \cup {NoInvoice}] /\ paid \in [Invoices -> Nat]
  BY DEF FinanceInv, TypeOK
<1>4. paid[i] = 0 /\ \A r \in Requests : i \notin found[r]
  BY <1>1, InsertIsNew
<1>5. invoice' \in [Invoices -> Invoice \cup {NoInvoice}]
  BY <1>1, <1>2, <1>3
<1>6. \A j \in Invoices : j # i => invoice'[j] = invoice[j]
  BY <1>1, <1>3
<1>7. invoice'[i].status = "Open" /\ invoice'[i].total = n
  BY <1>1, <1>3
<1>8. NeverOverAllocated'
  BY <1>4, <1>6, <1>3 DEF FinanceInv, NeverOverAllocated
<1>9. StatusTellsBalance'
  BY <1>4, <1>6, <1>7, <1>3 DEF FinanceInv, StatusTellsBalance
<1>10. \A r \in Requests : \A j \in found[r] : invoice'[j] = invoice[j]
  BY <1>4, <1>6 DEF FinanceInv, TypeOK
<1> QED BY <1>5, <1>8, <1>9, <1>10

-----------------------------------------------------------------------------
(* A payment takes from an invoice at most its balance, and only from those *)
(* that it has found.                                                       *)
LEMMA TakeWithinBalance ==
    ASSUME NEW r \in Requests, NEW i \in Invoices,
           invoice[i].total \in Int, known[r][i] \in Nat
    PROVE  /\ Take(r, i) \in Nat
           /\ Take(r, i) > 0 => i \in Payable(r) /\ Take(r, i) <= Balance(r, i)
<1>1. Balance(r, i) \in Int
  BY DEF Balance
<1>2. i \in Payable(r) => Balance(r, i) > 0
  BY DEF Payable
<1>3. CASE i \in Payable(r) /\ Remaining(r, i) \in 1..Balance(r, i)
  <2>1. Take(r, i) = Remaining(r, i)
    BY <1>3, <1>1 DEF Take
  <2> QED BY <2>1, <1>3, <1>1
<1>4. CASE i \in Payable(r) /\ Remaining(r, i) > Balance(r, i) /\ Remaining(r, i) \notin 1..Balance(r, i)
  <2>1. Take(r, i) = Balance(r, i)
    BY <1>4 DEF Take
  <2> QED BY <2>1, <1>4, <1>1, <1>2
<1>5. CASE /\ ~(i \in Payable(r) /\ Remaining(r, i) > Balance(r, i))
           /\ ~(i \in Payable(r) /\ Remaining(r, i) \in 1..Balance(r, i))
  <2>1. Take(r, i) = 0
    BY <1>5 DEF Take
  <2> QED BY <2>1
<1> QED BY <1>3, <1>4, <1>5

LEMMA PayCommitKeeps ==
    ASSUME FinanceInv, NEW r \in Requests, PayCommit(r)
    PROVE  FinanceInv'
<1>1. /\ invoice \in [Invoices -> Invoice \cup {NoInvoice}] /\ paid \in [Invoices -> Nat]
      /\ received \in [Clients -> Nat] /\ delivered \in [Orders -> Nat]
      /\ known[r] \in [Invoices -> Nat] /\ amount[r] \in Nat /\ found[r] \subseteq Invoices
  BY DEF FinanceInv, TypeOK
<1>2. \A i \in Invoices : invoice[i].total \in Int
  BY <1>1 DEF Invoice, NoInvoice
<1>3. /\ pc[r] = "allocate"
      /\ received' = [received EXCEPT ![client[r]] = @ + amount[r]]
      /\ paid' = [i \in Invoices |-> paid[i] + Take(r, i)]
      /\ invoice' = [i \in Invoices |->
             IF Take(r, i) > 0 THEN [invoice[i] EXCEPT !.status = StatusAfter(r, i)] ELSE invoice[i]]
      /\ delivered' = delivered /\ Finish(r)
  BY DEF PayCommit
<1>4. /\ client[r] \in Clients
      /\ \A i \in found[r] : known[r][i] = paid[i] /\ invoice[i].client = client[r]
  BY <1>3 DEF FinanceInv, PaymentsWellFormed
<1>5. ASSUME NEW i \in Invoices
      PROVE  /\ Take(r, i) \in Nat
             /\ Take(r, i) > 0 =>
                  /\ i \in found[r] /\ Take(r, i) + paid[i] <= invoice[i].total
                  /\ StatusAfter(r, i) =
                        IF invoice[i].total - Take(r, i) - paid[i] <= 0 THEN "Paid" ELSE "PartiallyPaid"
  <2>1. Take(r, i) \in Nat /\ (Take(r, i) > 0 => i \in Payable(r) /\ Take(r, i) <= Balance(r, i))
    BY <1>1, <1>2, TakeWithinBalance
  <2>2. ASSUME Take(r, i) > 0 PROVE i \in found[r] /\ known[r][i] = paid[i]
    BY <2>1, <2>2, <1>4 DEF Payable
  <2>3. ASSUME Take(r, i) > 0 PROVE Take(r, i) + paid[i] <= invoice[i].total
    BY <2>1, <2>2, <2>3, <1>1, <1>2 DEF Balance
  <2> QED BY <2>1, <2>2, <2>3 DEF StatusAfter
<1>6. ASSUME NEW i \in Invoices, Take(r, i) > 0
      PROVE  /\ invoice[i] \in Invoice
             /\ invoice'[i] = [invoice[i] EXCEPT !.status = StatusAfter(r, i)]
             /\ StatusAfter(r, i) \in {"Paid", "PartiallyPaid"}
  <2>1. i \in found[r]
    BY <1>5, <1>6
  <2>2. invoice[i] # NoInvoice
    BY <2>1, <1>4, FinanceAssumption DEF NoInvoice
  <2> QED BY <2>2, <1>1, <1>3, <1>6 DEF StatusAfter
<1>7. ASSUME NEW i \in Invoices
      PROVE  /\ invoice'[i] \in Invoice \cup {NoInvoice}
             /\ invoice'[i].total = invoice[i].total /\ invoice'[i].client = invoice[i].client
             /\ invoice'[i].status =
                   IF Take(r, i) > 0 THEN StatusAfter(r, i) ELSE invoice[i].status
  <2>1. CASE Take(r, i) > 0
    BY <2>1, <1>6 DEF Invoice, InvoiceStatus
  <2>2. CASE ~(Take(r, i) > 0)
    BY <2>2, <1>1, <1>3
  <2> QED BY <2>1, <2>2
<1>8. /\ invoice' \in [Invoices -> Invoice \cup {NoInvoice}]
      /\ paid' \in [Invoices -> Nat] /\ received' \in [Clients -> Nat]
  BY <1>1, <1>3, <1>4, <1>5, <1>7
<1>9. TypeOK'
  BY <1>8, <1>1, <1>3, FinishKeeps DEF TypeOK, PaymentSteps
<1>10. HeldOnce'
  BY <1>3, FinishKeepsHeld
<1>11. PaymentsWellFormed'
  <2>1. SUFFICES ASSUME NEW s \in Requests PROVE WellFormed(s)'
    BY DEF PaymentsWellFormed, WellFormed
  <2>2. CASE s = r
    BY <2>2, <1>3, FinishKeeps DEF WellFormed
  <2>3. CASE s # r
    <3>1. /\ pc'[s] = pc[s] /\ client'[s] = client[s] /\ amount'[s] = amount[s]
          /\ found'[s] = found[s] /\ known'[s] = known[s]
      BY <2>3, <1>3, FinishKeeps
    <3>2. found[s] \subseteq Invoices
      BY DEF FinanceInv, TypeOK
    <3>3. pc[s] = "allocate" => found[s] \cap found[r] = {}
      BY <2>3, <1>3 DEF FinanceInv, HeldOnce, Holds
    <3>4. ASSUME NEW i \in found[s], pc[s] = "allocate" PROVE paid'[i] = paid[i]
      <4>1. ~(Take(r, i) > 0) /\ Take(r, i) \in Nat
        BY <3>2, <3>3, <3>4, <1>5
      <4> QED BY <4>1, <3>2, <3>4, <1>1, <1>3
    <3>5. \A i \in found[s] : invoice'[i].client = invoice[i].client
      BY <3>2, <1>7
    <3>6. WellFormed(s)
      BY OfOneRequest DEF FinanceInv
    <3> QED BY <3>1, <3>4, <3>5, <3>6 DEF WellFormed
  <2> QED BY <2>2, <2>3
<1>12. NeverOverAllocated'
  <2>1. SUFFICES ASSUME NEW i \in Invoices, paid'[i] > 0
                 PROVE  paid'[i] <= invoice'[i].total /\ invoice'[i].client \in Clients
    BY DEF NeverOverAllocated
  <2>2. CASE Take(r, i) > 0
    <3>1. paid'[i] = paid[i] + Take(r, i) /\ paid[i] \in Nat /\ Take(r, i) \in Nat
      BY <1>1, <1>3, <1>5
    <3>2. Take(r, i) + paid[i] <= invoice[i].total /\ invoice[i].total \in Int
      BY <2>2, <1>2, <1>5
    <3>3. invoice'[i].total = invoice[i].total /\ invoice'[i].client = invoice[i].client
      BY <1>7
    <3>4. invoice[i].client \in Clients
      BY <2>2, <1>4, <1>5
    <3>5. paid'[i] <= invoice'[i].total
      BY <3>1, <3>2, <3>3
    <3> QED BY <3>3, <3>4, <3>5
  <2>3. CASE ~(Take(r, i) > 0)
    BY <2>1, <2>3, <1>1, <1>3, <1>5, <1>7 DEF FinanceInv, NeverOverAllocated
  <2> QED BY <2>2, <2>3
<1>13. StatusTellsBalance'
  <2>1. SUFFICES ASSUME NEW i \in Invoices, invoice'[i].total > 0
                 PROVE  /\ invoice'[i].status = "Open" <=> paid'[i] = 0
                        /\ invoice'[i].status = "Paid" <=> paid'[i] = invoice'[i].total
    BY DEF StatusTellsBalance
  <2>2. paid'[i] = paid[i] + Take(r, i) /\ paid[i] \in Nat /\ invoice[i].total \in Int
    BY <1>1, <1>2, <1>3
  <2>3. CASE Take(r, i) > 0
    BY <2>2, <2>3, <1>5, <1>7
  <2>4. CASE ~(Take(r, i) > 0)
    BY <2>1, <2>2, <2>4, <1>5, <1>7 DEF FinanceInv, StatusTellsBalance
  <2> QED BY <2>3, <2>4
<1> QED BY <1>9, <1>10, <1>11, <1>12, <1>13 DEF FinanceInv

-----------------------------------------------------------------------------
(* A step that moves no money and changes no invoice: the tables stay, and  *)
(* the request keeps the form it needs.                                     *)
LEMMA PayFindKeeps ==
    ASSUME FinanceInv, NEW r \in Requests, NEW c \in Clients, NEW n \in 1..MaxMoney, PayFind(r, c, n)
    PROVE  FinanceInv'
<1>1. TypeOK'
  BY FinanceAssumption DEF FinanceInv, TypeOK, PayFind, tables
<1>2. \A s \in Requests : Holds(s)' = Holds(s)
  BY DEF FinanceInv, TypeOK, PayFind, Holds
<1>3. HeldOnce'
  BY <1>2 DEF FinanceInv, HeldOnce
<1>4. PaymentsWellFormed'
  <2>1. ASSUME NEW s \in Requests PROVE WellFormed(s)'
    <3>1. WellFormed(s)
      BY OfOneRequest DEF FinanceInv
    <3>2. CASE s = r
      BY <3>1, <3>2 DEF FinanceInv, TypeOK, WellFormed, PayFind, tables
    <3>3. CASE s # r
      BY <3>1, <3>3 DEF FinanceInv, TypeOK, WellFormed, PayFind, tables
    <3> QED BY <3>2, <3>3
  <2> QED BY <2>1 DEF PaymentsWellFormed, WellFormed
<1>5. NeverOverAllocated' /\ StatusTellsBalance'
  BY DEF FinanceInv, PayFind, tables, NeverOverAllocated, StatusTellsBalance
<1> QED BY <1>1, <1>3, <1>4, <1>5 DEF FinanceInv

LEMMA PayLockKeeps ==
    ASSUME FinanceInv, NEW r \in Requests, PayLock(r)
    PROVE  FinanceInv'
<1>1. TypeOK'
  BY DEF FinanceInv, TypeOK, PayLock, tables
<1>2. /\ Holds(r)' = found[r]
      /\ \A s \in Requests \ {r} : Holds(s)' = Holds(s) /\ found[r] \cap Holds(s) = {}
  BY DEF FinanceInv, TypeOK, PayLock, Holds
<1>3. HeldOnce'
  BY <1>2 DEF FinanceInv, HeldOnce
<1>4. PaymentsWellFormed'
  <2>1. ASSUME NEW s \in Requests PROVE WellFormed(s)'
    <3>1. WellFormed(s)
      BY OfOneRequest DEF FinanceInv
    <3>2. CASE s = r
      BY <3>1, <3>2 DEF FinanceInv, TypeOK, WellFormed, PayLock, tables
    <3>3. CASE s # r
      BY <3>1, <3>3 DEF FinanceInv, TypeOK, WellFormed, PayLock, tables
    <3> QED BY <3>2, <3>3
  <2> QED BY <2>1 DEF PaymentsWellFormed, WellFormed
<1>5. NeverOverAllocated' /\ StatusTellsBalance'
  BY DEF FinanceInv, PayLock, tables, NeverOverAllocated, StatusTellsBalance
<1> QED BY <1>1, <1>3, <1>4, <1>5 DEF FinanceInv

LEMMA PayReadKeeps ==
    ASSUME FinanceInv, NEW r \in Requests, PayRead(r)
    PROVE  FinanceInv'
<1>1. /\ pc[r] = "locked" /\ pc' = [pc EXCEPT ![r] = "allocate"] /\ found' = found
      /\ known' = [known EXCEPT ![r] = [i \in Invoices |-> IF i \in found[r] THEN paid[i] ELSE 0]]
      /\ client' = client /\ order' = order /\ amount' = amount /\ delivered' = delivered
      /\ invoice' = invoice /\ paid' = paid /\ received' = received
  BY DEF PayRead, tables
<1>2. [i \in Invoices |-> IF i \in found[r] THEN paid[i] ELSE 0] \in [Invoices -> Nat]
  BY DEF FinanceInv, TypeOK
<1>3. TypeOK'
  BY <1>1, <1>2 DEF FinanceInv, TypeOK
<1>4. \A s \in Requests : Holds(s)' = Holds(s)
  BY <1>1 DEF FinanceInv, TypeOK, Holds
<1>5. HeldOnce'
  BY <1>4 DEF FinanceInv, HeldOnce
<1>6. ASSUME NEW s \in Requests PROVE WellFormed(s)'
  <2>1. WellFormed(s) /\ found[s] \subseteq Invoices
    BY OfOneRequest DEF FinanceInv, TypeOK
  <2>2. CASE s = r
    BY <2>1, <2>2, <1>1 DEF FinanceInv, TypeOK, WellFormed
  <2>3. CASE s # r
    BY <2>1, <2>3, <1>1 DEF FinanceInv, TypeOK, WellFormed
  <2> QED BY <2>2, <2>3
<1>7. PaymentsWellFormed'
  BY <1>6 DEF PaymentsWellFormed, WellFormed
<1>8. NeverOverAllocated' /\ StatusTellsBalance'
  BY <1>1 DEF FinanceInv, NeverOverAllocated, StatusTellsBalance
<1> QED BY <1>3, <1>5, <1>7, <1>8 DEF FinanceInv

LEMMA BillReadKeeps ==
    ASSUME FinanceInv, NEW r \in Requests, NEW o \in Orders, BillRead(r, o)
    PROVE  FinanceInv'
<1>1. TypeOK'
  BY FinanceAssumption DEF FinanceInv, TypeOK, BillRead, tables
<1>2. \A s \in Requests : Holds(s)' = Holds(s)
  BY DEF FinanceInv, TypeOK, BillRead, Holds
<1>3. HeldOnce'
  BY <1>2 DEF FinanceInv, HeldOnce
<1>4. PaymentsWellFormed'
  <2>1. ASSUME NEW s \in Requests PROVE WellFormed(s)'
    <3>1. WellFormed(s)
      BY OfOneRequest DEF FinanceInv
    <3>2. CASE s = r
      BY <3>1, <3>2 DEF FinanceInv, TypeOK, WellFormed, BillRead, tables
    <3>3. CASE s # r
      BY <3>1, <3>3 DEF FinanceInv, TypeOK, WellFormed, BillRead, tables
    <3> QED BY <3>2, <3>3
  <2> QED BY <2>1 DEF PaymentsWellFormed, WellFormed
<1>5. NeverOverAllocated' /\ StatusTellsBalance'
  BY DEF FinanceInv, BillRead, tables, NeverOverAllocated, StatusTellsBalance
<1> QED BY <1>1, <1>3, <1>4, <1>5 DEF FinanceInv

LEMMA BillInsertKeeps ==
    ASSUME FinanceInv, NEW r \in Requests, NEW i \in Invoices, NEW d \in Dates, BillInsert(r, i, d)
    PROVE  FinanceInv'
<1>1. /\ Insert(i, client[r], order[r], d, amount[r]) /\ Finish(r)
      /\ paid' = paid /\ received' = received /\ delivered' = delivered
  BY DEF BillInsert
<1>2. client[r] \in Clients \cup {NoClient} /\ order[r] \in Orders \cup {NoOrder} /\ amount[r] \in Int
  BY DEF FinanceInv, TypeOK
<1>3. /\ invoice' \in [Invoices -> Invoice \cup {NoInvoice}]
      /\ NeverOverAllocated' /\ StatusTellsBalance'
      /\ \A s \in Requests : \A j \in found[s] : invoice'[j] = invoice[j]
  BY <1>1, <1>2, InsertKeeps
<1>4. TypeOK'
  BY <1>1, <1>3, FinishKeeps DEF FinanceInv, TypeOK, PaymentSteps
<1>5. HeldOnce'
  BY <1>1, FinishKeepsHeld
<1>6. PaymentsWellFormed'
  <2>1. SUFFICES ASSUME NEW s \in Requests
                 PROVE  WellFormed(s)'
    BY DEF PaymentsWellFormed, WellFormed
  <2>2. CASE s = r
    BY <2>2, <1>1, FinishKeeps DEF WellFormed
  <2>3. CASE s # r
    <3>1. /\ pc'[s] = pc[s] /\ client'[s] = client[s] /\ amount'[s] = amount[s]
          /\ found'[s] = found[s] /\ known'[s] = known[s]
      BY <2>3, <1>1, FinishKeeps
    <3>2. WellFormed(s)
      BY OfOneRequest DEF FinanceInv
    <3> QED BY <3>1, <3>2, <1>1, <1>3 DEF WellFormed
  <2> QED BY <2>2, <2>3
<1> QED BY <1>3, <1>4, <1>5, <1>6 DEF FinanceInv

LEMMA CreateManualInvoiceKeeps ==
    ASSUME FinanceInv, NEW i \in Invoices, NEW c \in Clients \cup {NoClient}, NEW d \in Dates,
           NEW n \in -MaxMoney..MaxMoney, CreateManualInvoice(i, c, d, n)
    PROVE  FinanceInv'
<1>1. Insert(i, c, NoOrder, d, n) /\ UNCHANGED <<paid, received, delivered, private>>
  BY DEF CreateManualInvoice
<1>2. n \in Int
  BY FinanceAssumption
<1>3. /\ invoice' \in [Invoices -> Invoice \cup {NoInvoice}]
      /\ NeverOverAllocated' /\ StatusTellsBalance'
      /\ \A s \in Requests : \A j \in found[s] : invoice'[j] = invoice[j]
  BY <1>1, <1>2, InsertKeeps
<1>4. TypeOK'
  BY <1>1, <1>3 DEF FinanceInv, TypeOK, private
<1>5. HeldOnce'
  BY <1>1 DEF FinanceInv, HeldOnce, Holds, private
<1>6. PaymentsWellFormed'
  BY <1>1, <1>3 DEF FinanceInv, PaymentsWellFormed, private
<1> QED BY <1>3, <1>4, <1>5, <1>6 DEF FinanceInv

(* A request that ends without a trace. *)
LEMMA EndKeeps ==
    ASSUME FinanceInv, NEW r \in Requests, Finish(r), UNCHANGED <<tables, delivered>>
    PROVE  FinanceInv'
<1>1. TypeOK'
  BY FinishKeeps DEF FinanceInv, TypeOK, PaymentSteps, tables
<1>2. HeldOnce'
  BY FinishKeepsHeld
<1>3. PaymentsWellFormed'
  <2>1. ASSUME NEW s \in Requests PROVE WellFormed(s)'
    <3>1. WellFormed(s)
      BY OfOneRequest DEF FinanceInv
    <3> QED BY <3>1, FinishKeeps DEF WellFormed, tables
  <2> QED BY <2>1 DEF PaymentsWellFormed, WellFormed
<1>4. NeverOverAllocated' /\ StatusTellsBalance'
  BY DEF FinanceInv, tables, NeverOverAllocated, StatusTellsBalance
<1> QED BY <1>1, <1>2, <1>3, <1>4 DEF FinanceInv

LEMMA DeliverKeeps ==
    ASSUME FinanceInv, NEW o \in Orders, Deliver(o)
    PROVE  FinanceInv'
<1>1. TypeOK'
  BY DEF FinanceInv, TypeOK, Deliver, tables, private
<1>2. HeldOnce' /\ PaymentsWellFormed' /\ NeverOverAllocated' /\ StatusTellsBalance'
  BY DEF FinanceInv, Deliver, tables, private, HeldOnce, Holds, PaymentsWellFormed,
     NeverOverAllocated, StatusTellsBalance
<1> QED BY <1>1, <1>2 DEF FinanceInv

LEMMA StepKeeps ==
    ASSUME FinanceInv, [Next]_vars
    PROVE  FinanceInv'
<1>1. CASE UNCHANGED vars
  BY <1>1 DEF FinanceInv, TypeOK, HeldOnce, Holds, PaymentsWellFormed, NeverOverAllocated,
     StatusTellsBalance, vars, tables, private
<1>2. ASSUME NEW o \in Orders, Deliver(o) PROVE FinanceInv'
  BY <1>2, DeliverKeeps
<1>3. ASSUME NEW i \in Invoices, NEW c \in Clients \cup {NoClient}, NEW d \in Dates,
             NEW n \in -MaxMoney..MaxMoney, CreateManualInvoice(i, c, d, n)
      PROVE  FinanceInv'
  BY <1>3, CreateManualInvoiceKeeps
<1>4. ASSUME NEW r \in Requests, NEW o \in Orders, BillRead(r, o) PROVE FinanceInv'
  BY <1>4, BillReadKeeps
<1>5. ASSUME NEW r \in Requests, NEW i \in Invoices, NEW d \in Dates, BillInsert(r, i, d)
      PROVE  FinanceInv'
  BY <1>5, BillInsertKeeps
<1>6. ASSUME NEW r \in Requests, NEW c \in Clients, NEW n \in 1..MaxMoney, PayFind(r, c, n)
      PROVE  FinanceInv'
  BY <1>6, PayFindKeeps
<1>7. ASSUME NEW r \in Requests, PayLock(r) PROVE FinanceInv'
  BY <1>7, PayLockKeeps
<1>8. ASSUME NEW r \in Requests, PayRead(r) PROVE FinanceInv'
  BY <1>8, PayReadKeeps
<1>9. ASSUME NEW r \in Requests, PayCommit(r) PROVE FinanceInv'
  BY <1>9, PayCommitKeeps
<1>10. ASSUME NEW r \in Requests, PayRefused(r) \/ Rollback(r) PROVE FinanceInv'
  BY <1>10, EndKeeps DEF PayRefused, Rollback
<1> QED
  BY <1>1, <1>2, <1>3, <1>4, <1>5, <1>6, <1>7, <1>8, <1>9, <1>10 DEF Next

(* The tables and the payments in progress fit together in every state.     *)
THEOREM FinanceInvariance == Spec => []FinanceInv
<1>1. Init => FinanceInv
  BY Initially
<1>2. FinanceInv /\ [Next]_vars => FinanceInv'
  BY StepKeeps
<1> QED BY <1>1, <1>2, PTL DEF Spec

(* No invoice is paid twice: what createPayment computes from locked        *)
(* invoices stays within their totals, whatever payments overlap.           *)
THEOREM NoDoubleAllocation == Spec => []NeverOverAllocated
<1>1. FinanceInv => NeverOverAllocated
  BY DEF FinanceInv
<1> QED BY <1>1, FinanceInvariance, PTL

(* The status of an invoice is that of its balance, although each payment   *)
(* computes it from what it has read before.                                *)
THEOREM StatusIsRight == Spec => []StatusTellsBalance
<1>1. FinanceInv => StatusTellsBalance
  BY DEF FinanceInv
<1> QED BY <1>1, FinanceInvariance, PTL

-----------------------------------------------------------------------------
(* All of a payment is spread.                                              *)

LEMMA InvoicesFinite == IsFiniteSet(Invoices) /\ \A T \in SUBSET Invoices : IsFiniteSet(T)
<1>1. IsFiniteSet(Invoices)
  BY FinanceAssumption, FS_Interval DEF Invoices
<1> QED BY <1>1, FS_Subset

(* The tables, as the lemmas on sums use them.                              *)
LEMMA Amounts ==
    ASSUME FinanceInv, NEW i \in Invoices
    PROVE  /\ invoice[i].total \in Int /\ invoice[i].date \in Int /\ paid[i] \in Nat
           /\ \A r \in Requests : known[r][i] \in Nat /\ Balance(r, i) \in Int
<1>1. invoice[i] \in Invoice \cup {NoInvoice} /\ paid[i] \in Nat
  BY DEF FinanceInv, TypeOK
<1>2. invoice[i].total \in Int /\ invoice[i].date \in Int
  BY <1>1, FinanceAssumption DEF Invoice, NoInvoice, Dates
<1>3. \A r \in Requests : known[r][i] \in Nat
  BY DEF FinanceInv, TypeOK
<1> QED BY <1>1, <1>2, <1>3 DEF Balance

LEMMA DatesAreAnOrder ==
    ASSUME FinanceInv, NEW r \in Requests
    PROVE  StrictOrder([i \in Payable(r) |-> {j \in Payable(r) : Before(j, i)}], Payable(r))
<1>1. Payable(r) \subseteq Invoices
  BY DEF Payable, FinanceInv, TypeOK
<1>2. \A i \in Payable(r) : invoice[i].date \in Int /\ i \in Int
  BY <1>1, Amounts, FinanceAssumption DEF Invoices
<1>3. \A i \in Payable(r) : ~Before(i, i)
  BY <1>2 DEF Before
<1>4. \A i, j, k \in Payable(r) : Before(k, j) /\ Before(j, i) => Before(k, i)
  BY <1>2 DEF Before
<1>5. \A i, j \in Payable(r) : i # j => Before(i, j) \/ Before(j, i)
  BY <1>2 DEF Before
<1> QED BY <1>3, <1>4, <1>5 DEF StrictOrder

LEMMA PaymentIsSpread ==
    ASSUME FinanceInv, NEW r \in Requests, Covered(r)
    PROVE  SumFunctionOnSet([i \in Invoices |-> Take(r, i)], Payable(r)) = amount[r]
<1>1. PICK S \in SUBSET Invoices : S = Payable(r)
  BY DEF Payable, FinanceInv, TypeOK
<1>2. PICK pre : pre = [i \in S |-> {j \in S : Before(j, i)}]
  OBVIOUS
<1>3. PICK bal : bal = [i \in Invoices |-> Balance(r, i)]
  OBVIOUS
<1>4. PICK take : take = [i \in Invoices |-> Take(r, i)]
  OBVIOUS
<1>5. PICK n \in Nat : n = amount[r]
  BY DEF FinanceInv, TypeOK
<1>6. IsFiniteSet(S) /\ StrictOrder(pre, S)
  BY <1>1, <1>2, InvoicesFinite, DatesAreAnOrder, Zenon
<1>7. \A i \in S : bal[i] \in Nat /\ bal[i] > 0 /\ bal[i] = Balance(r, i)
  BY <1>1, <1>3, Amounts DEF Payable
<1>8. ASSUME NEW i \in S
      PROVE  Remaining(r, i) = n - SumFunctionOnSet(bal, pre[i]) /\ pre[i] \in SUBSET S
  <2>1. pre[i] = {j \in Payable(r) : Before(j, i)} /\ pre[i] \in SUBSET S
    BY <1>1, <1>2
  <2> QED BY <2>1, <1>3, <1>5, Zenon DEF Remaining
<1>9. ASSUME NEW i \in S
      PROVE  take[i] = LET remaining == n - SumFunctionOnSet(bal, pre[i]) IN
                       IF remaining <= 0 THEN 0 ELSE IF remaining > bal[i] THEN bal[i] ELSE remaining
  <2>1. PICK rest \in Int : rest = Remaining(r, i)
    <3>1. SumFunctionOnSet(bal, pre[i]) \in Nat
      BY <1>6, <1>7, <1>8, SumOfSome
    <3> QED BY <3>1, <1>8
  <2>2. take[i] = CASE rest \in 1..bal[i] -> rest [] rest > bal[i] -> bal[i] [] OTHER -> 0
    <3>1. take[i] = Take(r, i) /\ i \in Payable(r) /\ Balance(r, i) = bal[i]
      BY <1>1, <1>4, <1>7
    <3>2. CASE rest \in 1..bal[i]
      <4>1. Take(r, i) = rest
        BY <2>1, <3>1, <3>2, <1>7 DEF Take
      <4> QED BY <3>1, <3>2, <4>1, <1>7
    <3>3. CASE rest > bal[i]
      <4>1. Take(r, i) = bal[i]
        BY <2>1, <3>1, <3>3, <1>7 DEF Take
      <4> QED BY <3>1, <3>3, <4>1, <1>7
    <3>4. CASE rest \notin 1..bal[i] /\ ~(rest > bal[i])
      <4>1. Take(r, i) = 0
        BY <2>1, <3>1, <3>4, <1>7 DEF Take
      <4> QED BY <3>1, <3>4, <4>1, <1>7
    <3> QED BY <3>2, <3>3, <3>4
  <2> QED BY <2>1, <2>2, <1>7, <1>8
<1>10. n <= SumFunctionOnSet(bal, S)
  BY <1>1, <1>3, <1>5, Zenon DEF Covered
<1>11. SumFunctionOnSet(take, S)
         = IF n <= SumFunctionOnSet(bal, S) THEN n ELSE SumFunctionOnSet(bal, S)
  BY <1>6, <1>7, <1>9, GreedyTotal
<1>12. SumFunctionOnSet(take, S) = n
  BY <1>10, <1>11
<1> QED BY <1>1, <1>4, <1>5, <1>12, Zenon

(* What a step does to the allocations to one client's invoices.            *)
Spent(c) == received[c] = SumFunctionOnSet(paid, Of(c))

LEMMA OfIsFinite == \A c : Of(c) \subseteq Invoices /\ IsFiniteSet(Of(c))
<1>1. \A c : Of(c) \subseteq Invoices
  BY DEF Of
<1> QED BY <1>1, InvoicesFinite

LEMMA QuietKeepsSpent ==
    ASSUME NEW c \in Clients, Spent(c), UNCHANGED tables
    PROVE  Spent(c)'
BY DEF Spent, Of, tables

(* An invoice that is inserted has nothing paid.                            *)
LEMMA InsertKeepsSpent ==
    ASSUME FinanceInv, NEW c \in Clients, Spent(c), UNCHANGED <<paid, received>>,
           NEW i \in Invoices, NEW d, NEW o, NEW day, NEW n, Insert(i, d, o, day, n)
    PROVE  Spent(c)'
<1>1. invoice[i] = NoInvoice /\ \A j \in Invoices : j # i => invoice'[j] = invoice[j]
  BY DEF Insert, FinanceInv, TypeOK
<1>2. PICK old \in SUBSET Invoices : old = Of(c)
  BY OfIsFinite
<1>3. PICK new \in SUBSET Invoices : new = Of(c)'
  BY DEF Of
<1>4. old \in SUBSET new /\ new \subseteq old \cup {i}
  BY <1>1, <1>2, <1>3, FinanceAssumption DEF Of, NoInvoice
<1>5. paid[i] = 0 /\ \A j \in Invoices : paid[j] \in Int
  BY <1>1, InsertIsNew DEF FinanceInv, TypeOK
<1>6. SumFunctionOnSet(paid, new) = SumFunctionOnSet(paid, old)
  BY <1>4, <1>5, InvoicesFinite, SumSubset
<1>7. paid' = paid /\ received' = received
  OBVIOUS
<1> QED BY <1>2, <1>3, <1>6, <1>7, Zenon DEF Spent

LEMMA PayCommitKeepsSpent ==
    ASSUME FinanceInv, NEW r \in Requests, PayCommit(r), NEW c \in Clients, Spent(c)
    PROVE  Spent(c)'
<1>1. PICK take : take = [i \in Invoices |-> Take(r, i)]
  OBVIOUS
<1>2. PICK S \in SUBSET Invoices : S = Of(c)
  BY OfIsFinite
<1>3. /\ Covered(r) /\ pc[r] = "allocate"
      /\ received' = [received EXCEPT ![client[r]] = @ + amount[r]]
      /\ paid' = [i \in Invoices |-> paid[i] + Take(r, i)]
      /\ invoice' = [i \in Invoices |->
             IF Take(r, i) > 0 THEN [invoice[i] EXCEPT !.status = StatusAfter(r, i)] ELSE invoice[i]]
  BY DEF PayCommit
<1>4. ASSUME NEW i \in Invoices
      PROVE  take[i] \in Nat /\ paid[i] \in Nat /\ (i \notin Payable(r) => take[i] = 0)
  <2>1. Take(r, i) \in Nat /\ (Take(r, i) > 0 => i \in Payable(r))
    BY Amounts, TakeWithinBalance
  <2> QED BY <2>1, <1>1, Amounts
<1>5. \A i \in Invoices : invoice'[i].client = invoice[i].client
  <2>1. \A i \in Invoices : invoice[i] \in Invoice \cup {NoInvoice}
    BY DEF FinanceInv, TypeOK
  <2> QED BY <2>1, <1>3 DEF Invoice, NoInvoice
<1>6. Of(c)' = S
  BY <1>2, <1>5 DEF Of
<1>7. SumFunctionOnSet(paid', S) = SumFunctionOnSet(paid, S) + SumFunctionOnSet(take, S)
  <2>1. \A i \in S : paid[i] \in Int /\ take[i] \in Int /\ paid'[i] = paid[i] + take[i]
    BY <1>1, <1>3, <1>4
  <2> QED BY <2>1, InvoicesFinite, SumPlus
<1>8. client[r] \in Clients /\ \A i \in Payable(r) : i \in Invoices /\ invoice[i].client = client[r]
  BY <1>3 DEF FinanceInv, TypeOK, PaymentsWellFormed, Payable
<1>9. SumFunctionOnSet(paid, S) = received[c] /\ received[c] \in Nat /\ amount[r] \in Nat
  BY <1>2, Zenon DEF Spent, FinanceInv, TypeOK
<1>10. CASE c = client[r]
  <2>1. PICK T \in SUBSET S : T = Payable(r)
    BY <1>2, <1>8, <1>10 DEF Of
  <2>2. SumFunctionOnSet(take, S) = SumFunctionOnSet(take, T)
    BY <1>4, <2>1, InvoicesFinite, SumSubset
  <2>3. SumFunctionOnSet(take, T) = amount[r]
    BY <1>1, <1>3, <2>1, PaymentIsSpread, Zenon
  <2>4. received'[c] = received[c] + amount[r]
    BY <1>3, <1>10 DEF FinanceInv, TypeOK
  <2>5. received'[c] = SumFunctionOnSet(paid', S)
    BY <1>7, <1>9, <2>2, <2>3, <2>4
  <2> QED BY <1>6, <2>5, Zenon DEF Spent
<1>11. CASE c # client[r]
  <2>1. \A i \in S : take[i] = 0
    BY <1>2, <1>4, <1>8, <1>11 DEF Of
  <2>2. SumFunctionOnSet(take, S) = 0
    BY <2>1, InvoicesFinite, SumZero
  <2>3. received'[c] = received[c]
    BY <1>3, <1>11 DEF FinanceInv, TypeOK
  <2>4. received'[c] = SumFunctionOnSet(paid', S)
    BY <1>7, <1>9, <2>2, <2>3
  <2> QED BY <1>6, <2>4, Zenon DEF Spent
<1> QED BY <1>10, <1>11

LEMMA StepKeepsSpent ==
    ASSUME FinanceInv, [Next]_vars, NEW c \in Clients, Spent(c)
    PROVE  Spent(c)'
<1>1. CASE UNCHANGED tables
  BY <1>1, QuietKeepsSpent
<1>2. ASSUME NEW r \in Requests, PayCommit(r) PROVE Spent(c)'
  BY <1>2, PayCommitKeepsSpent
<1>3. ASSUME NEW i \in Invoices, NEW d, NEW day, NEW n, CreateManualInvoice(i, d, day, n)
      PROVE  Spent(c)'
  BY <1>3, InsertKeepsSpent DEF CreateManualInvoice
<1>4. ASSUME NEW r \in Requests, NEW i \in Invoices, NEW day, BillInsert(r, i, day)
      PROVE  Spent(c)'
  BY <1>4, InsertKeepsSpent DEF BillInsert
<1>5. ASSUME NEW r \in Requests,
             \/ \E o \in Orders : BillRead(r, o)
             \/ \E d \in Clients, n \in 1..MaxMoney : PayFind(r, d, n)
             \/ PayLock(r) \/ PayRead(r) \/ PayRefused(r) \/ Rollback(r)
      PROVE  UNCHANGED tables
  BY <1>5 DEF BillRead, PayFind, PayLock, PayRead, PayRefused, Rollback
<1>6. ASSUME NEW o \in Orders, Deliver(o) PROVE UNCHANGED tables
  BY <1>6 DEF Deliver
<1>7. UNCHANGED vars => UNCHANGED tables
  BY DEF vars
<1> QED BY <1>1, <1>2, <1>3, <1>4, <1>5, <1>6, <1>7 DEF Next

(* What the aging report sums up is what was asked for and not paid.        *)
LEMMA OwedIsUnpaid ==
    ASSUME FinanceInv, NEW c \in Clients
    PROVE  Owed(Of(c)) = Billed(c) - SumFunctionOnSet(paid, Of(c))
<1>1. PICK S \in SUBSET Invoices : S = Of(c)
  BY OfIsFinite
<1>2. PICK T \in SUBSET S : T = AgingRows \cap S
  OBVIOUS
<1>3. PICK open : open = [i \in Invoices |-> invoice[i].total - paid[i]]
  OBVIOUS
<1>4. PICK asked : asked = [i \in Invoices |-> Asked(i)]
  OBVIOUS
<1>5. PICK due : due = [i \in Invoices |-> IF open[i] > 0 THEN open[i] ELSE 0]
  OBVIOUS
<1>6. ASSUME NEW i \in Invoices
      PROVE  /\ open[i] \in Int /\ due[i] \in Int /\ paid[i] \in Int
             /\ asked[i] = due[i] + paid[i]
             /\ open[i] > 0 <=> i \in AgingRows
  <2>1. invoice[i].total \in Int /\ paid[i] \in Nat
    BY Amounts
  <2>2. paid[i] > 0 => paid[i] <= invoice[i].total
    BY DEF FinanceInv, NeverOverAllocated
  <2> QED BY <2>1, <2>2, <1>3, <1>4, <1>5 DEF Asked, AgingRows
<1>7. SumFunctionOnSet(asked, S) = SumFunctionOnSet(due, S) + SumFunctionOnSet(paid, S)
  BY <1>6, InvoicesFinite, SumPlus
<1>8. SumFunctionOnSet(due, S) = SumFunctionOnSet(due, T)
  <2>1. /\ \A i \in T : due[i] \in Int
        /\ \A i \in S \ T : due[i] = 0
    BY <1>2, <1>5, <1>6
  <2> QED BY <2>1, InvoicesFinite, SumSubset
<1>9. SumFunctionOnSet(open, T) = SumFunctionOnSet(due, T)
  <2>1. \A i \in T : open[i] \in Int /\ open[i] = due[i]
    BY <1>2, <1>5, <1>6
  <2>2. IsFiniteSet(T)
    BY <1>1, <1>2, InvoicesFinite
  <2> QED BY <2>1, <2>2, SumEqual
<1>10. Owed(S) = SumFunctionOnSet(open, T)
  BY <1>2, <1>3, Zenon DEF Owed
<1>11. Billed(c) = SumFunctionOnSet(asked, S)
  BY <1>1, <1>4, Zenon DEF Billed
<1>12. SumFunctionOnSet(paid, S) \in Int /\ SumFunctionOnSet(due, S) \in Int
  BY <1>6, InvoicesFinite, SumInt
<1>13. Owed(S) = Billed(c) - SumFunctionOnSet(paid, S)
  BY <1>7, <1>8, <1>9, <1>10, <1>11, <1>12
<1> QED BY <1>1, <1>13, Zenon

-----------------------------------------------------------------------------
(* A payment that gives an invoice anything has settled those before it.    *)
LEMMA PayCommitIsOldestFirst ==
    ASSUME FinanceInv, NEW r \in Requests, PayCommit(r), NEW i \in found[r], NEW j \in found[r],
           invoice[i].date < invoice[j].date, paid'[j] > paid[j]
    PROVE  paid'[i] >= invoice[i].total
<1>1. /\ i \in Invoices /\ j \in Invoices /\ known[r][i] = paid[i]
      /\ paid'[i] = paid[i] + Take(r, i) /\ paid'[j] = paid[j] + Take(r, j)
  BY DEF PayCommit, FinanceInv, TypeOK, PaymentsWellFormed
<1>2. /\ invoice[i].total \in Int /\ paid[i] \in Nat /\ Balance(r, i) \in Int
      /\ invoice[j].total \in Int /\ paid[j] \in Nat /\ Balance(r, j) \in Int
  BY <1>1, Amounts
<1>3. Take(r, i) \in Nat /\ Take(r, j) \in Nat /\ (Take(r, j) > 0 => j \in Payable(r))
  BY <1>1, Amounts, TakeWithinBalance
<1>4. Take(r, j) > 0 /\ j \in Payable(r)
  BY <1>1, <1>2, <1>3
<1>5. CASE i \notin Payable(r)
  BY <1>1, <1>2, <1>3, <1>5 DEF Payable, Balance
<1>6. CASE i \in Payable(r)
  <2>1. PICK S \in SUBSET Invoices : S = Payable(r)
    BY DEF Payable, FinanceInv, TypeOK
  <2>2. PICK bal : bal = [k \in Invoices |-> Balance(r, k)]
    OBVIOUS
  <2>3. PICK before : before = [k \in S |-> {m \in S : Before(m, k)}]
    OBVIOUS
  <2>4. /\ before[i] \in SUBSET S /\ before[j] \in SUBSET S
        /\ i \notin before[i] /\ before[i] \cup {i} \in SUBSET before[j]
    <3>1. \A k \in S : invoice[k].date \in Int
      BY <2>1, Amounts
    <3>2. Before(i, j) /\ ~Before(i, i) /\ \A k \in S : Before(k, i) => Before(k, j)
      BY <1>1, <3>1, <1>6, <1>4, <2>1, FinanceAssumption DEF Before, Invoices
    <3> QED BY <1>4, <1>6, <2>1, <2>3, <3>2
  <2>5. \A k \in S : bal[k] \in Nat /\ bal[k] = Balance(r, k)
    BY <2>1, <2>2, Amounts DEF Payable
  <2>6. /\ Remaining(r, i) = amount[r] - SumFunctionOnSet(bal, before[i])
        /\ Remaining(r, j) = amount[r] - SumFunctionOnSet(bal, before[j])
    <3>1. before[i] = {m \in Payable(r) : Before(m, i)} /\ before[j] = {m \in Payable(r) : Before(m, j)}
      BY <1>4, <1>6, <2>1, <2>3
    <3> QED BY <2>2, <3>1, Zenon DEF Remaining
  <2>7. SumFunctionOnSet(bal, before[i] \cup {i}) <= SumFunctionOnSet(bal, before[j])
    <3>1. IsFiniteSet(before[j]) /\ \A k \in before[j] : bal[k] \in Nat
      BY <2>1, <2>4, <2>5, InvoicesFinite
    <3> QED BY <2>4, <3>1, SumOfSome
  <2>8. SumFunctionOnSet(bal, before[i] \cup {i}) = SumFunctionOnSet(bal, before[i]) + bal[i]
    <3>1. IsFiniteSet(before[i]) /\ \A k \in before[i] \cup {i} : bal[k] \in Int
      BY <1>6, <2>1, <2>4, <2>5, InvoicesFinite
    <3> QED BY <2>4, <3>1, SumAddElement
  <2>9. /\ SumFunctionOnSet(bal, before[i]) \in Nat /\ SumFunctionOnSet(bal, before[j]) \in Nat
        /\ amount[r] \in Nat /\ bal[i] \in Nat /\ bal[i] = Balance(r, i)
    <3>1. IsFiniteSet(S)
      BY InvoicesFinite
    <3>2. SumFunctionOnSet(bal, before[i]) \in Nat /\ SumFunctionOnSet(bal, before[j]) \in Nat
      BY <2>4, <2>5, <3>1, SumOfSome
    <3> QED BY <1>6, <2>1, <2>5, <3>2 DEF FinanceInv, TypeOK
  <2>10. Remaining(r, j) >= 1
    <3>1. Remaining(r, j) \in Int
      BY <2>6, <2>9
    <3>2. CASE Remaining(r, j) \in 1..Balance(r, j)
      BY <3>2, <1>2
    <3>3. CASE Remaining(r, j) > Balance(r, j)
      BY <3>1, <3>3, <1>2, <1>4 DEF Payable
    <3>4. CASE Remaining(r, j) \notin 1..Balance(r, j) /\ ~(Remaining(r, j) > Balance(r, j))
      <4>1. Take(r, j) = 0
        BY <3>4 DEF Take
      <4> QED BY <4>1, <1>4
    <3> QED BY <3>2, <3>3, <3>4
  <2>11. Remaining(r, i) > Balance(r, i)
    BY <2>6, <2>7, <2>8, <2>9, <2>10
  <2>12. Take(r, i) = Balance(r, i)
    <3>1. Remaining(r, i) \notin 1..Balance(r, i)
      BY <2>11, <2>6, <2>9, <1>2
    <3> QED BY <1>6, <2>11, <3>1 DEF Take
  <2> QED BY <1>1, <1>2, <2>12 DEF Balance
<1> QED BY <1>5, <1>6

(* Which step ends the payment of r. *)
LEMMA PaymentEnds ==
    ASSUME FinanceInv, Next, NEW r \in Requests, pc[r] = "allocate", pc'[r] = "idle"
    PROVE  PayCommit(r) \/ UNCHANGED paid
<1>1. CASE UNCHANGED paid
  BY <1>1
<1>2. ASSUME NEW s \in Requests, PayCommit(s) PROVE s = r
  <2>1. pc \in [Requests -> PaymentSteps] /\ pc' = [pc EXCEPT ![s] = "idle"]
    BY <1>2 DEF PayCommit, Finish, FinanceInv, TypeOK, PaymentSteps
  <2> QED BY <2>1
<1>3. (\E s \in Requests : PayCommit(s)) \/ UNCHANGED paid
  BY DEF Next, Deliver, CreateManualInvoice, BillRead, BillInsert, PayFind, PayLock, PayRead,
     PayRefused, Rollback, tables
<1> QED BY <1>2, <1>3

(* "oldest open invoice first": no payment leaves an older invoice it has   *)
(* found unsettled and gives a younger one anything.                        *)
THEOREM PaymentsAreOldestFirst == Spec => OldestFirst
<1> DEFINE Step ==
        \A i, j \in Invoices :
          LET settledBy(r) == {i, j} \subseteq found[r] /\ pc[r] = "allocate" /\ pc'[r] = "idle" IN
          (/\ \E r \in Requests : settledBy(r)
           /\ invoice[i].date < invoice[j].date
           /\ paid'[j] > paid[j])
              => paid'[i] >= invoice[i].total
<1>1. FinanceInv /\ [Next]_vars => [Step]_vars
  <2>1. SUFFICES ASSUME FinanceInv, Next, NEW i \in Invoices, NEW j \in Invoices,
                        NEW r \in Requests, i \in found[r], j \in found[r],
                        pc[r] = "allocate", pc'[r] = "idle",
                        invoice[i].date < invoice[j].date, paid'[j] > paid[j]
                 PROVE  paid'[i] >= invoice[i].total
    OBVIOUS
  <2>2. paid[j] \in Nat
    BY <2>1 DEF FinanceInv, TypeOK
  <2>3. PayCommit(r)
    BY <2>1, <2>2, PaymentEnds
  <2> QED BY <2>1, <2>3, PayCommitIsOldestFirst
<1>2. Spec => [][Step]_vars
  BY <1>1, FinanceInvariance, PTL DEF Spec
<1> QED BY <1>2 DEF OldestFirst

-----------------------------------------------------------------------------
(* The account of a client.                                                 *)
AllSpent == \A c \in Clients : Spent(c)

THEOREM FinanceIsWellTyped == Spec => []TypeOK
<1>1. FinanceInv => TypeOK
  BY DEF FinanceInv
<1> QED BY <1>1, FinanceInvariance, PTL

LEMMA NothingAtFirst ==
    ASSUME Init, NEW c \in Clients
    PROVE  Of(c) = {} /\ Billed(c) = 0 /\ Spent(c)
<1>1. Of(c) = {}
  BY FinanceAssumption DEF Init, Of, NoInvoice
<1>2. Billed(c) = 0
  BY <1>1, SumEmpty, Zenon DEF Billed
<1>3. SumFunctionOnSet(paid, Of(c)) = 0
  BY <1>1, SumEmpty, Zenon
<1>4. received[c] = 0
  BY DEF Init
<1> QED BY <1>1, <1>2, <1>3, <1>4, Zenon DEF Spent

THEOREM SpentInvariance == Spec => [](FinanceInv /\ AllSpent)
<1>1. Init => FinanceInv /\ AllSpent
  BY Initially, NothingAtFirst DEF AllSpent
<1>2. FinanceInv /\ AllSpent /\ [Next]_vars => (FinanceInv /\ AllSpent)'
  <2>1. ASSUME FinanceInv, AllSpent, [Next]_vars PROVE AllSpent'
    BY <2>1, StepKeepsSpent DEF AllSpent
  <2> QED BY <2>1, StepKeeps
<1> QED BY <1>1, <1>2, PTL DEF Spec

(* A client's payments and the allocations to the client's invoices are the *)
(* same money, and the aging report shows what is left of what was billed.  *)
THEOREM NoMoneyIsLost == Spec => []PaymentsSpent
<1>1. FinanceInv /\ AllSpent => PaymentsSpent
  <2>1. SUFFICES ASSUME FinanceInv, NEW c \in Clients, Spent(c)
                 PROVE  /\ received[c] = SumFunctionOnSet(paid, Of(c))
                        /\ Owed(Of(c)) = Billed(c) - received[c]
    BY DEF AllSpent, PaymentsSpent
  <2>2. received[c] = SumFunctionOnSet(paid, Of(c))
    BY <2>1 DEF Spent
  <2>3. Owed(Of(c)) = Billed(c) - SumFunctionOnSet(paid, Of(c))
    BY <2>1, OwedIsUnpaid
  <2> QED BY <2>2, <2>3, Zenon
<1> QED BY <1>1, SpentInvariance, PTL

(* What a client has been asked for is a count, and covers what was paid.   *)
LEMMA BilledCoversPaid ==
    ASSUME FinanceInv, NEW c \in Clients
    PROVE  Billed(c) \in Nat /\ SumFunctionOnSet(paid, Of(c)) <= Billed(c)
<1>1. PICK S \in SUBSET Invoices : S = Of(c)
  BY OfIsFinite
<1>2. PICK asked : asked = [i \in Invoices |-> Asked(i)]
  OBVIOUS
<1>3. \A i \in S : asked[i] \in Nat /\ paid[i] \in Nat /\ paid[i] <= asked[i]
  <2>1. \A i \in Invoices : invoice[i].total \in Int /\ paid[i] \in Nat
    BY Amounts
  <2> QED BY <1>2, <2>1 DEF Asked, FinanceInv, NeverOverAllocated
<1>4. SumFunctionOnSet(asked, S) \in Nat
  BY <1>3, InvoicesFinite, SumOfSome
<1>5. SumFunctionOnSet(paid, S) <= SumFunctionOnSet(asked, S)
  BY <1>3, InvoicesFinite, SumMonotone
<1>6. Billed(c) = SumFunctionOnSet(asked, S)
  BY <1>1, <1>2, Zenon DEF Billed
<1>7. SumFunctionOnSet(paid, S) = SumFunctionOnSet(paid, Of(c))
  BY <1>1, Zenon
<1> QED BY <1>4, <1>5, <1>6, <1>7

PaidIsCovered == \A c \in Clients : SumFunctionOnSet(paid, Of(c)) <= Billed(c)

LEMMA PaidIsCoveredNext == FinanceInv' => PaidIsCovered'
<1>1. FinanceInv => PaidIsCovered
  BY BilledCoversPaid DEF PaidIsCovered
<1> QED BY <1>1, PTL

(* The same totals and clients, the same accounts.                          *)
LEMMA SameBilled ==
    ASSUME \A i \in Invoices : invoice'[i].client = invoice[i].client /\ invoice'[i].total = invoice[i].total
    PROVE  \A c \in Clients : Of(c)' = Of(c) /\ Billed(c)' = Billed(c)
<1>1. [i \in Invoices |-> Asked(i)]' = [i \in Invoices |-> Asked(i)]
  BY DEF Asked
<1>2. \A c \in Clients : Of(c)' = Of(c)
  BY DEF Of
<1> QED BY <1>1, <1>2, Zenon DEF Billed

LEMMA InsertBills ==
    ASSUME FinanceInv, NEW i \in Invoices, NEW d, NEW o, NEW day, NEW n \in Int,
           Insert(i, d, o, day, n), NEW c \in Clients
    PROVE  /\ Billed(c)' = IF c = d /\ n > 0 THEN Billed(c) + n ELSE Billed(c)
           /\ Billed(c) \in Nat
<1>1. /\ invoice[i] = NoInvoice /\ \A j \in Invoices : j # i => invoice'[j] = invoice[j]
      /\ invoice'[i].client = d /\ invoice'[i].total = n
  BY DEF Insert, FinanceInv, TypeOK
<1>2. PICK old \in SUBSET Invoices : old = Of(c)
  BY OfIsFinite
<1>3. PICK new \in SUBSET Invoices : new = Of(c)'
  BY DEF Of
<1>4. i \notin old /\ new = IF d = c THEN old \cup {i} ELSE old
  BY <1>1, <1>2, <1>3, FinanceAssumption DEF Of, NoInvoice
<1>5. PICK f : f = [j \in Invoices |-> Asked(j)]
  OBVIOUS
<1>6. PICK g : g = [j \in Invoices |-> Asked(j)']
  OBVIOUS
<1>7. \A j \in Invoices : j # i => f[j] = g[j] /\ f[j] \in Int
  BY <1>1, <1>5, <1>6, Amounts DEF Asked
<1>8. g[i] = IF n > 0 THEN n ELSE 0
  BY <1>1, <1>6 DEF Asked
<1>9. SumFunctionOnSet(f, old) = SumFunctionOnSet(g, old)
  <2>1. \A j \in old : f[j] \in Int /\ f[j] = g[j]
    BY <1>4, <1>7
  <2> QED BY <2>1, InvoicesFinite, SumEqual
<1>10. Billed(c) = SumFunctionOnSet(f, old) /\ Billed(c)' = SumFunctionOnSet(g, new)
  <2>1. Billed(c) = SumFunctionOnSet(f, old)
    BY <1>2, <1>5, Zenon DEF Billed
  <2>2. Billed(c)' = SumFunctionOnSet([j \in Invoices |-> Asked(j)'], Of(c)')
    BY DEF Billed
  <2> QED BY <1>3, <1>6, <2>1, <2>2, Zenon
<1>11. Billed(c) \in Nat
  BY BilledCoversPaid
<1>12. CASE d = c
  <2>1. SumFunctionOnSet(g, old \cup {i}) = SumFunctionOnSet(g, old) + g[i]
    <3>1. \A j \in old \cup {i} : g[j] \in Int
      BY <1>4, <1>7, <1>8
    <3> QED BY <1>4, <3>1, InvoicesFinite, SumAddElement
  <2>2. SumFunctionOnSet(g, old \cup {i}) = SumFunctionOnSet(g, new)
    BY <1>4, <1>12, Zenon
  <2> QED BY <1>8, <1>9, <1>10, <1>11, <1>12, <2>1, <2>2
<1>13. CASE d # c
  <2>1. SumFunctionOnSet(g, new) = SumFunctionOnSet(g, old)
    BY <1>4, <1>13, Zenon
  <2> QED BY <1>9, <1>10, <1>11, <1>13, <2>1
<1> QED BY <1>12, <1>13

-----------------------------------------------------------------------------
(* Finance implements Receivables.                                          *)

LEMMA AccountInit == Init => Account!Init
BY NothingAtFirst DEF Init, Account!Init

LEMMA InsertIsBill ==
    ASSUME FinanceInv, UNCHANGED received, NEW i \in Invoices, NEW d, NEW o, NEW day, NEW n \in Int,
           Insert(i, d, o, day, n)
    PROVE  [Account!Next]_Account!accounts
<1>1. \A c \in Clients : /\ Billed(c)' = IF c = d /\ n > 0 THEN Billed(c) + n ELSE Billed(c)
                         /\ Billed(c) \in Nat
  BY InsertBills
<1>2. PICK f : f = [c \in Clients |-> Billed(c)]
  OBVIOUS
<1>3. PICK g : g = [c \in Clients |-> Billed(c)']
  OBVIOUS
<1>4. CASE d \in Clients /\ n > 0
  <2>1. g[d] > f[d] /\ g = [f EXCEPT ![d] = g[d]]
    BY <1>1, <1>2, <1>3, <1>4
  <2>2. Account!Bill(d)
    BY <1>2, <1>3, <2>1 DEF Account!Bill
  <2> QED BY <1>4, <2>2 DEF Account!Next
<1>5. CASE ~(d \in Clients /\ n > 0)
  <2>1. f = g
    BY <1>1, <1>2, <1>3, <1>5
  <2> QED BY <1>2, <1>3, <2>1 DEF Account!accounts
<1> QED BY <1>4, <1>5

LEMMA PayCommitIsPay ==
    ASSUME FinanceInv, AllSpent, FinanceInv', AllSpent', NEW r \in Requests, PayCommit(r)
    PROVE  Account!Pay(client[r]) /\ client[r] \in Clients
<1>1. /\ client[r] \in Clients /\ amount[r] > 0 /\ amount[r] \in Nat
      /\ received \in [Clients -> Nat]
      /\ received' = [received EXCEPT ![client[r]] = @ + amount[r]]
  BY DEF PayCommit, FinanceInv, TypeOK, PaymentsWellFormed
<1>2. \A i \in Invoices : invoice'[i].client = invoice[i].client /\ invoice'[i].total = invoice[i].total
  <2>1. \A i \in Invoices : invoice[i] \in Invoice \cup {NoInvoice}
    BY DEF FinanceInv, TypeOK
  <2> QED BY <2>1 DEF PayCommit, Invoice, NoInvoice
<1>3. \A c \in Clients : Of(c)' = Of(c) /\ Billed(c)' = Billed(c)
  BY <1>2, SameBilled
<1>4. received'[client[r]] <= Billed(client[r])
  <2>1. PICK c \in Clients : c = client[r]
    BY <1>1
  <2>2. received'[c] = SumFunctionOnSet(paid', Of(c)')
    <3>1. Spent(c)'
      BY DEF AllSpent
    <3> QED BY <3>1 DEF Spent
  <2>3. SumFunctionOnSet(paid', Of(c)') <= Billed(c)'
    BY PaidIsCoveredNext DEF PaidIsCovered
  <2>4. Billed(c)' = Billed(c)
    BY <1>3
  <2> QED BY <2>1, <2>2, <2>3, <2>4, Zenon
<1>5. received'[client[r]] > received[client[r]]
  BY <1>1
<1>6. received' = [received EXCEPT ![client[r]] = received'[client[r]]]
  BY <1>1
<1>7. [c \in Clients |-> Billed(c)]' = [c \in Clients |-> Billed(c)]
  BY <1>3
<1> QED BY <1>1, <1>4, <1>5, <1>6, <1>7 DEF Account!Pay

(* Every step of Finance bills a client, takes a payment for no more than   *)
(* was billed, or leaves the accounts as they are: this is how createPayment*)
(* keeps a client's account, although a payment is spread over several      *)
(* invoices and payments overlap.                                           *)
THEOREM AccountsAreKept == Spec => AccountSpec
<1>1. Init => Account!Init
  BY AccountInit
<1>2. /\ FinanceInv /\ AllSpent /\ (FinanceInv /\ AllSpent)' /\ [Next]_vars
      => [Account!Next]_Account!accounts
  <2>1. SUFFICES ASSUME FinanceInv, AllSpent, FinanceInv', AllSpent', [Next]_vars
                 PROVE  [Account!Next]_Account!accounts
    OBVIOUS
  <2>2. CASE UNCHANGED tables
    <3>1. \A c \in Clients : Billed(c)' = Billed(c)
      BY <2>2, SameBilled DEF tables
    <3>2. [c \in Clients |-> Billed(c)]' = [c \in Clients |-> Billed(c)]
      BY <3>1
    <3> QED BY <2>2, <3>2 DEF Account!accounts, tables
  <2>3. ASSUME NEW r \in Requests, PayCommit(r) PROVE [Account!Next]_Account!accounts
    BY <2>1, <2>3, PayCommitIsPay DEF Account!Next
  <2>4. ASSUME NEW i \in Invoices, NEW d, NEW day, NEW n \in -MaxMoney..MaxMoney,
               CreateManualInvoice(i, d, day, n)
        PROVE  [Account!Next]_Account!accounts
    <3>1. n \in Int
      BY FinanceAssumption
    <3> QED BY <2>1, <2>4, <3>1, InsertIsBill DEF CreateManualInvoice
  <2>5. ASSUME NEW r \in Requests, NEW i \in Invoices, NEW day, BillInsert(r, i, day)
        PROVE  [Account!Next]_Account!accounts
    <3>1. amount[r] \in Int
      BY <2>1 DEF FinanceInv, TypeOK
    <3> QED BY <2>1, <2>5, <3>1, InsertIsBill DEF BillInsert
  <2>6. ASSUME NEW r \in Requests,
               \/ \E o \in Orders : BillRead(r, o)
               \/ \E d \in Clients, n \in 1..MaxMoney : PayFind(r, d, n)
               \/ PayLock(r) \/ PayRead(r) \/ PayRefused(r) \/ Rollback(r)
        PROVE  UNCHANGED tables
    BY <2>6 DEF BillRead, PayFind, PayLock, PayRead, PayRefused, Rollback
  <2>7. ASSUME NEW o \in Orders, Deliver(o) PROVE UNCHANGED tables
    BY <2>7 DEF Deliver
  <2>8. UNCHANGED vars => UNCHANGED tables
    BY DEF vars
  <2> QED BY <2>1, <2>2, <2>3, <2>4, <2>5, <2>6, <2>7, <2>8 DEF Next
<1>3. Spec => Account!Init /\ [][Account!Next]_Account!accounts
  BY <1>1, <1>2, SpentInvariance, PTL DEF Spec
<1> QED BY <1>3 DEF AccountSpec, Account!Spec
=============================================================================
