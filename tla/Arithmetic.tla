----------------------------- MODULE Arithmetic -----------------------------
(***************************************************************************)
(* The pure parts of the program on all inputs within bounds: the loops of  *)
(* the stock engine against the operators that state them, and the money of *)
(* a document against the exact amounts. A behaviour is one call, of the    *)
(* stock engine or of the totals.                                           *)
(***************************************************************************)
EXTENDS StockEngineCheck, Money

CONSTANTS LineCount, LineQuantities, Prices, Percents   \* bound: what a document may say
ASSUME SheetAssumption ==
    /\ LineCount \in Nat \ {0}
    /\ LineQuantities \subseteq Nat /\ Prices \subseteq Nat /\ Percents \subseteq 0..Hundred

VARIABLE sheet   \* a document: its lines, the global discount and the VAT

Lines == [qty : LineQuantities, price : Prices, discount : Percents]
Sheets == [lines : [1..LineCount -> Lines], discount : Percents, vat : Percents]
NoSheet == [lines |-> <<>>, discount |-> 0, vat |-> 0]

Init ==
    \/ CallInit /\ sheet = NoSheet
    \/ /\ rows = [l \in Locations |-> EmptyRow] /\ held = NoQuantities /\ qty = 1
       /\ call = [fn |-> "totals"]
       /\ sheet \in Sheets

Next == CallNext /\ UNCHANGED sheet

Spec == Init /\ [][Next]_<<callVars, sheet>>

-----------------------------------------------------------------------------
Totals(lineCents) == computeQuotationTotals(lineCents, sheet.discount, sheet.vat)
Each(Op(_)) == [k \in DOMAIN sheet.lines |-> Op(sheet.lines[k])]
Credited(line) == [line EXCEPT !.price = -line.price]
Returned(line) == [line EXCEPT !.qty = -line.qty]
Apart(a, b) == AbsInt(a - b)

(* What the lines of the document may say on a quotation.                   *)
Offers ==
    {parts \in [DOMAIN sheet.lines -> UNION {Quoted(sheet.lines[k]) : k \in DOMAIN sheet.lines}] :
        \A k \in DOMAIN sheet.lines : parts[k] \in Quoted(sheet.lines[k])}

(* Each rounding is off by at most half a cent, and no total of an ordinary *)
(* invoice is negative.                                                     *)
TotalsRounded ==
    LET t == Totals(Each(Invoiced))
    IN  /\ 2 * Apart(t.discount * Hundred, t.subtotal * sheet.discount) <= Hundred
        /\ 2 * Apart(t.vat * Hundred, (t.subtotal - t.discount) * sheet.vat) <= Hundred
        /\ 0 <= t.discount /\ t.discount <= t.subtotal /\ 0 <= t.vat

(* The invoice of an order that was delivered in full asks for what the     *)
(* quotation offered, up to the cents in which toFixed and Math.round       *)
(* differ, two a line; and the parts of a quoted line add up to its price   *)
(* within a cent.                                                           *)
InvoicedAsQuoted ==
    LET invoice == Totals(Each(Invoiced)).grand IN
    \A parts \in Offers :
       /\ \A k \in DOMAIN sheet.lines :
             Apart(parts[k].after + parts[k].discountAmount,
                   sheet.lines[k].qty * sheet.lines[k].price) <= 1
       /\ Apart(Totals([k \in DOMAIN sheet.lines |-> parts[k].after]).grand, invoice)
             <= 2 * LineCount

(* A credit note with the lines of an invoice at negative prices takes it   *)
(* back up to the halves, which round up on both sides, two cents a line at *)
(* the most; the sign of a quantity, which is stored without it, makes no   *)
(* credit.                                                                  *)
CreditsCancel ==
    /\ \A k \in DOMAIN sheet.lines :
          LET line == sheet.lines[k]
          IN  /\ Apart(Entered(Returned(line)), Entered(line)) <= 1
              /\ Apart(Entered(Credited(line)), -Entered(line)) <= 1
    /\ Apart(Totals(Each(LAMBDA line : Entered(Credited(line)))).grand,
             -Totals(Each(Entered)).grand) <= 2 * LineCount

(* The amounts of a document agree with each other: totals with what they   *)
(* are percentages of, the invoice with the quotation, a credit note with   *)
(* what it takes back.                                                      *)
MoneyAgrees ==
    call.fn = "totals" => TotalsRounded /\ InvoicedAsQuoted /\ CreditsCancel
=============================================================================
