------------------------------- MODULE Money -------------------------------
(***************************************************************************)
(* Money and percentages in hundredths, as quotations/totals.ts and the     *)
(* services that use it compute them. The integer parts are exact in the    *)
(* doubles of the program; a half of Math.round goes up, also below zero.   *)
(***************************************************************************)
EXTENDS Integers, Functions

Hundred == 10000   \* 100 %, in hundredths of a percent

AbsInt(n) == IF n < 0 THEN -n ELSE n
Sign(n) == IF n < 0 THEN -1 ELSE IF n = 0 THEN 0 ELSE 1

(* Math.round(n / d).                                                       *)
\* Mutant: Math.floor.
Floored(n, d) == n \div d
Rounded(n, d) == (2 * n + d) \div (2 * d)

(* (n / d).toFixed: an exact half is a double that lies on either side.     *)
Nearest(n, d) == {m \in {n \div d, n \div d + 1} : 2 * AbsInt(m * d - n) <= d}

(* subtotal - global discount + VAT on the discounted base.                 *)
computeQuotationTotals(lineCents, discountGlobal, vat) ==
    LET subtotal == SumFunction(lineCents)
        discount == Rounded(subtotal * discountGlobal, Hundred)
        tax == Rounded((subtotal - discount) * vat, Hundred)
    IN  [subtotal |-> subtotal, discount |-> discount, vat |-> tax,
         grand |-> subtotal - discount + tax]

(* A line of a quotation or an order: what it costs and what its discount   *)
(* takes off are rounded each on its own.                                   *)
Quoted(line) ==
    [after : Nearest(line.qty * line.price * (Hundred - line.discount), Hundred),
     discountAmount : Nearest(line.qty * line.price * line.discount, Hundred)]

(* A line of an invoice registered from an order.                           *)
Invoiced(line) == Rounded(line.qty * line.price * (Hundred - line.discount), Hundred)

(* A line of an invoice entered by hand: times the sign of its quantity.    *)
Entered(line) == Invoiced(line) * Sign(line.qty)
=============================================================================
