---------------------------- MODULE StockEngine ----------------------------
(***************************************************************************)
(* The pure stock arithmetic of src/src/transactions/stock-engine.ts, for  *)
(* the stock rows of ONE item: a row per location with the units on hand   *)
(* and the units reserved for orders.                                      *)
(*                                                                         *)
(* A location without a row behaves in every function of the file like a   *)
(* row of zeroes (nothing to take, created on the first increment), so     *)
(* rows is a total function on Locations.                                  *)
(*                                                                         *)
(* The loops of the file ("take what is there, in order, until enough")    *)
(* are stated by their result: Greedy is the set of the allocations that   *)
(* such a loop can return; StockEngineCheck compares it with the loops.    *)
(***************************************************************************)
EXTENDS Integers, FiniteSets, Functions

CONSTANTS
    Locations,   \* ids of the physical locations
    Showroom,    \* the one location whose type is Showroom
    MaxQty       \* bound: the largest quantity of one request

ASSUME LocationsAssumption ==
    Locations \subseteq Nat \ {0} /\ Showroom \in Locations /\ IsFiniteSet(Locations)
ASSUME MaxQtyAssumption == MaxQty \in Nat \ {0}

Row == [onHand : Int, reserved : Int]
Rows == [Locations -> Row]
CountedRows == [Locations -> [onHand : Nat, reserved : Nat]]
EmptyRow == [onHand |-> 0, reserved |-> 0]
Quantities == [Locations -> Nat]
NoQuantities == [l \in Locations |-> 0]

Total(amount) == SumFunctionOnSet(amount, Locations)
OnHand(rows) == Total([l \in Locations |-> rows[l].onHand])

(* The order in which a loop visits the locations: by id, or the           *)
(* reservation strategy "showroom first, then storage by id".              *)
ById == [l \in Locations |-> l]
ShowroomFirst == [l \in Locations |-> IF l = Showroom THEN 0 ELSE l]

(* What the loop still wants when it reaches l: qty less everything it     *)
(* could take at the locations before l.                                   *)
Wanted(cap, qty, rank, l) ==
    qty - SumFunctionOnSet(cap, {m \in Locations : rank[m] < rank[l]})

(* The allocation of a loop that takes at most cap[l] at each location, in *)
(* the order of rank, until it has qty (a set of one element if qty is at  *)
(* most MaxQty).                                                           *)
Greedy(cap, qty, rank) ==
    {take \in [Locations -> 0..MaxQty] :
        \A l \in Locations :
            LET wanted == Wanted(cap, qty, rank, l)
            IN  /\ take[l] <= cap[l]
                /\ take[l] = IF wanted <= 0 THEN 0
                             ELSE IF cap[l] <= wanted THEN cap[l] ELSE wanted}

(* Units that no order holds. Reserved may exceed on hand, and then a row  *)
(* offers nothing: the loops skip a take that is not positive.             *)
Free(rows) ==
    [l \in Locations |-> IF rows[l].onHand > rows[l].reserved
                         THEN rows[l].onHand - rows[l].reserved ELSE 0]

-----------------------------------------------------------------------------
(* applyStockMove: a decrement looks at the units on hand, reserved or not. *)

\* Mutant: off by one.
CanDecrementOffByOne(rows, l, n) == rows[l].onHand + 1 >= n
CanDecrement(rows, l, n) == rows[l].onHand >= n
Decremented(rows, l, n) == [rows EXCEPT ![l].onHand = @ - n]
Incremented(rows, l, n) == [rows EXCEPT ![l].onHand = @ + n]

(* reserveBestEffort: take the free units, showroom first. *)
Reservations(rows, qty) == Greedy(Free(rows), qty, ShowroomFirst)
WithReserved(rows, take) ==
    [l \in Locations |-> [rows[l] EXCEPT !.reserved = @ + take[l]]]

(* releaseReservation: refuses to release more than the row has reserved. *)
CanRelease(rows, held) == \A l \in Locations : rows[l].reserved >= held[l]
WithReleased(rows, held) ==
    [l \in Locations |-> [rows[l] EXCEPT !.reserved = @ - held[l]]]

(* deliverFromReservations: reserved units first (each row must hold them   *)
(* on hand and reserved, otherwise the call throws), then free units, and   *)
(* throws when the two together fall short of qty.                          *)
FromReserved(rows, held, qty) ==
    {take \in Greedy(held, qty, ById) :
        \A l \in Locations : take[l] <= rows[l].onHand /\ take[l] <= rows[l].reserved}
FromFree(rows, fromReserved, qty) ==
    {take \in Greedy(Free(rows), qty - Total(fromReserved), ById) :
        Total(take) = qty - Total(fromReserved)}
Consumed(rows, fromReserved, fromFree) ==
    [l \in Locations |->
        [onHand   |-> rows[l].onHand - fromReserved[l] - fromFree[l],
         reserved |-> rows[l].reserved - fromReserved[l]]]
CanDeliver(rows, held, qty) ==
    \E taken \in FromReserved(rows, held, qty) : FromFree(rows, taken, qty) # {}
=============================================================================
