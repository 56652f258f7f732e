---------------------------- MODULE Transactions ----------------------------
(***************************************************************************)
(* TransactionsService (src/src/transactions/transactions.service.ts) for   *)
(* the moves that belong to no order: executeWithin locks the item row and  *)
(* InventoryService.applyTransaction its stock rows, so each is one step.   *)
(* Goods receipts and supplier returns of purchase orders are recorded as   *)
(* Adjustments through the same code (recordInternalAdjustment).            *)
(* moved is the ledger: what the transactions rows say came in or went out. *)
(***************************************************************************)
EXTENDS ErpTables

(* applyTransaction finds the item's rows FOR UPDATE with a left join, so   *)
(* that no move gets through where Postgres refuses that.                   *)
SetRows(i, rows) == QueriesAsMeant /\ stock' = [stock EXCEPT ![i] = rows]

Transfer(i, from, to, n) ==
    /\ from # to
    /\ Unlocked({i})
    /\ CanDecrement(stock[i], from, n)
    /\ stock[i][to].onHand + n <= MaxOnHand
    /\ SetRows(i, Incremented(Decremented(stock[i], from, n), to, n))
    /\ UNCHANGED <<orderTables, qtySold, shipped, moved, permitted, requestVars>>

WalkInSale(i, from, n) ==
    /\ Unlocked({i})
    /\ CanDecrement(stock[i], from, n)
    /\ qtySold[i] + n <= MaxSold
    /\ SetRows(i, Decremented(stock[i], from, n))
    /\ qtySold' = [qtySold EXCEPT ![i] = @ + n]
    /\ moved' = [moved EXCEPT ![i] = @ - n]
    /\ UNCHANGED <<orderTables, shipped, permitted, requestVars>>

\* Mutant: no comparison with qtySold.
ReturnUnsold(i, to, n) ==
    /\ Unlocked({i})
    /\ stock[i][to].onHand + n <= MaxOnHand
    /\ SetRows(i, Incremented(stock[i], to, n))
    /\ qtySold' = [qtySold EXCEPT ![i] = @ - n]
    /\ moved' = [moved EXCEPT ![i] = @ + n]
    /\ UNCHANGED <<orderTables, shipped, permitted, requestVars>>

Return(i, to, n) ==
    /\ Unlocked({i})
    /\ n <= qtySold[i]
    /\ stock[i][to].onHand + n <= MaxOnHand
    /\ SetRows(i, Incremented(stock[i], to, n))
    /\ qtySold' = [qtySold EXCEPT ![i] = @ - n]
    /\ moved' = [moved EXCEPT ![i] = @ + n]
    /\ UNCHANGED <<orderTables, shipped, permitted, requestVars>>

Increase(i, to, n) ==
    /\ Unlocked({i})
    /\ stock[i][to].onHand + n <= MaxOnHand
    /\ SetRows(i, Incremented(stock[i], to, n))
    /\ moved' = [moved EXCEPT ![i] = @ + n]
    /\ UNCHANGED <<orderTables, qtySold, shipped, permitted, requestVars>>

Decrease(i, from, n) ==
    /\ Unlocked({i})
    /\ CanDecrement(stock[i], from, n)
    /\ SetRows(i, Decremented(stock[i], from, n))
    /\ moved' = [moved EXCEPT ![i] = @ - n]
    /\ UNCHANGED <<orderTables, qtySold, shipped, permitted, requestVars>>

MoveStep ==
    \E i \in Items, l \in Locations, n \in 1..MaxQty :
        \/ \E to \in Locations : Transfer(i, l, to, n)
        \/ WalkInSale(i, l, n) \/ Return(i, l, n)
        \/ Increase(i, l, n) \/ Decrease(i, l, n)
=============================================================================
