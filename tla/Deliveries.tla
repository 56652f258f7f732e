----------------------------- MODULE Deliveries -----------------------------
(***************************************************************************)
(* DeliveriesService.create (src/src/deliveries/deliveries.service.ts): a   *)
(* delivery of quantities of the order's lines. The order and its lines are *)
(* read first, without a lock; the release-permit gate is a statement of    *)
(* its own; the stock rows are locked last.                                 *)
(***************************************************************************)
EXTENDS ErpTables

(* Lines with an item of order o, a positive quantity for each that is     *)
(* asked, at most what the line still lacks.                               *)
\* Mutant: no over-delivery check.
RequestableUncapped(o, ask) ==
    /\ ask # NothingAsked
    /\ \A l \in Lines : ask[l] > 0 => line[l].order = o

Requestable(o, ask) ==
    /\ ask # NothingAsked
    /\ \A l \in Lines : ask[l] > 0 =>
          line[l].order = o /\ ask[l] <= line[l].qty - line[l].delivered

DeliverRead(r, o, ask) ==
    /\ pc[r] = "idle"
    /\ status[o] \in {"Confirmed", "Delivered"}
    /\ Requestable(o, ask)
    /\ pc' = [pc EXCEPT ![r] = "deliver"]
    /\ target' = [target EXCEPT ![r] = o]
    /\ seen' = [seen EXCEPT ![r] = LinesRead(o)]
    /\ asked' = [asked EXCEPT ![r] = ask]
    /\ UNCHANGED <<orderTables, stockTables, permitted, todo, locks, work, held>>

(* assertReleasePermits: the Released permit lines of each line must cover  *)
(* the quantity of THIS delivery; otherwise the request is refused.         *)
Permitted(r) == \A l \in Lines : asked[r][l] <= permitted[l]

PermitGate(r) ==
    /\ pc[r] = "deliver"
    /\ Permitted(r)
    /\ pc' = [pc EXCEPT ![r] = "permits"]
    /\ UNCHANGED <<orderTables, stockTables, permitted,
                   target, seen, todo, asked, locks, work, held>>

PermitRefused(r) ==
    /\ pc[r] = "deliver"
    /\ ~Permitted(r)
    /\ Finish(r)
    /\ UNCHANGED <<orderTables, stockTables, permitted>>

\* Mutant: reads the stock rows without FOR UPDATE.
DeliverLockWithoutWaiting(r) ==
    LET lines == {l \in Lines : asked[r][l] > 0} IN
    /\ pc[r] = "permits"
    /\ locks' = [locks EXCEPT ![r] = ItemsOf(seen[r], lines)]
    /\ work' = [work EXCEPT ![r] = stock]
    /\ todo' = [todo EXCEPT ![r] = lines]
    /\ pc' = [pc EXCEPT ![r] = "handover"]
    /\ UNCHANGED <<orderTables, stockTables, permitted, target, seen, asked, held>>

DeliverLock(r) ==
    LET lines == {l \in Lines : asked[r][l] > 0} IN
    /\ pc[r] = "permits"
    /\ TakeLocks(r, ItemsOf(seen[r], lines))
    /\ todo' = [todo EXCEPT ![r] = lines]
    /\ pc' = [pc EXCEPT ![r] = "handover"]
    /\ UNCHANGED <<orderTables, stockTables, permitted, target, seen, asked, held>>

(* The loop over the requested lines: each reads the order's reservations   *)
(* of its item again (the delivery itself has not trimmed them), consumes   *)
(* reserved units first and free ones next, and counts the units as         *)
(* delivered on the line as it was read. It throws (a Rollback) when the    *)
(* location cannot be read off the item's stock rows.                       *)
HandOverLine(r, l) ==
    LET i == seen[r][l].item
        rows == work[r][i]
        qty == asked[r][l]
    IN  /\ pc[r] = "handover"
        /\ l \in todo[r]
        /\ RowsReadable({i})
        /\ \E taken \in FromReserved(rows, resv[target[r]][i], qty) :
              \E free \in FromFree(rows, taken, qty) :
                 work' = [work EXCEPT ![r][i] = Consumed(rows, taken, free)]
        /\ seen' = [seen EXCEPT ![r][l].delivered = @ + qty]
        /\ todo' = [todo EXCEPT ![r] = @ \ {l}]
        /\ UNCHANGED <<orderTables, stockTables, permitted, pc, target, asked, locks, held>>

HandOverRefused(r) ==
    /\ pc[r] = "handover"
    /\ \E l \in todo[r] :
          LET i == seen[r][l].item
          IN  ~CanDeliver(work[r][i], resv[target[r]][i], asked[r][l])
    /\ Finish(r)
    /\ UNCHANGED <<orderTables, stockTables, permitted>>

(* reconcileReservations: drop each reservation row of the order whose      *)
(* quantity is at most what ALL lines of its item have delivered.           *)
DeliveredOf(table, i) ==
    SumFunctionOnSet([l \in Lines |-> table[l].delivered], {l \in Lines : table[l].item = i})

Reconciled(held0, table) ==
    [i \in Items |-> [m \in Locations |->
        IF i \in ItemsOf(table, Present(table)) /\ DeliveredOf(table, i) >= held0[i][m]
        THEN 0 ELSE held0[i][m]]]

(* The stock, the requested lines (whole rows, as read), one delivery line  *)
(* per requested line, the reservations and the status.                     *)
DeliverCommit(r) ==
    LET o == target[r]
        written == [l \in Lines |-> IF asked[r][l] > 0 THEN seen[r][l] ELSE NoLine]
    IN  /\ pc[r] = "handover"
        /\ todo[r] = {}
        /\ Savable(r, Present(written))
        /\ SoleActive(o)
        /\ stock' = WorkOf(r)
        /\ line' = Saved(line, written)
        /\ shipped' = [shipped EXCEPT ![o] = [i \in Items |-> [l \in Lines |->
               shipped[o][i][l] + IF seen[r][l].item = i THEN asked[r][l] ELSE 0]]]
        /\ resv' = [resv EXCEPT ![o] = Reconciled(resv[o], seen[r])]
        /\ status' = Became(o, IF AllDelivered(seen[r], Present(seen[r])) THEN "Closed" ELSE "Delivered")
        /\ Finish(r)
        /\ UNCHANGED <<source, quote, qtySold, moved, permitted>>

DeliverRefused(r) ==
    /\ pc[r] = "handover"
    /\ todo[r] = {}
    /\ ~(Savable(r, {l \in Lines : asked[r][l] > 0}) /\ SoleActive(target[r]))
    /\ Finish(r)
    /\ UNCHANGED <<orderTables, stockTables, permitted>>

DeliveriesStep(r) ==
    \/ \E o \in Orders, ask \in [Lines -> 0..MaxQty] : DeliverRead(r, o, ask)
    \/ PermitGate(r) \/ PermitRefused(r) \/ DeliverLock(r)
    \/ \E l \in Lines : HandOverLine(r, l)
    \/ HandOverRefused(r) \/ DeliverCommit(r) \/ DeliverRefused(r)
=============================================================================
