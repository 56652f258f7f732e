------------------------- MODULE ProcurementProofs -------------------------
(***************************************************************************)
(* For any number of purchase orders, items, suppliers and overlapping      *)
(* requests: a line has received what the goods receipts say and at most    *)
(* what was ordered, the stock is the balance of receipts, returns and      *)
(* moves, no price is added twice, and receipts alone do not deadlock.      *)
(*                                                                         *)
(* All of it rests on the row locks: LocksExclusive says that no order and  *)
(* no item is locked twice, Working that what a request has read of a row   *)
(* that it has locked is still so.                                          *)
(***************************************************************************)
EXTENDS Procurement, SumTheorems

LEMMA NothingCounts == Nothing \in Counts
BY DEF Nothing, Counts

LEMMA NothingLocked ==
    ASSUME NEW r, pc[r] = "idle", order[r] = NoPurchaseOrder, ask[r] = Nothing, todo[r] = {},
           next[r] = NoItem, fresh[r] = {}, numberer # r
    PROVE  Asked(r) = {} /\ HeldItems(r) = {} /\ Working(r)
<1>1. Asked(r) = {} /\ HeldItems(r) = {}
  BY DEF Asked, HeldItems, Nothing
<1> QED BY <1>1 DEF Working

LEMMA Initially == Init => ProcurementInv
<1>1. SUFFICES ASSUME Init PROVE ProcurementInv
  OBVIOUS
<1>2. TypeOK
  <2>1. TablesTypeOK
    BY <1>1, NothingCounts, ProcurementAssumption DEF Init, TablesTypeOK, Counts
  <2>2. RequestsTypeOK
    BY <1>1, NothingCounts DEF Init, RequestsTypeOK
  <2> QED BY <2>1, <2>2 DEF TypeOK
<1>3. OrdersFit
  BY <1>1 DEF Init, OrdersFit
<1>4. ASSUME NEW r \in Requests PROVE Working(r) /\ HeldItems(r) = {}
  BY <1>1, NothingLocked, ProcurementAssumption DEF Init
<1>5. LocksExclusive
  BY <1>1, <1>4 DEF Init, LocksExclusive
<1>6. ReceivedIsReceipted /\ StatusFromReceipts /\ OnePricePerItem
  BY <1>1 DEF Init, ReceivedIsReceipted, StatusFromReceipts, OnePricePerItem, Nothing
<1>7. GoodsBalance
  <2>1. ASSUME NEW i \in Items
        PROVE  /\ Summed([po \in PurchaseOrders |-> receipted[po][i]]) = 0
               /\ Summed([po \in PurchaseOrders |-> returned[po][i]]) = 0
    <3>1. PICK f : f = [po \in PurchaseOrders |-> receipted[po][i]]
      OBVIOUS
    <3>2. PICK g : g = [po \in PurchaseOrders |-> returned[po][i]]
      OBVIOUS
    <3>3. \A po \in PurchaseOrders : f[po] = 0 /\ g[po] = 0
      BY <1>1, <3>1, <3>2 DEF Init, Nothing
    <3>4. SumFunctionOnSet(f, PurchaseOrders) = 0 /\ SumFunctionOnSet(g, PurchaseOrders) = 0
      BY <3>3, SumZero, ProcurementAssumption
    <3> QED BY <3>1, <3>2, <3>4, Zenon DEF Summed
  <2>2. \A i \in Items : onHand[i] = OpeningStock /\ other[i] = 0
    BY <1>1 DEF Init
  <2> QED BY <2>1, <2>2, ProcurementAssumption DEF GoodsBalance
<1> QED BY <1>2, <1>3, <1>4, <1>5, <1>6, <1>7 DEF ProcurementInv

-----------------------------------------------------------------------------
(* What a step leaves alone of a request and of the rows it has locked.     *)
Alone(s) ==
    UNCHANGED <<pc[s], order[s], ask[s], seen[s], todo[s], next[s], copy[s], fresh[s]>>

Undisturbed(s) ==
    /\ LET po == order[s] IN
          /\ pc[s] # "idle" => /\ status'[po] = status[po] /\ supplier'[po] = supplier[po]
                              /\ ordered'[po] = ordered[po] /\ received'[po] = received[po]
          /\ pc[s] = "receive" => price'[supplier[po]] = price[supplier[po]]
    /\ \A i \in HeldItems(s) : onHand'[i] = onHand[i]

LEMMA StillWorking ==
    ASSUME NEW s, Working(s), Alone(s), Undisturbed(s), numberer' = s <=> numberer = s
    PROVE  Working(s)' /\ HeldItems(s)' = HeldItems(s)
<1>1. Asked(s)' = Asked(s) /\ HeldItems(s)' = HeldItems(s)
  BY DEF Alone, Asked, HeldItems
<1>2. \A i \in fresh[s] : Unpriced(order[s], i) => Unpriced(order[s], i)'
  BY DEF Alone, Undisturbed, Working, Unpriced
<1> QED BY <1>1, <1>2 DEF Working, Alone, Undisturbed

(* One request moves on, and the locks that it takes are free.              *)
LEMMA OneMovesOn ==
    ASSUME LocksExclusive, \A s \in Requests : Working(s), NEW r \in Requests,
           \A s \in Requests \ {r} :
               /\ Alone(s) /\ Undisturbed(s) /\ (numberer' = s <=> numberer = s)
               /\ HeldItems(r)' \cap HeldItems(s) = {}
               /\ pc'[r] = "idle" \/ order'[r] # order[s],
           Working(r)'
    PROVE  LocksExclusive' /\ \A s \in Requests : Working(s)'
<1>1. ASSUME NEW s \in Requests PROVE Working(s)'
  BY StillWorking
<1>2. \A s \in Requests \ {r} : /\ HeldItems(s)' = HeldItems(s)
                               /\ pc'[s] = pc[s] /\ order'[s] = order[s]
  BY StillWorking DEF Alone
<1>3. \A s \in Requests \ {r} : pc[s] # "idle" => order'[r] # order[s]
  <2>1. SUFFICES ASSUME NEW s \in Requests \ {r}, pc[s] # "idle", order'[r] = order[s]
                 PROVE  FALSE
    OBVIOUS
  <2>2. pc'[r] = "idle" /\ order[s] \in PurchaseOrders
    BY <2>1 DEF Working
  <2>3. order'[r] = NoPurchaseOrder
    BY <2>2, <1>1 DEF Working
  <2> QED BY <2>1, <2>2, <2>3, ProcurementAssumption
<1>4. LocksExclusive'
  <2>1. SUFFICES ASSUME NEW s \in Requests, NEW t \in Requests, s # t
                 PROVE  /\ HeldItems(s)' \cap HeldItems(t)' = {}
                        /\ pc'[s] = "idle" \/ order'[s] # order'[t]
    BY DEF LocksExclusive
  <2>2. CASE s = r
    BY <1>2, <2>1, <2>2
  <2>3. CASE t = r
    BY <1>2, <1>3, <2>1, <2>3
  <2>4. CASE s # r /\ t # r
    BY <1>2, <2>1, <2>4 DEF LocksExclusive
  <2> QED BY <2>2, <2>3, <2>4
<1> QED BY <1>1, <1>4

LEMMA FinishMovesOn ==
    ASSUME RequestsTypeOK, LocksExclusive, \A s \in Requests : Working(s),
           NEW r \in Requests, Finish(r), \A s \in Requests \ {r} : Undisturbed(s)
    PROVE  RequestsTypeOK' /\ LocksExclusive' /\ \A s \in Requests : Working(s)'
<1>1. RequestsTypeOK'
  BY NothingCounts DEF RequestsTypeOK, Finish
<1>2. /\ pc'[r] = "idle" /\ order'[r] = NoPurchaseOrder /\ ask'[r] = Nothing /\ todo'[r] = {}
      /\ next'[r] = NoItem /\ fresh'[r] = {} /\ numberer' # r
  BY ProcurementAssumption DEF RequestsTypeOK, Finish
<1>3. Working(r)' /\ HeldItems(r)' = {}
  <2>1. Asked(r)' = {} /\ HeldItems(r)' = {}
    BY <1>2 DEF Asked, HeldItems, Nothing
  <2> QED BY <1>2, <2>1 DEF Working
<1>4. ASSUME NEW s \in Requests \ {r} PROVE Alone(s) /\ (numberer' = s <=> numberer = s)
  <2>1. Alone(s)
    BY DEF Alone, RequestsTypeOK, Finish
  <2>2. numberer' = IF numberer = r THEN NoRequest ELSE numberer
    BY DEF Finish
  <2>3. s # r /\ s # NoRequest
    BY ProcurementAssumption
  <2> QED BY <2>1, <2>2, <2>3
<1>5. \A s \in Requests \ {r} :
          /\ Alone(s) /\ Undisturbed(s) /\ (numberer' = s <=> numberer = s)
          /\ HeldItems(r)' \cap HeldItems(s) = {}
          /\ pc'[r] = "idle" \/ order'[r] # order[s]
  BY <1>2, <1>3, <1>4
<1> QED BY <1>1, <1>3, <1>5, OneMovesOn

(* The transaction ends without a trace. *)
LEMMA RefusalKeeps ==
    ASSUME ProcurementInv, NEW r \in Requests, Finish(r), UNCHANGED tables
    PROVE  ProcurementInv'
<1>1. /\ status' = status /\ supplier' = supplier /\ ordered' = ordered /\ received' = received
      /\ receipted' = receipted /\ returned' = returned /\ onHand' = onHand /\ other' = other
      /\ price' = price
  BY DEF tables
<1>2. \A s \in Requests \ {r} : Undisturbed(s)
  BY <1>1 DEF Undisturbed
<1>3. RequestsTypeOK' /\ LocksExclusive' /\ \A s \in Requests : Working(s)'
  BY <1>2, FinishMovesOn DEF ProcurementInv, TypeOK
<1>4. TablesTypeOK' /\ OrdersFit'
  BY <1>1 DEF ProcurementInv, TypeOK, TablesTypeOK, OrdersFit
<1>5. ReceivedIsReceipted' /\ StatusFromReceipts' /\ OnePricePerItem' /\ GoodsBalance'
  BY <1>1 DEF ProcurementInv, ReceivedIsReceipted, StatusFromReceipts, OnePricePerItem,
     GoodsBalance
<1> QED BY <1>3, <1>4, <1>5 DEF ProcurementInv, TypeOK

-----------------------------------------------------------------------------
(* Steps of a request that write no table.                                  *)

LEMMA TablesStay ==
    ASSUME ProcurementInv, UNCHANGED tables, RequestsTypeOK', LocksExclusive',
           \A s \in Requests : Working(s)'
    PROVE  ProcurementInv'
<1>1. /\ status' = status /\ supplier' = supplier /\ ordered' = ordered /\ received' = received
      /\ receipted' = receipted /\ returned' = returned /\ onHand' = onHand /\ other' = other
      /\ price' = price
  BY DEF tables
<1>2. TablesTypeOK' /\ OrdersFit'
  BY <1>1 DEF ProcurementInv, TypeOK, TablesTypeOK, OrdersFit
<1>3. ReceivedIsReceipted' /\ StatusFromReceipts' /\ OnePricePerItem' /\ GoodsBalance'
  BY <1>1 DEF ProcurementInv, ReceivedIsReceipted, StatusFromReceipts, OnePricePerItem,
     GoodsBalance
<1> QED BY <1>2, <1>3 DEF ProcurementInv, TypeOK

LEMMA QuietlyUndisturbed ==
    ASSUME UNCHANGED tables, NEW s
    PROVE  Undisturbed(s)
BY DEF tables, Undisturbed

LEMMA StartKeeps ==
    ASSUME ProcurementInv, NEW r \in Requests, NEW po \in PurchaseOrders,
           NEW qty \in Counts, NEW step \in {"number", "return"},
           pc[r] = "idle", OrderUnlocked(po), Start(r, po, qty, step), UNCHANGED fresh,
           status[po] # "None", step = "number" => Receivable(po, qty)
    PROVE  ProcurementInv'
<1>1. Working(r) /\ RequestsTypeOK /\ received[po] \in Counts /\ ordered[po] \in Counts
  BY DEF ProcurementInv, TypeOK, TablesTypeOK
<1>2. next[r] = NoItem /\ fresh[r] = {} /\ numberer # r
  BY <1>1 DEF Working
<1>3. /\ pc'[r] = step /\ order'[r] = po /\ ask'[r] = qty /\ seen'[r] = received[po]
      /\ todo'[r] = {i \in Items : qty[i] > 0} /\ next'[r] = NoItem /\ fresh'[r] = {}
      /\ numberer' = numberer /\ UNCHANGED tables
  BY <1>1, <1>2 DEF Start, RequestsTypeOK
<1>4. RequestsTypeOK'
  BY <1>1 DEF Start, RequestsTypeOK
<1>5. Asked(r)' = todo'[r] /\ HeldItems(r)' = {}
  BY <1>3 DEF Asked, HeldItems
<1>6. Working(r)'
  <2>1. /\ status'[po] = status[po] /\ received'[po] = received[po]
        /\ ordered'[po] = ordered[po]
    BY <1>3 DEF tables
  <2>2. step = "number" => /\ status[po] \in {"Sent", "PartiallyReceived"}
                          /\ \A i \in Items : qty[i] <= ordered[po][i] - received[po][i]
    BY DEF Receivable
  <2> QED BY <1>2, <1>3, <1>5, <2>1, <2>2, ProcurementAssumption DEF Working
<1>7. ASSUME NEW s \in Requests \ {r}
      PROVE  /\ Alone(s) /\ Undisturbed(s) /\ (numberer' = s <=> numberer = s)
             /\ HeldItems(r)' \cap HeldItems(s) = {} /\ order'[r] # order[s]
  <2>1. Alone(s)
    BY <1>1 DEF Alone, Start, RequestsTypeOK
  <2> QED BY <1>3, <1>5, <2>1, QuietlyUndisturbed DEF OrderUnlocked
<1>8. LocksExclusive' /\ \A s \in Requests : Working(s)'
  BY <1>6, <1>7, OneMovesOn DEF ProcurementInv
<1> QED BY <1>3, <1>4, <1>8, TablesStay

LEMMA ReceiveNumberKeeps ==
    ASSUME ProcurementInv, NEW r \in Requests, ReceiveNumber(r)
    PROVE  ProcurementInv'
<1>1. Working(r) /\ RequestsTypeOK /\ pc[r] = "number" /\ numberer = NoRequest
  BY DEF ProcurementInv, TypeOK, ReceiveNumber
<1>2. /\ pc'[r] = "receive" /\ numberer' = r
      /\ UNCHANGED <<tables, order, ask, seen, todo, next, copy, fresh>>
  BY <1>1 DEF ReceiveNumber, RequestsTypeOK
<1>3. RequestsTypeOK'
  BY <1>1 DEF ReceiveNumber, RequestsTypeOK
<1>4. Asked(r)' = Asked(r) /\ HeldItems(r)' = {}
  BY <1>1, <1>2 DEF Asked, HeldItems, Working
<1>5. Working(r)'
  BY <1>1, <1>2, <1>4 DEF Working, tables
<1>6. ASSUME NEW s \in Requests \ {r}
      PROVE  /\ Alone(s) /\ Undisturbed(s) /\ (numberer' = s <=> numberer = s)
             /\ HeldItems(r)' \cap HeldItems(s) = {} /\ order'[r] # order[s]
  <2>1. Alone(s)
    BY <1>1 DEF Alone, ReceiveNumber, RequestsTypeOK
  <2>2. order[r] # order[s]
    BY <1>1 DEF ProcurementInv, LocksExclusive
  <2> QED BY <1>1, <1>2, <1>4, <2>1, <2>2, QuietlyUndisturbed, ProcurementAssumption
<1>7. LocksExclusive' /\ \A s \in Requests : Working(s)'
  BY <1>5, <1>6, OneMovesOn DEF ProcurementInv
<1> QED BY <1>2, <1>3, <1>7, TablesStay

LEMMA NextLineKeeps ==
    ASSUME ProcurementInv, NEW r \in Requests, NEW i \in Items, NextLine(r, i)
    PROVE  ProcurementInv'
<1>1. Working(r) /\ RequestsTypeOK /\ pc[r] \in {"receive", "return"} /\ i \in todo[r]
  BY DEF ProcurementInv, TypeOK, NextLine
<1>2. /\ next'[r] = i
      /\ UNCHANGED <<tables, pc, order, ask, seen, todo, copy, fresh, numberer>>
  BY <1>1 DEF NextLine, RequestsTypeOK
<1>3. RequestsTypeOK'
  BY <1>1 DEF NextLine, RequestsTypeOK
<1>4. Asked(r)' = Asked(r) /\ HeldItems(r)' = HeldItems(r)
  BY <1>2 DEF Asked, HeldItems
<1>5. Working(r)'
  BY <1>1, <1>2, <1>4 DEF Working, tables, Unpriced
<1>6. ASSUME NEW s \in Requests \ {r}
      PROVE  /\ Alone(s) /\ Undisturbed(s) /\ (numberer' = s <=> numberer = s)
             /\ HeldItems(r)' \cap HeldItems(s) = {} /\ order'[r] # order[s]
  <2>1. Alone(s)
    BY <1>1 DEF Alone, NextLine, RequestsTypeOK
  <2>2. HeldItems(r) \cap HeldItems(s) = {} /\ order[r] # order[s]
    BY <1>1 DEF ProcurementInv, LocksExclusive
  <2> QED BY <1>2, <1>4, <2>1, <2>2, QuietlyUndisturbed
<1>7. LocksExclusive' /\ \A s \in Requests : Working(s)'
  BY <1>5, <1>6, OneMovesOn DEF ProcurementInv
<1> QED BY <1>2, <1>3, <1>7, TablesStay

(* The lock of the item is free: what is read under it stays. *)
LEMMA LockItemKeeps ==
    ASSUME ProcurementInv, NEW r \in Requests, LockItem(r)
    PROVE  ProcurementInv'
<1>1. Working(r) /\ RequestsTypeOK /\ next[r] # NoItem /\ ItemUnlocked(next[r])
  BY DEF ProcurementInv, TypeOK, LockItem
<1>2. PICK i \in Items : i = next[r] /\ i \in todo[r] /\ i \in Asked(r)
  BY <1>1 DEF Working, Asked
<1>3. pc[r] \in {"receive", "return"}
  BY <1>1, <1>2 DEF Working, RequestsTypeOK
<1>4. /\ todo' = [todo EXCEPT ![r] = @ \ {i}] /\ next' = [next EXCEPT ![r] = NoItem]
      /\ copy' = [copy EXCEPT ![r][i] = onHand[i]]
      /\ fresh' = [fresh EXCEPT ![r] =
             IF pc[r] = "receive" /\ Unpriced(order[r], i) THEN @ \cup {i} ELSE @]
      /\ UNCHANGED <<tables, pc, order, ask, seen, numberer>>
  BY <1>2 DEF LockItem
<1>5. RequestsTypeOK'
  <2>1. onHand[i] \in Nat
    BY DEF ProcurementInv, TypeOK, TablesTypeOK, Counts
  <2>2. [copy[r] EXCEPT ![i] = onHand[i]] \in Counts
    BY <1>1, <2>1 DEF RequestsTypeOK, Counts
  <2>3. copy' \in [Requests -> Counts]
    BY <1>1, <1>4, <2>2 DEF RequestsTypeOK
  <2> QED BY <1>1, <1>4, <2>3 DEF RequestsTypeOK
<1>6. /\ todo'[r] = todo[r] \ {i} /\ next'[r] = NoItem
      /\ fresh'[r] = IF pc[r] = "receive" /\ Unpriced(order[r], i) THEN fresh[r] \cup {i}
                     ELSE fresh[r]
      /\ copy'[r][i] = onHand[i] /\ \A j \in Items \ {i} : copy'[r][j] = copy[r][j]
  BY <1>1, <1>4 DEF RequestsTypeOK, Counts
<1>7. Asked(r)' = Asked(r) /\ HeldItems(r)' = HeldItems(r) \cup {i} /\ i \notin HeldItems(r)
  BY <1>2, <1>4, <1>6 DEF Asked, HeldItems
<1>8. Working(r)'
  <2>1. \A j \in fresh'[r] : j \in HeldItems(r)' /\ Unpriced(order[r], j)'
    BY <1>1, <1>4, <1>6, <1>7 DEF Working, Unpriced, tables
  <2>2. \A j \in HeldItems(r)' : copy'[r][j] = onHand'[j]
    <3>1. HeldItems(r) \subseteq Items /\ onHand' = onHand
      BY <1>4 DEF HeldItems, Asked, tables
    <3> QED BY <1>1, <1>6, <1>7, <3>1 DEF Working
  <2> QED BY <1>1, <1>3, <1>4, <1>6, <1>7, <2>1, <2>2 DEF Working, tables
<1>9. ASSUME NEW s \in Requests \ {r}
      PROVE  /\ Alone(s) /\ Undisturbed(s) /\ (numberer' = s <=> numberer = s)
             /\ HeldItems(r)' \cap HeldItems(s) = {} /\ order'[r] # order[s]
  <2>1. Alone(s)
    BY <1>1, <1>4 DEF Alone, RequestsTypeOK
  <2>2. HeldItems(r) \cap HeldItems(s) = {} /\ order[r] # order[s] /\ i \notin HeldItems(s)
    BY <1>1, <1>2, <1>3 DEF ProcurementInv, LocksExclusive, ItemUnlocked
  <2> QED BY <1>4, <1>7, <2>1, <2>2, QuietlyUndisturbed
<1>10. LocksExclusive' /\ \A s \in Requests : Working(s)'
  BY <1>8, <1>9, OneMovesOn DEF ProcurementInv
<1> QED BY <1>4, <1>5, <1>10, TablesStay

-----------------------------------------------------------------------------
(* Orders that are made, sent, cancelled and closed.                        *)

LEMMA NobodyMoves ==
    ASSUME ProcurementInv, UNCHANGED <<private, numberer>>, \A s \in Requests : Undisturbed(s)
    PROVE  RequestsTypeOK' /\ LocksExclusive' /\ \A s \in Requests : Working(s)'
<1>1. \A s \in Requests : Alone(s) /\ numberer' = numberer
  BY DEF Alone, private
<1>2. \A s \in Requests : /\ Working(s)' /\ HeldItems(s)' = HeldItems(s)
                         /\ pc'[s] = pc[s] /\ order'[s] = order[s]
  BY <1>1, StillWorking DEF ProcurementInv, Alone
<1>3. RequestsTypeOK'
  BY DEF ProcurementInv, TypeOK, RequestsTypeOK, private
<1>4. LocksExclusive'
  BY <1>2 DEF ProcurementInv, LocksExclusive
<1> QED BY <1>2, <1>3, <1>4

LEMMA AdministrationKeeps ==
    ASSUME ProcurementInv,
           UNCHANGED <<received, receipted, returned, onHand, other, price, private, numberer>>,
           status' \in [PurchaseOrders -> PurchaseOrderStatus \cup {"None"}],
           supplier' \in [PurchaseOrders -> Suppliers \cup {NoSupplier}],
           ordered' \in [PurchaseOrders -> Counts],
           \A po \in PurchaseOrders :
              \/ status'[po] = status[po] /\ supplier'[po] = supplier[po] /\ ordered'[po] = ordered[po]
              \/ status[po] = "None" /\ status'[po] = "Draft" /\ supplier'[po] \in Suppliers
              \/ /\ OrderUnlocked(po) /\ <<status[po], status'[po]>> \in Allowed
                 /\ supplier'[po] = supplier[po] /\ ordered'[po] = ordered[po]
    PROVE  ProcurementInv'
<1>1. ASSUME NEW s \in Requests PROVE Undisturbed(s)
  BY DEF Undisturbed, ProcurementInv, Working, OrderUnlocked
<1>2. RequestsTypeOK' /\ LocksExclusive' /\ \A s \in Requests : Working(s)'
  BY <1>1, NobodyMoves
<1>3. TablesTypeOK' /\ OnePricePerItem' /\ GoodsBalance'
  BY DEF ProcurementInv, TypeOK, TablesTypeOK, OnePricePerItem, GoodsBalance
<1>4. ASSUME NEW po \in PurchaseOrders, <<status[po], status'[po]>> \in Allowed
      PROVE  /\ status[po] # "None" /\ status'[po] \notin {"None", "Draft", "PartiallyReceived", "Received"}
             /\ status'[po] = "Closed" => status[po] = "Received"
             /\ status'[po] = "Sent" => status[po] = "Draft"
  BY <1>4 DEF Allowed
<1>5. OrdersFit'
  BY <1>4 DEF ProcurementInv, OrdersFit
<1>6. ReceivedIsReceipted'
  <2>1. SUFFICES ASSUME NEW po \in PurchaseOrders, NEW i \in Items
                 PROVE  received[po][i] = receipted[po][i] /\ received[po][i] <= ordered'[po][i]
    BY DEF ReceivedIsReceipted
  <2>2. received[po][i] = receipted[po][i] /\ received[po][i] <= ordered[po][i]
    BY DEF ProcurementInv, ReceivedIsReceipted
  <2>3. CASE status[po] = "None"
    <3>1. received[po][i] = 0 /\ ordered'[po][i] \in Nat
      BY <2>3 DEF ProcurementInv, StatusFromReceipts, Nothing, Counts
    <3> QED BY <2>2, <3>1
  <2>4. CASE ordered'[po] = ordered[po]
    BY <2>2, <2>4
  <2> QED BY <2>3, <2>4
<1>7. StatusFromReceipts'
  BY <1>4 DEF ProcurementInv, StatusFromReceipts
<1> QED BY <1>2, <1>3, <1>5, <1>6, <1>7 DEF ProcurementInv, TypeOK

LEMMA CreateKeeps ==
    ASSUME ProcurementInv, NEW po \in PurchaseOrders, NEW s \in Suppliers,
           NEW lines \in [Items -> 0..MaxQty], Create(po, s, lines)
    PROVE  ProcurementInv'
<1>1. lines \in Counts
  BY ProcurementAssumption DEF Counts
<1>2. /\ status' \in [PurchaseOrders -> PurchaseOrderStatus \cup {"None"}]
      /\ supplier' \in [PurchaseOrders -> Suppliers \cup {NoSupplier}]
      /\ ordered' \in [PurchaseOrders -> Counts]
  BY <1>1 DEF Create, ProcurementInv, TypeOK, TablesTypeOK, PurchaseOrderStatus
<1>3. /\ status[po] = "None" /\ status'[po] = "Draft" /\ supplier'[po] = s
      /\ \A p \in PurchaseOrders \ {po} :
            status'[p] = status[p] /\ supplier'[p] = supplier[p] /\ ordered'[p] = ordered[p]
  BY DEF Create, ProcurementInv, TypeOK, TablesTypeOK
<1> QED BY <1>2, <1>3, AdministrationKeeps DEF Create

LEMMA TransitionKeeps ==
    ASSUME ProcurementInv, NEW po \in PurchaseOrders, NEW to \in PurchaseOrderStatus,
           Transition(po, to)
    PROVE  ProcurementInv'
<1>1. /\ status' \in [PurchaseOrders -> PurchaseOrderStatus \cup {"None"}]
      /\ supplier' \in [PurchaseOrders -> Suppliers \cup {NoSupplier}]
      /\ ordered' \in [PurchaseOrders -> Counts]
  BY DEF Transition, ProcurementInv, TypeOK, TablesTypeOK
<1>2. /\ OrderUnlocked(po) /\ <<status[po], status'[po]>> \in Allowed
      /\ \A p \in PurchaseOrders \ {po} : status'[p] = status[p]
      /\ supplier' = supplier /\ ordered' = ordered
  BY DEF Transition, ProcurementInv, TypeOK, TablesTypeOK
<1> QED BY <1>1, <1>2, AdministrationKeeps DEF Transition

(* One order per supplier: all items of an order have its supplier's brand. *)
LEMMA CreateFromSuggestionsKeeps ==
    ASSUME ProcurementInv, NEW S \in SUBSET Items, CreateFromSuggestions(S)
    PROVE  ProcurementInv'
<1>1. \A i \in S : BrandSupplier[i] \in Suppliers
  BY ProcurementAssumption DEF CreateFromSuggestions, Suggestions
<1>2. PICK new \in Injection({BrandSupplier[i] : i \in S}, PurchaseOrders) :
          LET By(po) == {i \in S : new[BrandSupplier[i]] = po}
              Made == {po \in PurchaseOrders : By(po) # {}}
          IN  /\ \A po \in Made : status[po] = "None"
              /\ status' = [po \in PurchaseOrders |-> IF po \in Made THEN "Draft" ELSE status[po]]
              /\ supplier' = [po \in PurchaseOrders |->
                     IF po \in Made THEN CHOOSE s \in Suppliers : \A i \in By(po) : s = BrandSupplier[i]
                     ELSE supplier[po]]
              /\ ordered' = [po \in PurchaseOrders |-> [i \in Items |->
                     IF i \in By(po) THEN Threshold[i] ELSE ordered[po][i]]]
  BY DEF CreateFromSuggestions
<1> DEFINE By(po) == {i \in S : new[BrandSupplier[i]] = po}
           Made == {po \in PurchaseOrders : By(po) # {}}
<1>3. ASSUME NEW po \in Made
      PROVE  (CHOOSE s \in Suppliers : \A i \in By(po) : s = BrandSupplier[i]) \in Suppliers
  <2>1. \A i, j \in S : new[BrandSupplier[i]] = new[BrandSupplier[j]]
                            => BrandSupplier[i] = BrandSupplier[j]
    BY DEF Injection, IsInjective
  <2>2. PICK j : j \in By(po)
    OBVIOUS
  <2>3. BrandSupplier[j] \in Suppliers /\ \A i \in By(po) : BrandSupplier[j] = BrandSupplier[i]
    BY <1>1, <2>1, <2>2
  <2> QED BY <2>3
<1>4. ASSUME NEW po \in PurchaseOrders
      PROVE  /\ po \in Made => /\ status[po] = "None" /\ status'[po] = "Draft"
                              /\ supplier'[po] \in Suppliers
             /\ po \notin Made => status'[po] = status[po] /\ supplier'[po] = supplier[po]
  BY <1>2, <1>3
<1>5. ASSUME NEW po \in PurchaseOrders
      PROVE  ordered'[po] \in Counts /\ (po \notin Made => ordered'[po] = ordered[po])
  <2>1. ordered'[po] = [i \in Items |-> IF i \in By(po) THEN Threshold[i] ELSE ordered[po][i]]
    BY <1>2
  <2>2. ordered[po] \in [Items -> Nat] /\ Threshold \in [Items -> Nat]
    BY ProcurementAssumption DEF ProcurementInv, TypeOK, TablesTypeOK, Counts
  <2>3. po \notin Made => By(po) = {}
    OBVIOUS
  <2> QED BY <2>1, <2>2, <2>3 DEF Counts
<1>6. /\ status' \in [PurchaseOrders -> PurchaseOrderStatus \cup {"None"}]
      /\ supplier' \in [PurchaseOrders -> Suppliers \cup {NoSupplier}]
      /\ ordered' \in [PurchaseOrders -> Counts]
  <2>1. /\ DOMAIN status' = PurchaseOrders /\ status' = [po \in PurchaseOrders |-> status'[po]]
        /\ DOMAIN supplier' = PurchaseOrders /\ supplier' = [po \in PurchaseOrders |-> supplier'[po]]
        /\ DOMAIN ordered' = PurchaseOrders /\ ordered' = [po \in PurchaseOrders |-> ordered'[po]]
    BY <1>2
  <2>2. \A po \in PurchaseOrders : /\ status'[po] \in PurchaseOrderStatus \cup {"None"}
                                  /\ supplier'[po] \in Suppliers \cup {NoSupplier}
    BY <1>4 DEF ProcurementInv, TypeOK, TablesTypeOK, PurchaseOrderStatus
  <2> QED BY <1>5, <2>1, <2>2
<1>7. UNCHANGED <<received, receipted, returned, onHand, other, price, private, numberer>>
  BY DEF CreateFromSuggestions
<1> QED BY <1>4, <1>5, <1>6, <1>7, AdministrationKeeps

-----------------------------------------------------------------------------
(* Commits.                                                                 *)

(* The units of an item in a table that has a count per order and item.     *)
UnitsOf(table, i) == Summed([po \in PurchaseOrders |-> table[po][i]])

LEMMA BalanceInUnits ==
    GoodsBalance <=> \A i \in Items :
        onHand[i] = OpeningStock + other[i] + UnitsOf(receipted, i) - UnitsOf(returned, i)
BY Zenon DEF GoodsBalance, UnitsOf

(* What one order adds to them. *)
LEMMA UnitsChange ==
    ASSUME NEW f \in [PurchaseOrders -> Counts], NEW g \in [PurchaseOrders -> Counts],
           NEW po \in PurchaseOrders, NEW i \in Items,
           \A p \in PurchaseOrders \ {po} : g[p] = f[p]
    PROVE  /\ UnitsOf(g, i) = UnitsOf(f, i) + g[po][i] - f[po][i]
           /\ UnitsOf(f, i) \in Int
<1>1. PICK F : F = [p \in PurchaseOrders |-> f[p][i]]
  OBVIOUS
<1>2. PICK G : G = [p \in PurchaseOrders |-> g[p][i]]
  OBVIOUS
<1>3. \A p \in PurchaseOrders : F[p] \in Int /\ F[p] = f[p][i] /\ G[p] \in Int /\ G[p] = g[p][i]
  BY <1>1, <1>2 DEF Counts
<1>4. /\ SumFunctionOnSet(G, PurchaseOrders) = SumFunctionOnSet(F, PurchaseOrders) + G[po] - F[po]
      /\ SumFunctionOnSet(F, PurchaseOrders) \in Int
  BY <1>3, SumChange, SumInt, ProcurementAssumption
<1>5. UnitsOf(f, i) = SumFunctionOnSet(F, PurchaseOrders)
  BY <1>1, Zenon DEF UnitsOf, Summed
<1>6. UnitsOf(g, i) = SumFunctionOnSet(G, PurchaseOrders)
  BY <1>2, Zenon DEF UnitsOf, Summed
<1> QED BY <1>3, <1>4, <1>5, <1>6

(* A request that has all its items writes what it read under the locks. *)
LEMMA AllItemsHeld ==
    ASSUME ProcurementInv, NEW r \in Requests, pc[r] # "idle", todo[r] = {}
    PROVE  /\ order[r] \in PurchaseOrders /\ supplier[order[r]] \in Suppliers
           /\ status[order[r]] # "None"
           /\ seen[r] = received[order[r]]
           /\ ask[r] \in Counts /\ HeldItems(r) = Asked(r)
           /\ \A i \in Items : ask[r][i] > 0 => copy[r][i] = onHand[i]
           /\ \A s \in Requests \ {r} : /\ pc[s] # "idle" => order[s] # order[r]
                                       /\ \A i \in HeldItems(s) : ask[r][i] = 0
<1>1. Working(r) /\ ask[r] \in Counts
  BY DEF ProcurementInv, TypeOK, RequestsTypeOK
<1>2. HeldItems(r) = Asked(r)
  BY DEF HeldItems
<1>3. ASSUME NEW s \in Requests \ {r}, NEW i \in HeldItems(s) PROVE ask[r][i] = 0
  <2>1. i \in Items /\ i \notin Asked(r)
    BY <1>2 DEF ProcurementInv, LocksExclusive, HeldItems, Asked
  <2> QED BY <1>1, <2>1 DEF Asked, Counts
<1> QED BY <1>1, <1>2, <1>3 DEF Working, Asked, ProcurementInv, OrdersFit, LocksExclusive

LEMMA ReceiveCommitKeeps ==
    ASSUME ProcurementInv, NEW r \in Requests, ReceiveCommit(r)
    PROVE  ProcurementInv'
<1>1. PICK po : po = order[r]
  OBVIOUS
<1>2. PICK qty : qty = ask[r]
  OBVIOUS
<1>3. PICK have : have = [i \in Items |-> seen[r][i] + qty[i]]
  OBVIOUS
<1>4. PICK s : s = supplier[po]
  OBVIOUS
<1>5. /\ pc[r] = "receive" /\ todo[r] = {}
      /\ onHand' = [i \in Items |-> IF qty[i] > 0 THEN copy[r][i] + qty[i] ELSE onHand[i]]
      /\ received' = [received EXCEPT ![po] = have]
      /\ receipted' = [receipted EXCEPT ![po] = [i \in Items |-> @[i] + qty[i]]]
      /\ price' = [price EXCEPT ![s] = [i \in Items |-> @[i] + IF i \in fresh[r] THEN 1 ELSE 0]]
      /\ status' = [status EXCEPT ![po] =
             IF AllReceived(have, ordered[po]) THEN "Received" ELSE "PartiallyReceived"]
      /\ Finish(r)
      /\ UNCHANGED <<supplier, ordered, returned, other>>
  BY <1>1, <1>2, <1>3, <1>4, Zenon DEF ReceiveCommit
<1>6. /\ po \in PurchaseOrders /\ s \in Suppliers /\ seen[r] = received[po] /\ qty \in Counts
      /\ \A i \in Items : qty[i] > 0 => copy[r][i] = onHand[i]
      /\ \A p \in Requests \ {r} : /\ pc[p] # "idle" => order[p] # po
                                  /\ \A i \in HeldItems(p) : qty[i] = 0
  BY <1>1, <1>2, <1>4, <1>5, AllItemsHeld
<1>7. Working(r) /\ TablesTypeOK
  BY DEF ProcurementInv, TypeOK
<1>8. /\ \A i \in Items : qty[i] <= ordered[po][i] - received[po][i]
      /\ \A i \in fresh[r] : price[s][i] = 0
  BY <1>1, <1>2, <1>4, <1>5, <1>6, <1>7 DEF Working, Unpriced
<1>9. ASSUME NEW i \in Items
      PROVE  /\ qty[i] \in Nat /\ received[po][i] \in Nat /\ receipted[po][i] \in Nat
             /\ ordered[po][i] \in Nat /\ onHand[i] \in Nat /\ price[s][i] \in Nat
  BY <1>6, <1>7 DEF TablesTypeOK, Counts
<1>10. /\ \A i \in Items : onHand'[i] = onHand[i] + qty[i]
       /\ \A i \in Items : have[i] = received[po][i] + qty[i]
       /\ \A i \in Items : receipted'[po][i] = receipted[po][i] + qty[i]
       /\ \A i \in Items : price'[s][i] = price[s][i] + IF i \in fresh[r] THEN 1 ELSE 0
  BY <1>3, <1>5, <1>6, <1>7, <1>9 DEF TablesTypeOK
<1>11. /\ received'[po] = have
       /\ \A p \in PurchaseOrders \ {po} : /\ received'[p] = received[p] /\ status'[p] = status[p]
                                           /\ receipted'[p] = receipted[p]
       /\ \A t \in Suppliers \ {s} : price'[t] = price[t]
       /\ status'[po] = IF AllReceived(have, ordered[po]) THEN "Received" ELSE "PartiallyReceived"
  BY <1>5, <1>6, <1>7 DEF TablesTypeOK
<1>12. TablesTypeOK'
  <2>1. onHand' \in Counts
    BY <1>5, <1>9, <1>10 DEF Counts
  <2>2. have \in Counts
    BY <1>3, <1>6, <1>9 DEF Counts
  <2>3. [i \in Items |-> receipted[po][i] + qty[i]] \in Counts
    BY <1>9 DEF Counts
  <2>4. [i \in Items |-> price[s][i] + IF i \in fresh[r] THEN 1 ELSE 0] \in Counts
    BY <1>9 DEF Counts
  <2> QED BY <1>5, <1>6, <1>7, <2>1, <2>2, <2>3, <2>4 DEF TablesTypeOK, PurchaseOrderStatus
<1>13. RequestsTypeOK' /\ LocksExclusive' /\ \A p \in Requests : Working(p)'
  <2>1. ASSUME NEW p \in Requests \ {r} PROVE Undisturbed(p)
    <3>1. pc[p] # "receive"
      BY <1>5, <1>7 DEF ProcurementInv, Working
    <3>2. pc[p] # "idle" => order[p] \in PurchaseOrders /\ order[p] # po
      BY <1>6 DEF ProcurementInv, Working
    <3>3. \A i \in HeldItems(p) : i \in Items /\ onHand'[i] = onHand[i]
      BY <1>6, <1>9, <1>10 DEF HeldItems, Asked
    <3> QED BY <1>5, <1>11, <3>1, <3>2, <3>3 DEF Undisturbed
  <2> QED BY <1>5, <2>1, FinishMovesOn DEF ProcurementInv, TypeOK
<1>14. OrdersFit'
  BY <1>5, <1>6, <1>4, <1>11 DEF ProcurementInv, OrdersFit
<1>15. ReceivedIsReceipted'
  BY <1>5, <1>8, <1>9, <1>10, <1>11 DEF ProcurementInv, ReceivedIsReceipted
<1>16. StatusFromReceipts'
  <2>1. AllReceived(have, ordered[po]) => have = ordered[po]
    <3>1. have \in [Items -> Nat] /\ ordered[po] \in [Items -> Nat]
      BY <1>3, <1>6, <1>7, <1>9 DEF TablesTypeOK, Counts
    <3>2. \A i \in Items : have[i] <= ordered[po][i]
      BY <1>8, <1>9, <1>10
    <3> QED BY <3>1, <3>2 DEF AllReceived
  <2>2. ~AllReceived(have, ordered[po]) => \E i \in Items : have[i] < ordered[po][i]
    BY <1>9, <1>10 DEF AllReceived
  <2>3. ASSUME NEW p \in PurchaseOrders
        PROVE  /\ status'[p] \in {"Received", "Closed"} => received'[p] = ordered'[p]
               /\ status'[p] = "PartiallyReceived"
                     => \E i \in Items : received'[p][i] < ordered'[p][i]
               /\ status'[p] \in {"None", "Draft", "Sent"} => received'[p] = Nothing
    <3>1. CASE p = po
      BY <1>5, <1>11, <2>1, <2>2, <3>1
    <3>2. CASE p # po
      BY <1>5, <1>11, <3>2 DEF ProcurementInv, StatusFromReceipts
    <3> QED BY <3>1, <3>2
  <2> QED BY <2>3 DEF StatusFromReceipts
<1>17. OnePricePerItem'
  BY <1>8, <1>9, <1>10, <1>11 DEF ProcurementInv, OnePricePerItem
<1>18. GoodsBalance'
  <2>1. PICK f \in [PurchaseOrders -> Counts] : f = receipted
    BY <1>7 DEF TablesTypeOK
  <2>2. PICK g \in [PurchaseOrders -> Counts] : g = receipted'
    BY <1>12 DEF TablesTypeOK
  <2>3. PICK h \in [PurchaseOrders -> Counts] : h = returned
    BY <1>7 DEF TablesTypeOK
  <2>4. ASSUME NEW i \in Items
        PROVE  onHand'[i] = OpeningStock + other'[i] + UnitsOf(g, i) - UnitsOf(h, i)
    <3>1. onHand[i] = OpeningStock + other[i] + UnitsOf(f, i) - UnitsOf(h, i)
      BY <2>1, <2>3, BalanceInUnits, Zenon DEF ProcurementInv
    <3>2. UnitsOf(g, i) = UnitsOf(f, i) + g[po][i] - f[po][i] /\ UnitsOf(f, i) \in Int
      BY <1>6, <1>11, <2>1, <2>2, UnitsChange
    <3>3. UnitsOf(h, i) \in Int
      BY <1>6, UnitsChange
    <3>4. other' = other /\ other[i] \in Int
      BY <1>5, <1>7 DEF TablesTypeOK
    <3> QED BY <1>9, <1>10, <2>1, <2>2, <3>1, <3>2, <3>3, <3>4, ProcurementAssumption
  <2>5. returned' = h
    BY <1>5, <2>3
  <2> QED BY <2>2, <2>4, <2>5, Zenon DEF GoodsBalance, UnitsOf
<1> QED BY <1>12, <1>13, <1>14, <1>15, <1>16, <1>17, <1>18 DEF ProcurementInv, TypeOK

LEMMA ReturnCommitKeeps ==
    ASSUME ProcurementInv, NEW r \in Requests, ReturnCommit(r)
    PROVE  ProcurementInv'
<1>1. PICK po : po = order[r]
  OBVIOUS
<1>2. PICK qty : qty = ask[r]
  OBVIOUS
<1>3. /\ pc[r] = "return" /\ todo[r] = {} /\ Enough(r)
      /\ onHand' = [i \in Items |-> IF qty[i] > 0 THEN copy[r][i] - qty[i] ELSE onHand[i]]
      /\ returned' = [returned EXCEPT ![po] = [i \in Items |-> @[i] + qty[i]]]
      /\ Finish(r)
      /\ UNCHANGED <<status, supplier, ordered, received, receipted, other, price>>
  BY <1>1, <1>2, Zenon DEF ReturnCommit
<1>4. /\ po \in PurchaseOrders /\ qty \in Counts /\ HeldItems(r) = Asked(r)
      /\ \A i \in Items : qty[i] > 0 => copy[r][i] = onHand[i]
      /\ \A p \in Requests \ {r} : \A i \in HeldItems(p) : qty[i] = 0
  BY <1>1, <1>2, <1>3, AllItemsHeld
<1>5. TablesTypeOK
  BY DEF ProcurementInv, TypeOK
<1>6. ASSUME NEW i \in Items
      PROVE  /\ qty[i] \in Nat /\ returned[po][i] \in Nat /\ onHand[i] \in Nat
             /\ onHand'[i] = onHand[i] - qty[i] /\ onHand'[i] \in Nat
             /\ returned'[po][i] = returned[po][i] + qty[i]
  <2>1. qty[i] \in Nat /\ returned[po][i] \in Nat /\ onHand[i] \in Nat
    BY <1>4, <1>5 DEF TablesTypeOK, Counts
  <2>2. qty[i] > 0 => copy[r][i] >= qty[i] /\ copy[r][i] = onHand[i]
    BY <1>2, <1>3, <1>4 DEF Enough, Asked
  <2>3. returned'[po][i] = returned[po][i] + qty[i]
    BY <1>3, <1>4, <1>5 DEF TablesTypeOK
  <2> QED BY <1>3, <2>1, <2>2, <2>3
<1>7. \A p \in PurchaseOrders \ {po} : returned'[p] = returned[p]
  BY <1>3, <1>4, <1>5 DEF TablesTypeOK
<1>8. TablesTypeOK'
  <2>1. onHand' \in Counts
    BY <1>3, <1>6 DEF Counts
  <2>2. [i \in Items |-> returned[po][i] + qty[i]] \in Counts
    BY <1>6 DEF Counts
  <2> QED BY <1>3, <1>4, <1>5, <2>1, <2>2 DEF TablesTypeOK
<1>9. RequestsTypeOK' /\ LocksExclusive' /\ \A p \in Requests : Working(p)'
  <2>1. ASSUME NEW p \in Requests \ {r} PROVE Undisturbed(p)
    <3>1. \A i \in HeldItems(p) : i \in Items /\ onHand'[i] = onHand[i]
      BY <1>4, <1>6 DEF HeldItems, Asked
    <3> QED BY <1>3, <3>1 DEF Undisturbed
  <2> QED BY <1>3, <2>1, FinishMovesOn DEF ProcurementInv, TypeOK
<1>10. OrdersFit' /\ ReceivedIsReceipted' /\ StatusFromReceipts' /\ OnePricePerItem'
  BY <1>3 DEF ProcurementInv, OrdersFit, ReceivedIsReceipted, StatusFromReceipts, OnePricePerItem
<1>11. GoodsBalance'
  <2>1. PICK f \in [PurchaseOrders -> Counts] : f = returned
    BY <1>5 DEF TablesTypeOK
  <2>2. PICK g \in [PurchaseOrders -> Counts] : g = returned'
    BY <1>8 DEF TablesTypeOK
  <2>3. PICK h \in [PurchaseOrders -> Counts] : h = receipted
    BY <1>5 DEF TablesTypeOK
  <2>4. ASSUME NEW i \in Items
        PROVE  onHand'[i] = OpeningStock + other'[i] + UnitsOf(h, i) - UnitsOf(g, i)
    <3>1. onHand[i] = OpeningStock + other[i] + UnitsOf(h, i) - UnitsOf(f, i)
      BY <2>1, <2>3, BalanceInUnits, Zenon DEF ProcurementInv
    <3>2. UnitsOf(g, i) = UnitsOf(f, i) + g[po][i] - f[po][i] /\ UnitsOf(f, i) \in Int
      BY <1>4, <1>7, <2>1, <2>2, UnitsChange
    <3>3. UnitsOf(h, i) \in Int
      BY <1>4, UnitsChange
    <3>4. other' = other /\ other[i] \in Int
      BY <1>3, <1>5 DEF TablesTypeOK
    <3> QED BY <1>6, <2>1, <2>2, <3>1, <3>2, <3>3, <3>4, ProcurementAssumption
  <2>5. receipted' = h
    BY <1>3, <2>3
  <2> QED BY <2>2, <2>4, <2>5, Zenon DEF GoodsBalance, UnitsOf
<1> QED BY <1>8, <1>9, <1>10, <1>11 DEF ProcurementInv, TypeOK

LEMMA OtherMoveKeeps ==
    ASSUME ProcurementInv, NEW i \in Items, NEW n \in {-1, 1}, OtherMove(i, n)
    PROVE  ProcurementInv'
<1>1. TablesTypeOK /\ onHand[i] \in Nat /\ other[i] \in Int
  BY DEF ProcurementInv, TypeOK, TablesTypeOK, Counts
<1>2. /\ ItemUnlocked(i) /\ onHand[i] + n >= 0
      /\ onHand' = [onHand EXCEPT ![i] = @ + n] /\ other' = [other EXCEPT ![i] = @ + n]
      /\ UNCHANGED <<status, supplier, ordered, received, receipted, returned, price,
                     private, numberer>>
  BY DEF OtherMove
<1>3. onHand[i] + n \in Nat /\ other[i] + n \in Int
  BY <1>1, <1>2
<1>4. TablesTypeOK'
  BY <1>1, <1>2, <1>3 DEF TablesTypeOK, Counts
<1>5. ASSUME NEW s \in Requests PROVE Undisturbed(s)
  BY <1>1, <1>2 DEF Undisturbed, ItemUnlocked, TablesTypeOK, Counts
<1>6. RequestsTypeOK' /\ LocksExclusive' /\ \A p \in Requests : Working(p)'
  BY <1>2, <1>5, NobodyMoves
<1>7. OrdersFit' /\ ReceivedIsReceipted' /\ StatusFromReceipts' /\ OnePricePerItem'
  BY <1>2 DEF ProcurementInv, OrdersFit, ReceivedIsReceipted, StatusFromReceipts, OnePricePerItem
<1>8. GoodsBalance'
  <2>1. PICK f \in [PurchaseOrders -> Counts] : f = receipted
    BY <1>1 DEF TablesTypeOK
  <2>2. PICK g \in [PurchaseOrders -> Counts] : g = returned
    BY <1>1 DEF TablesTypeOK
  <2>3. ASSUME NEW j \in Items
        PROVE  onHand'[j] = OpeningStock + other'[j] + UnitsOf(f, j) - UnitsOf(g, j)
    <3>1. onHand[j] = OpeningStock + other[j] + UnitsOf(f, j) - UnitsOf(g, j)
      BY <2>1, <2>2, BalanceInUnits, Zenon DEF ProcurementInv
    <3>2. CASE j # i
      BY <1>1, <1>2, <3>1, <3>2 DEF TablesTypeOK, Counts
    <3>3. CASE j = i
      <4>1. UnitsOf(f, j) \in Int /\ UnitsOf(g, j) \in Int
        <5>1. CASE PurchaseOrders = {}
          <6>1. UnitsOf(f, j) = 0 /\ UnitsOf(g, j) = 0
            BY <5>1, SumEmpty, Zenon DEF UnitsOf, Summed
          <6> QED BY <6>1
        <5>2. ASSUME NEW po \in PurchaseOrders PROVE UnitsOf(f, j) \in Int /\ UnitsOf(g, j) \in Int
          BY UnitsChange
        <5> QED BY <5>1, <5>2
      <4>2. onHand'[j] = onHand[j] + n /\ other'[j] = other[j] + n
        BY <1>1, <1>2, <3>3 DEF TablesTypeOK, Counts
      <4> QED BY <1>1, <3>1, <3>3, <4>1, <4>2, ProcurementAssumption
    <3> QED BY <3>2, <3>3
  <2>4. receipted' = f /\ returned' = g
    BY <1>2, <2>1, <2>2
  <2> QED BY <2>3, <2>4, Zenon DEF GoodsBalance, UnitsOf
<1> QED BY <1>4, <1>6, <1>7, <1>8 DEF ProcurementInv, TypeOK

-----------------------------------------------------------------------------
(* Every step keeps the invariant.                                          *)

LEMMA ReceiptsStart ==
    ASSUME ProcurementInv, NEW r \in Requests, NEW po \in PurchaseOrders,
           NEW qty \in [Items -> 0..MaxQty], ReceiveStart(r, po, qty) \/ ReturnStart(r, po, qty)
    PROVE  ProcurementInv'
<1>1. qty \in Counts
  BY ProcurementAssumption DEF Counts
<1>2. CASE ReceiveStart(r, po, qty)
  <2>1. status[po] # "None"
    BY <1>2 DEF ReceiveStart, Receivable
  <2> QED BY <1>1, <1>2, <2>1, StartKeeps DEF ReceiveStart
<1>3. CASE ReturnStart(r, po, qty)
  <2>1. status[po] # "None"
    BY <1>3 DEF ReturnStart
  <2> QED BY <1>1, <1>3, <2>1, StartKeeps DEF ReturnStart
<1> QED BY <1>2, <1>3

LEMMA ProceedKeeps ==
    ASSUME ProcurementInv, NEW r \in Requests, Proceed(r)
    PROVE  ProcurementInv'
<1>1. CASE ReceiveNumber(r)
  BY <1>1, ReceiveNumberKeeps
<1>2. ASSUME NEW i \in Items, NextLine(r, i) PROVE ProcurementInv'
  BY <1>2, NextLineKeeps
<1>3. CASE LockItem(r)
  BY <1>3, LockItemKeeps
<1>4. CASE ReceiveCommit(r)
  BY <1>4, ReceiveCommitKeeps
<1>5. CASE ReturnCommit(r)
  BY <1>5, ReturnCommitKeeps
<1>6. CASE ReturnRefused(r)
  BY <1>6, RefusalKeeps DEF ReturnRefused
<1> QED BY <1>1, <1>2, <1>3, <1>4, <1>5, <1>6 DEF Proceed

LEMMA StepKeeps == ProcurementInv /\ [Next]_vars => ProcurementInv'
<1>1. SUFFICES ASSUME ProcurementInv, [Next]_vars PROVE ProcurementInv'
  OBVIOUS
<1>2. ASSUME NEW po \in PurchaseOrders, NEW s \in Suppliers, NEW lines \in [Items -> 0..MaxQty],
             Create(po, s, lines)
      PROVE  ProcurementInv'
  BY <1>1, <1>2, CreateKeeps
<1>3. ASSUME NEW S \in SUBSET Items, CreateFromSuggestions(S) PROVE ProcurementInv'
  BY <1>1, <1>3, CreateFromSuggestionsKeeps
<1>4. ASSUME NEW po \in PurchaseOrders, NEW to \in PurchaseOrderStatus, Transition(po, to)
      PROVE  ProcurementInv'
  BY <1>1, <1>4, TransitionKeeps
<1>5. ASSUME NEW r \in Requests, NEW po \in PurchaseOrders, NEW qty \in [Items -> 0..MaxQty],
             ReceiveStart(r, po, qty) \/ ReturnStart(r, po, qty)
      PROVE  ProcurementInv'
  BY <1>1, <1>5, ReceiptsStart
<1>6. ASSUME NEW r \in Requests, Proceed(r) PROVE ProcurementInv'
  BY <1>1, <1>6, ProceedKeeps
<1>7. ASSUME NEW r \in Requests, Victim(r) \/ Rollback(r) PROVE ProcurementInv'
  BY <1>1, <1>7, RefusalKeeps DEF Victim, Rollback
<1>8. ASSUME NEW i \in Items, NEW n \in {-1, 1}, OtherMove(i, n) PROVE ProcurementInv'
  BY <1>1, <1>8, OtherMoveKeeps
<1>9. CASE UNCHANGED vars
  <2>1. UNCHANGED tables /\ UNCHANGED <<private, numberer>>
    BY <1>9 DEF vars
  <2>2. \A s \in Requests : Undisturbed(s)
    BY <2>1, QuietlyUndisturbed
  <2>3. RequestsTypeOK' /\ LocksExclusive' /\ \A s \in Requests : Working(s)'
    BY <1>1, <2>1, <2>2, NobodyMoves
  <2> QED BY <1>1, <2>1, <2>3, TablesStay
<1> QED BY <1>1, <1>2, <1>3, <1>4, <1>5, <1>6, <1>7, <1>8, <1>9 DEF Next

(* The invariant that the theorems below rest on. *)
THEOREM ProcurementInvariance == Spec => []ProcurementInv
BY Initially, StepKeeps, PTL DEF Spec

-----------------------------------------------------------------------------
(* Stock and receipts are counts, and every request is where the code has a *)
(* place.                                                                   *)
THEOREM ProcurementIsWellTyped == Spec => []TypeOK
<1>1. ProcurementInv => TypeOK
  BY DEF ProcurementInv
<1> QED BY <1>1, ProcurementInvariance, PTL

(* Over-receipt is blocked, and received_qty is what the goods receipts say *)
(* (receiveWithin, on an order that is locked).                             *)
THEOREM ReceiptsAddUp == Spec => []ReceivedIsReceipted
<1>1. ProcurementInv => ReceivedIsReceipted
  BY DEF ProcurementInv
<1> QED BY <1>1, ProcurementInvariance, PTL

(* The status of an order follows what it has received. *)
THEOREM StatusFollowsReceipts == Spec => []StatusFromReceipts
<1>1. ProcurementInv => StatusFromReceipts
  BY DEF ProcurementInv
<1> QED BY <1>1, ProcurementInvariance, PTL

(* ensurePriceList looks for a price and adds one without a lock of its     *)
(* own: the lock of the receipt numbers keeps it from adding two.           *)
THEOREM PricesAreAddedOnce == Spec => []OnePricePerItem
<1>1. ProcurementInv => OnePricePerItem
  BY DEF ProcurementInv
<1> QED BY <1>1, ProcurementInvariance, PTL

(* No unit on hand is unaccounted for: stock is what receipts brought, less *)
(* what returns and all other moves took.                                   *)
THEOREM StockIsTheBalance == Spec => []GoodsBalance
<1>1. ProcurementInv => GoodsBalance
  BY DEF ProcurementInv
<1> QED BY <1>1, ProcurementInvariance, PTL

(* Goods receipts do not wait for each other in a circle: the one that has  *)
(* the row of the receipt numbers waits for none of the others.             *)
THEOREM ReceiptsWaitForOne == Spec => []ReceiptsDoNotDeadlock
<1>1. ProcurementInv => ReceiptsDoNotDeadlock
  <2>1. SUFFICES ASSUME ProcurementInv,
                        NEW S \in SUBSET {r \in Requests : pc[r] \in {"number", "receive"}},
                        NEW r \in S, \A p \in S : \E s \in S : WaitsFor(p, s)
                 PROVE  FALSE
    BY DEF ReceiptsDoNotDeadlock, Deadlocked
  <2>2. \A p \in S : /\ p \in Requests /\ Working(p) /\ HeldItems(p) \subseteq Items
                   /\ pc[p] \in {"number", "receive"}
    BY <2>1 DEF ProcurementInv, HeldItems, Asked
  <2>3. ASSUME NEW p \in S, NEW s \in S, WaitsFor(p, s) PROVE numberer = s
    <3>1. CASE next[p] \in HeldItems(s)
      <4>1. pc[s] # "number"
        BY <2>2, <3>1 DEF Working
      <4> QED BY <2>2, <4>1 DEF Working
    <3> QED BY <2>3, <3>1 DEF WaitsFor
  <2>4. PICK s \in S : WaitsFor(r, s)
    BY <2>1
  <2>5. PICK t \in S : WaitsFor(s, t)
    BY <2>1
  <2> QED BY <2>3, <2>4, <2>5 DEF WaitsFor
<1> QED BY <1>1, ProcurementInvariance, PTL
=============================================================================
