------------------------------- MODULE Items -------------------------------
(***************************************************************************)
(* One item of the catalogue: its row, its stock as a whole, the requests   *)
(* that edit the row, and the stock moves that write it too. Items do not   *)
(* interact, so one is enough.                                              *)
(*                                                                         *)
(* update and softDelete read the row without a lock, change it and save    *)
(* it: save is a SELECT and an UPDATE of the columns in which the row that  *)
(* was read and changed differs from what the SELECT saw. A stock move      *)
(* locks the row and is one step. Nobody deletes an item's row.             *)
(***************************************************************************)
EXTENDS Integers

CONSTANTS
    Requests, Recipients,
    Thresholds,   \* bound: the low-stock thresholds anyone sets
    MaxUnits,     \* bound: units in stock
    MaxSold,      \* bound: units sold
    Quiet,        \* ALERT_QUIET_HOURS, in ticks of the clock
    QueriesAsMeant \* as in ErpTables: FALSE, and stock with rows never moves

ASSUME CatalogueAssumption ==
    /\ Thresholds \subseteq Nat /\ Thresholds # {}
    /\ MaxUnits \in Nat /\ MaxSold \in Nat /\ Quiet \in Nat \ {0}
    /\ QueriesAsMeant \in BOOLEAN

Purposes == {"edit", "evaluate", "set", "get"}

Item == [active : BOOLEAN, sold : 0..MaxSold, threshold : Thresholds]
Config == [threshold : Thresholds, enabled : BOOLEAN, age : 0..Quiet]
Stock == [rows : BOOLEAN, available : -MaxUnits..MaxUnits, reserved : 0..MaxUnits]
NoItem == [active |-> FALSE]
NoConfig == [enabled |-> FALSE]

VARIABLES
    desk,     \* bound: whether this behaviour is about the row or about its alerts
    item,     \* items
    stock,    \* item_stocks: has it rows, and the units available (on hand
              \* and not reserved) and reserved in all
    config,   \* stock_alert_configs; age: how long ago it last alerted
    req,      \* the requests being served, and the evaluations after a move
    digest,   \* the morning digest: "idle", or "listed" while it is sent
    sold,     \* history: units sold and not returned
    removed,  \* history: whether the item was deleted
    stale,    \* history: the tables of which a save wrote over a newer row
    watched,  \* history: nothing but moves has changed what an alert depends on
    told      \* history: how long ago a user was told, and if that still counts

vars == <<desk, item, stock, config, req, digest, sold, removed, stale, watched, told>>
histories == <<desk, sold, removed, stale, watched, told>>

(* purpose and step: what a request is for and where it is; copy: the row   *)
(* it read, with its changes; writes: the columns in which its SELECT saw   *)
(* another value; fresh: whether no one else has written that row since it  *)
(* was read; rem: users it has still to notify.                             *)
Idle ==
    [step |-> "idle", purpose |-> "get", copy |-> NoItem, writes |-> {}, fresh |-> TRUE,
     rem |-> {}]

Columns == {"active", "sold", "threshold", "enabled", "age"}
Records == Item \cup Config \cup {NoItem, NoConfig}
Request ==
    [step : {"idle", "load", "find", "insert", "read", "select", "update", "notify"},
     purpose : Purposes, copy : Records, writes : SUBSET Columns, fresh : BOOLEAN,
     rem : SUBSET Recipients]

(* The tables hold what their columns may.                                  *)
TypeOK ==
    /\ desk \in {"row", "alerts"}
    /\ item \in Item \cup {NoItem}
    /\ stock \in Stock
    /\ config \in Config \cup {NoConfig}
    /\ req \in [Requests -> Request]
    /\ digest \in {"idle", "listed"}
    /\ sold \in 0..MaxSold /\ removed \in BOOLEAN
    /\ stale \subseteq {"items", "configs"} /\ watched \in BOOLEAN
    /\ told \in [Recipients -> [age : 0..Quiet, counts : BOOLEAN]]

Goto(r, s) == req' = [req EXCEPT ![r].step = s]
Done(r) == req' = [req EXCEPT ![r] = Idle]

(* The requests after r went on to q and wrote the row of the requests S.   *)
Wrote(r, q, S) ==
    req' = [s \in Requests |-> IF s = r THEN q
                               ELSE [req[s] EXCEPT !.fresh = @ /\ s \notin S]]

-----------------------------------------------------------------------------
(* create: with an initial quantity it writes the first stock row and its   *)
(* transaction, and nothing evaluates that one. The code is unique, so a    *)
(* second create of it is refused, also after the item was deleted.         *)
Create ==
    /\ item = NoItem
    /\ \E threshold \in Thresholds, initialQty \in 0..MaxUnits :
          /\ item' = [active |-> TRUE, sold |-> 0, threshold |-> threshold]
          /\ stock' = [rows |-> initialQty > 0, available |-> initialQty, reserved |-> 0]
    /\ UNCHANGED <<config, req, digest, histories>>

(* update and softDelete: findOne reads active items only, then the change. *)
EditRead(r) ==
    /\ desk = "row" /\ req[r] = Idle /\ item.active
    /\ \E changed \in {[item EXCEPT !.active = FALSE]} \cup
                      {[item EXCEPT !.threshold = t] : t \in Thresholds} :
          req' = [req EXCEPT ![r] = [Idle EXCEPT
                    !.step = "select", !.purpose = "edit", !.copy = changed]]
    /\ UNCHANGED <<item, stock, config, digest, histories>>

Differing(a, b) == {c \in DOMAIN a : a[c] # b[c]}

(* The edits that have still to look at the row again.                      *)
Editing == {r \in Requests : req[r].purpose = "edit" /\ req[r].step = "select"}

EditSelect(r) ==
    /\ req[r].purpose = "edit" /\ req[r].step = "select"
    /\ req' = [req EXCEPT ![r].step = "update", ![r].writes = Differing(req[r].copy, item)]
    /\ UNCHANGED <<item, stock, config, digest, histories>>

(* The UPDATE writes those columns of the row as it is now.                 *)
\* Mutant: writes every column of the row that was read.
WholeRow(copy, writes, now) == copy
Merged(copy, writes, now) ==
    [c \in DOMAIN now |-> IF c \in writes THEN copy[c] ELSE now[c]]

EditUpdate(r) ==
    /\ req[r].purpose = "edit" /\ req[r].step = "update"
    /\ item' = Merged(req[r].copy, req[r].writes, item)
    /\ removed' = (removed \/ ~req[r].copy.active)
    /\ stale' = stale \cup (IF req[r].fresh THEN {} ELSE {"items"})
    /\ Wrote(r, Idle, Editing)
    /\ UNCHANGED <<desk, stock, config, digest, sold, watched, told>>

-----------------------------------------------------------------------------
(* What a move does to the units available, reserved and sold: a sale takes *)
(* units on hand, whoever has reserved them, or, for an order, its reserved *)
(* ones; a return gives back what was sold; adjustments and transfers leave *)
(* sold alone.                                                              *)
MoveKinds ==
    [sale |-> [units |-> -1, reserved |-> 0, sold |-> 1],
     orderSale |-> [units |-> 0, reserved |-> -1, sold |-> 1],
     return |-> [units |-> 1, reserved |-> 0, sold |-> -1],
     transfer |-> [units |-> 0, reserved |-> 0, sold |-> 0],
     increase |-> [units |-> 1, reserved |-> 0, sold |-> 0],
     decrease |-> [units |-> -1, reserved |-> 0, sold |-> 0]]

(* Neither the reserved units nor those on hand go below zero; what is      *)
(* available does when more is reserved than is there.                      *)
Counted(s) == s.reserved \in 0..MaxUnits /\ s.available + s.reserved \in 0..MaxUnits
Changed(units, reserved) ==
    [rows |-> TRUE, available |-> stock.available + units, reserved |-> stock.reserved + reserved]

(* execute: the move commits, with the counter of the row it has locked,    *)
(* and its evaluation begins. What users were told counts for this move     *)
(* when it is not older than the quiet period.                              *)
Move(r) ==
    /\ QueriesAsMeant
    /\ req[r] = Idle /\ item.active
    /\ \E k \in DOMAIN MoveKinds :
          /\ stock' = Changed(MoveKinds[k].units, MoveKinds[k].reserved)
          /\ Counted(stock')
          /\ item.sold + MoveKinds[k].sold \in 0..MaxSold
          /\ desk = "row" \/ MoveKinds[k].sold = 0
          /\ sold + MoveKinds[k].sold \in 0..MaxSold
          /\ item' = [item EXCEPT !.sold = @ + MoveKinds[k].sold]
          /\ sold' = sold + MoveKinds[k].sold
    /\ Wrote(r, [Idle EXCEPT !.step = "load", !.purpose = "evaluate"], Editing)
    /\ watched' = TRUE
    /\ told' = [u \in Recipients |-> [told[u] EXCEPT !.counts = @ /\ told[u].age < Quiet]]
    /\ UNCHANGED <<desk, config, digest, removed, stale>>

(* What sales orders do to the stock, which no one evaluates afterwards:    *)
(* confirm takes units that are on hand (free at their location), cancel    *)
(* gives reserved ones back; ...                                            *)
Unevaluated ==
    /\ QueriesAsMeant /\ stock.rows
    /\ Counted(stock')
    /\ watched' = FALSE
    /\ UNCHANGED <<desk, item, config, req, digest, sold, removed, stale, told>>

Reserve ==
    /\ \/ stock.available + stock.reserved > 0 /\ stock' = Changed(-1, 1)
       \/ stock' = Changed(1, -1)
    /\ Unevaluated

(* ... and a delivery takes reserved units out, or free ones.               *)
Deliver ==
    /\ stock' = Changed(0, -1) \/ stock' = Changed(-1, 0)
    /\ Unevaluated
=============================================================================
