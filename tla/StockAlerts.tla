---------------------------- MODULE StockAlerts ----------------------------
(***************************************************************************)
(* The alert configuration of an item and the requests that read and save   *)
(* it: GET and PUT /stock-alerts/:id, and the evaluation after each stock   *)
(* move, which stamps the configuration, emits the alert and writes one     *)
(* notification per recipient. None of it is in a transaction, and a        *)
(* failure of an evaluation is swallowed.                                   *)
(***************************************************************************)
EXTENDS Items

(* getConfig reads the item first: the threshold of a configuration that is *)
(* still to be made.                                                        *)
Loaded(p) ==
    [Idle EXCEPT !.step = "find", !.purpose = p,
       !.copy = IF config # NoConfig THEN NoConfig
                ELSE [threshold |-> item.threshold, enabled |-> TRUE, age |-> Quiet]]

(* GET and PUT /stock-alerts/:id; a GET of a configuration that is there    *)
(* changes nothing and is left out.                                         *)
GetConfig(r) ==
    /\ desk = "alerts" /\ req[r] = Idle /\ item # NoItem
    /\ \E p \in {"get", "set"} :
          /\ p = "get" => config = NoConfig
          /\ req' = [req EXCEPT ![r] = Loaded(p)]
    /\ UNCHANGED <<item, stock, config, digest, histories>>

LoadItem(r) ==
    /\ desk = "alerts" /\ req[r].step = "load"
    /\ req' = [req EXCEPT ![r] = Loaded("evaluate")]
    /\ UNCHANGED <<item, stock, config, digest, histories>>

(* Where a request goes on with the configuration c: setConfig assigns the  *)
(* values it was sent, an evaluation stops at a disabled one.               *)
WithConfig(r, c) ==
    \/ req[r].purpose = "get" /\ Done(r)
    \/ /\ req[r].purpose = "set"
       /\ \E t \in Thresholds, enabled \in BOOLEAN :
             req' = [req EXCEPT ![r].step = "select",
                       ![r].copy = [c EXCEPT !.threshold = t, !.enabled = enabled]]
    \/ /\ req[r].purpose = "evaluate"
       /\ IF c.enabled THEN req' = [req EXCEPT ![r].step = "read", ![r].copy = c]
                       ELSE Done(r)

FindConfig(r) ==
    /\ req[r].step = "find"
    /\ IF config # NoConfig THEN WithConfig(r, config) ELSE Goto(r, "insert")
    /\ UNCHANGED <<item, stock, config, digest, histories>>

InsertConfig(r) ==
    /\ req[r].step = "insert" /\ config = NoConfig
    /\ config' = req[r].copy
    /\ watched' = (watched /\ req[r].purpose = "evaluate")
    /\ WithConfig(r, req[r].copy)
    /\ UNCHANGED <<desk, item, stock, digest, sold, removed, stale, told>>

(* item_id is unique: another request has inserted the configuration.       *)
InsertRefused(r) ==
    /\ req[r].step = "insert" /\ config # NoConfig
    /\ Done(r)
    /\ UNCHANGED <<item, stock, config, digest, histories>>

\* Mutant: an item at its threshold is not low.
BelowOnly(available, threshold) == available < threshold
Low(available, threshold) == available <= threshold

\* Mutant: the quiet period ends one tick early.
QuietEndsEarly(c) == c.age >= Quiet - 1
QuietIsOver(c) == c.age >= Quiet

(* The evaluation reads what is available and, when that is at or below the *)
(* threshold and the quiet period is over, stamps its configuration.        *)
ReadAvailable(r) ==
    /\ req[r].step = "read"
    /\ IF Low(stock.available, req[r].copy.threshold) /\ QuietIsOver(req[r].copy)
       THEN req' = [req EXCEPT ![r].step = "select", ![r].copy.age = 0]
       ELSE Done(r)
    /\ UNCHANGED <<item, stock, config, digest, histories>>

SaveSelect(r) ==
    /\ req[r].purpose # "edit" /\ req[r].step = "select"
    /\ req' = [req EXCEPT ![r].step = "update", ![r].writes = Differing(req[r].copy, config)]
    /\ UNCHANGED <<item, stock, config, digest, histories>>

(* The requests that hold a configuration they have read.                   *)
Holding ==
    {r \in Requests : req[r].purpose # "edit" /\ req[r].step \in {"read", "select", "update"}}

(* An evaluation whose stamp is saved emits the alert and goes on to the    *)
(* notifications; setConfig is done.                                        *)
Settings(c) == <<c.threshold, c.enabled>>
SaveUpdate(r) ==
    /\ req[r].purpose # "edit" /\ req[r].step = "update"
    /\ config' = Merged(req[r].copy, req[r].writes, config)
    /\ stale' = stale \cup (IF req[r].fresh THEN {} ELSE {"configs"})
    /\ watched' = (watched /\ Settings(config') = Settings(config))
    /\ IF req[r].purpose = "evaluate"
       THEN Wrote(r, [Idle EXCEPT !.step = "notify", !.purpose = "evaluate",
                                  !.rem = Recipients], Holding)
       ELSE Wrote(r, Idle, Holding)
    /\ UNCHANGED <<desk, item, stock, digest, sold, removed, told>>

(* createForRoles writes one notification after the other.                  *)
Told(users) ==
    [u \in Recipients |-> IF u \in users THEN [age |-> 0, counts |-> TRUE] ELSE told[u]]
Notify(r) ==
    /\ req[r].step = "notify"
    /\ \E u \in req[r].rem :
          /\ told' = Told({u})
          /\ IF req[r].rem = {u} THEN Done(r)
             ELSE req' = [req EXCEPT ![r].rem = @ \ {u}]
    /\ UNCHANGED <<desk, item, stock, config, digest, sold, removed, stale, watched>>

(* A request fails or, with a crash, each of them does. Nothing is rolled   *)
(* back: an alert that was stamped is not repeated while it is quiet, so    *)
(* the users it did not reach are counted as told.                          *)
Fail(r) ==
    /\ req[r] # Idle
    /\ Done(r)
    /\ watched' = (watched /\ req[r].purpose # "evaluate")
    /\ told' = Told(req[r].rem)
    /\ UNCHANGED <<desk, item, stock, config, digest, sold, removed, stale>>
=============================================================================
