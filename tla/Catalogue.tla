----------------------------- MODULE Catalogue -----------------------------
(***************************************************************************)
(* The item, its alerts and the timer of the morning digest together, with  *)
(* the properties of what staff see of the stock.                           *)
(***************************************************************************)
EXTENDS StockAlerts

(* getAllAlerting: an active item with stock rows, compared with the        *)
(* threshold of the item and not with that of the configuration.            *)
Alerting == item.active /\ stock.rows /\ Low(stock.available, item.threshold)

(* The digest task, at 07:00: nothing is sent of an empty list.             *)
DigestList ==
    /\ digest = "idle" /\ Alerting
    /\ digest' = "listed"
    /\ UNCHANGED <<item, stock, config, req, histories>>

(* Sent, or not: a failure is logged and the next one comes in a day.       *)
DigestSend ==
    /\ digest = "listed"
    /\ digest' = "idle"
    /\ UNCHANGED <<item, stock, config, req, histories>>

(* A part of the quiet period passes; ages beyond it are all the same. It   *)
(* passes while requests read, but saving a stamp and telling the users of  *)
(* it takes no time (a tick is hours).                                      *)
Older(age) == IF age < Quiet THEN age + 1 ELSE Quiet
Aged(c) == IF "age" \in DOMAIN c THEN [c EXCEPT !.age = Older(@)] ELSE c
Tick ==
    /\ \A r \in Requests : req[r].step \notin {"select", "update", "notify"}
    /\ config' = Aged(config)
    /\ req' = [r \in Requests |-> [req[r] EXCEPT !.copy = Aged(@)]]
    /\ told' = [u \in Recipients |-> [told[u] EXCEPT !.age = Older(@)]]
    /\ UNCHANGED <<desk, item, stock, digest, sold, removed, stale, watched>>

Init ==
    /\ desk \in {"row", "alerts"}
    /\ item = NoItem /\ config = NoConfig
    /\ stock = [rows |-> FALSE, available |-> 0, reserved |-> 0]
    /\ req = [r \in Requests |-> Idle]
    /\ digest = "idle"
    /\ sold = 0 /\ removed = FALSE /\ stale = {} /\ watched = FALSE
    /\ told = [u \in Recipients |-> [age |-> Quiet, counts |-> FALSE]]

Next ==
    \/ Create \/ Reserve \/ Deliver \/ Tick \/ DigestList \/ DigestSend
    \/ \E r \in Requests :
          \/ EditRead(r) \/ EditSelect(r) \/ EditUpdate(r) \/ Move(r)
          \/ GetConfig(r) \/ LoadItem(r) \/ FindConfig(r) \/ InsertConfig(r) \/ InsertRefused(r)
          \/ ReadAvailable(r) \/ SaveSelect(r) \/ SaveUpdate(r) \/ Notify(r) \/ Fail(r)

Spec == Init /\ [][Next]_vars

-----------------------------------------------------------------------------
(* The row of an item tells the units sold, by which returns are accepted,  *)
(* and a deleted item stays deleted, as long as no edit saves a row that    *)
(* had changed between its read and its SELECT; a change after that SELECT  *)
(* survives the save.                                                       *)
RecordIsTrue ==
    (item # NoItem /\ "items" \notin stale) => item.sold = sold /\ item.active = ~removed

(* When the evaluations of all moves have ended, and moves alone changed    *)
(* what alerts depend on since the last move, a low item has been told to   *)
(* every recipient: after that move, or not longer than the quiet period    *)
(* before it. Only a failure after the stamp keeps an alert from a user.    *)
LowIsAlerted ==
    (/\ watched /\ \A r \in Requests : req[r].purpose # "evaluate"
     /\ config # NoConfig /\ config.enabled
     /\ stock.available <= config.threshold) => \A u \in Recipients : told[u].counts

(* Alerts of an item are a quiet period apart, unless a configuration was   *)
(* saved that had changed since it was read.                                *)
AlertsKeepQuiet ==
    [][\A r \in Requests : Notify(r) =>
          \A u \in req[r].rem \ req'[r].rem : told[u].age >= Quiet \/ "configs" \in stale]_vars

-----------------------------------------------------------------------------
(* The inductive invariant of CatalogueProofs. What a request carries at    *)
(* its step.                                                                *)
Saving == {"select", "update"}
Carries(q) ==
    /\ q.purpose = "edit" => q.step \in Saving /\ q.copy \in Item /\ item \in Item
    /\ q.step = "load" => q.purpose = "evaluate" /\ item \in Item
    /\ q.step = "find" => \/ q.copy = NoConfig /\ config # NoConfig
                          \/ q.copy \in Config /\ q.copy.age = Quiet
    /\ q.step = "insert" => q.copy \in Config /\ q.copy.age = Quiet
    /\ q.step = "read" => q.purpose = "evaluate"
    /\ (q.step = "read" \/ (q.step \in Saving /\ q.purpose # "edit")) =>
          q.purpose # "get" /\ q.copy \in Config /\ config # NoConfig
    /\ q.step = "notify" => q.purpose = "evaluate" /\ config # NoConfig
    /\ q.step # "notify" => q.rem = {}

(* Before the item is made, there is nothing to sell, to delete or to watch. *)
NothingYet == item = NoItem => sold = 0 /\ ~removed /\ ~watched

(* What a request has read is what is in the table, as long as no one has   *)
(* written there.                                                           *)
FreshRow(q) ==
    (q.fresh /\ q.purpose = "edit") =>
        /\ q.step = "select" => item.active /\ q.copy.sold = item.sold
        /\ q.step = "update" => "sold" \notin q.writes /\ ("active" \in q.writes <=> ~q.copy.active)

FreshConfig(q) ==
    q.fresh =>
        /\ q.step = "read" => q.copy = config
        /\ (q.purpose = "set" /\ q.step \in Saving) => q.copy.age = config.age
        /\ (q.purpose = "evaluate" /\ q.step \in Saving) => q.copy.age = 0 /\ config.age = Quiet
        /\ (q.purpose = "evaluate" /\ q.step = "update") => "age" \in q.writes

(* No user was told before the age on record, and no one notifies twice, ...*)
OneAlert ==
    "configs" \notin stale =>
        /\ config # NoConfig => \A u \in Recipients : config.age <= told[u].age
        /\ \A r \in Requests : req[r].step = "notify" =>
              config.age = 0 /\ \A u \in req[r].rem : told[u].age = Quiet
        /\ \A r, s \in Requests : (req[r].step = "notify" /\ req[s].step = "notify") => r = s
NobodyToldYet == config = NoConfig => \A u \in Recipients : told[u].age = Quiet

(* ... and every user was told since, or is about to be.                    *)
Pending(u) == \E r \in Requests : req[r].step = "notify" /\ u \in req[r].rem
Recording == {r \in Requests : \/ req[r].step = "read"
                               \/ req[r].purpose = "set" /\ req[r].step \in Saving}
ToldSince(u) ==
    /\ config # NoConfig => told[u].age <= config.age
    /\ \A r \in Recording : told[u].age <= req[r].copy.age
AgesAreTold ==
    \A u \in Recipients : /\ told[u].age < Quiet => told[u].counts
                          /\ Pending(u) \/ ToldSince(u)

(* A low item is still to be looked at, or to be told of.                   *)
Looking(q) ==
    /\ q.purpose = "evaluate"
    /\ \/ q.step \in {"load", "find"} \cup Saving
       \/ q.step = "read" /\ Settings(q.copy) = Settings(config)
LowIsSeen ==
    (/\ watched /\ config # NoConfig /\ config.enabled
     /\ stock.available <= config.threshold) =>
        \/ \E r \in Requests : Looking(req[r])
        \/ \A u \in Recipients : told[u].counts \/ Pending(u)

CatalogueInv ==
    /\ TypeOK /\ NothingYet /\ RecordIsTrue /\ OneAlert /\ NobodyToldYet /\ AgesAreTold /\ LowIsSeen
    /\ \A r \in Requests : Carries(req[r]) /\ FreshRow(req[r]) /\ FreshConfig(req[r])
=============================================================================
