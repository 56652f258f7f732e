-------------------------- MODULE CatalogueProofs --------------------------
(***************************************************************************)
(* For any number of requests, recipients, thresholds and units, and any    *)
(* quiet period: the row of an item tells the truth while no edit saves a   *)
(* row that had changed, a low item has been told to every recipient, and   *)
(* alerts keep the quiet period.                                            *)
(***************************************************************************)
EXTENDS Catalogue, TLAPS

-----------------------------------------------------------------------------
(* The two kinds of record, and what becomes of one that is saved or ages.  *)
LEMMA Kinds ==
    /\ NoItem \notin Item /\ NoConfig \notin Config /\ Item \cap Config = {}
    /\ Idle \in Request /\ Idle.step = "idle" /\ Idle.purpose = "get" /\ Idle.rem = {}
    /\ \A c \in Config : c # NoItem
    /\ \A c \in Item \cup {NoItem} : c # NoConfig
BY DEF NoItem, NoConfig, Item, Config, Idle, Request, Purposes, Records, Columns

LEMMA ItemMerged ==
    ASSUME NEW a \in Item, NEW b \in Item, NEW w
    PROVE  /\ Merged(a, w, b) \in Item
           /\ Merged(a, w, b).sold = IF "sold" \in w THEN a.sold ELSE b.sold
           /\ Merged(a, w, b).active = IF "active" \in w THEN a.active ELSE b.active
BY DEF Merged, Item

LEMMA ConfigMerged ==
    ASSUME NEW a \in Config, NEW b \in Config, NEW w
    PROVE  /\ Merged(a, w, b) \in Config
           /\ Merged(a, w, b).age = IF "age" \in w THEN a.age ELSE b.age
BY DEF Merged, Config

LEMMA OlderFits ==
    ASSUME NEW n \in 0..Quiet
    PROVE  /\ Older(n) \in 0..Quiet /\ n <= Older(n) /\ Older(Quiet) = Quiet
           /\ Older(n) < Quiet => n < Quiet
           /\ \A m \in 0..Quiet : n <= m => Older(n) <= Older(m)
BY CatalogueAssumption DEF Older

LEMMA ConfigAged ==
    ASSUME NEW c \in Config
    PROVE  /\ Aged(c) \in Config /\ Aged(c).age = Older(c.age)
           /\ Aged(c).threshold = c.threshold /\ Aged(c).enabled = c.enabled
<1>1. Older(c.age) \in 0..Quiet
  BY OlderFits DEF Config
<1> QED BY <1>1 DEF Aged, Config

LEMMA OthersNotAged ==
    ASSUME NEW c \in Item \cup {NoItem, NoConfig}
    PROVE  Aged(c) = c
BY DEF Aged, Item, NoItem, NoConfig

-----------------------------------------------------------------------------
(* Type correctness.                                                        *)
LEMMA LoadedFits ==
    ASSUME TypeOK, NEW p \in Purposes, config # NoConfig \/ item \in Item
    PROVE  /\ Loaded(p) \in Request /\ Loaded(p).step = "find" /\ Loaded(p).purpose = p
           /\ Loaded(p).rem = {}
           /\ \/ Loaded(p).copy = NoConfig /\ config # NoConfig
              \/ Loaded(p).copy \in Config /\ Loaded(p).copy.age = Quiet
<1>1. config = NoConfig =>
          [threshold |-> item.threshold, enabled |-> TRUE, age |-> Quiet] \in Config
  BY CatalogueAssumption DEF Item, Config
<1> QED BY <1>1 DEF Loaded, Idle, Request, Purposes, Records, Columns

LEMMA ActiveItem ==
    ASSUME TypeOK, item.active
    PROVE  item \in Item
BY DEF TypeOK, NoItem

(* One request goes on: what the assignments of a step make of its record.  *)
Steps == {"idle", "load", "find", "insert", "read", "select", "update", "notify"}
Same(r) == \A s \in Requests \ {r} : req'[s] = req[s]
KeepsPurpose(r) == req'[r].purpose = req[r].purpose /\ req'[r].fresh = req[r].fresh

LEMMA GoesOn ==
    ASSUME req \in [Requests -> Request], NEW r \in Requests, NEW step \in Steps,
           req' = [req EXCEPT ![r].step = step]
    PROVE  /\ req' \in [Requests -> Request] /\ Same(r)
           /\ req'[r].step = step /\ req'[r].copy = req[r].copy /\ req'[r].writes = req[r].writes
           /\ KeepsPurpose(r) /\ req'[r].rem = req[r].rem
BY DEF Request, Steps, Same, KeepsPurpose

LEMMA GoesOnCopying ==
    ASSUME req \in [Requests -> Request], NEW r \in Requests, NEW step \in Steps,
           NEW value \in Records, req' = [req EXCEPT ![r].step = step, ![r].copy = value]
    PROVE  /\ req' \in [Requests -> Request] /\ Same(r)
           /\ req'[r].step = step /\ req'[r].copy = value /\ req'[r].writes = req[r].writes
           /\ KeepsPurpose(r) /\ req'[r].rem = req[r].rem
<1>1. PICK q \in Request : q = req[r]
  OBVIOUS
<1>2. PICK p : p = [q EXCEPT !.step = step, !.copy = value]
  OBVIOUS
<1>3. p \in Request
  BY <1>2 DEF Request, Steps
<1>4. req' = [req EXCEPT ![r] = p]
  BY <1>1, <1>2
<1>5. /\ p.step = step /\ p.copy = value /\ p.writes = q.writes
      /\ p.purpose = q.purpose /\ p.fresh = q.fresh /\ p.rem = q.rem
  BY <1>1, <1>2 DEF Request
<1> QED BY <1>1, <1>3, <1>4, <1>5 DEF Same, KeepsPurpose

LEMMA GoesOnWriting ==
    ASSUME req \in [Requests -> Request], NEW r \in Requests, NEW step \in Steps,
           NEW value \in SUBSET Columns,
           req' = [req EXCEPT ![r].step = step, ![r].writes = value]
    PROVE  /\ req' \in [Requests -> Request] /\ Same(r)
           /\ req'[r].step = step /\ req'[r].copy = req[r].copy /\ req'[r].writes = value
           /\ KeepsPurpose(r) /\ req'[r].rem = req[r].rem
<1>1. PICK q \in Request : q = req[r]
  OBVIOUS
<1>2. PICK p : p = [q EXCEPT !.step = step, !.writes = value]
  OBVIOUS
<1>3. p \in Request
  BY <1>2 DEF Request, Steps
<1>4. req' = [req EXCEPT ![r] = p]
  BY <1>1, <1>2
<1>5. /\ p.step = step /\ p.copy = q.copy /\ p.writes = value
      /\ p.purpose = q.purpose /\ p.fresh = q.fresh /\ p.rem = q.rem
  BY <1>1, <1>2 DEF Request
<1> QED BY <1>1, <1>3, <1>4, <1>5 DEF Same, KeepsPurpose

LEMMA GoesOnTelling ==
    ASSUME req \in [Requests -> Request], NEW r \in Requests, NEW u,
           req' = [req EXCEPT ![r].rem = @ \ {u}]
    PROVE  /\ req' \in [Requests -> Request] /\ Same(r)
           /\ req'[r].step = req[r].step /\ req'[r].copy = req[r].copy
           /\ req'[r].writes = req[r].writes
           /\ KeepsPurpose(r) /\ req'[r].rem = req[r].rem \ {u}
BY DEF Request, Same, KeepsPurpose

LEMMA Replaced ==
    ASSUME req \in [Requests -> Request], NEW r \in Requests, NEW q \in Request,
           req' = [req EXCEPT ![r] = q]
    PROVE  req' \in [Requests -> Request] /\ Same(r) /\ req'[r] = q
BY DEF Same

LEMMA WroteFits ==
    ASSUME TypeOK, NEW r \in Requests, NEW q \in Request, NEW S, Wrote(r, q, S)
    PROVE  req' \in [Requests -> Request]
<1>1. ASSUME NEW s \in Requests PROVE [req[s] EXCEPT !.fresh = @ /\ s \notin S] \in Request
  <2>1. PICK p \in Request : p = req[s]
    BY DEF TypeOK
  <2>2. [p EXCEPT !.fresh = @ /\ s \notin S] \in Request
    BY DEF Request
  <2> QED BY <2>1, <2>2
<1> QED BY <1>1 DEF Wrote

LEMMA WithConfigFits ==
    ASSUME TypeOK, NEW r \in Requests, NEW c \in Config, WithConfig(r, c)
    PROVE  req' \in [Requests -> Request]
<1>1. req[r].purpose = "get" /\ Done(r) => req' \in [Requests -> Request]
  BY Kinds DEF TypeOK, Done
<1>2. ASSUME NEW t \in Thresholds, NEW e \in BOOLEAN,
             req' = [req EXCEPT ![r].step = "select",
                       ![r].copy = [c EXCEPT !.threshold = t, !.enabled = e]]
      PROVE  req' \in [Requests -> Request]
  <2>1. [c EXCEPT !.threshold = t, !.enabled = e] \in Records
    BY DEF Config, Records
  <2> QED BY <1>2, <2>1, GoesOnCopying DEF TypeOK, Steps
<1>3. Done(r) => req' \in [Requests -> Request]
  BY Kinds DEF TypeOK, Done
<1>4. req' = [req EXCEPT ![r].step = "read", ![r].copy = c] => req' \in [Requests -> Request]
  BY GoesOnCopying DEF TypeOK, Steps, Records
<1> QED BY <1>1, <1>2, <1>3, <1>4 DEF WithConfig

LEMMA DifferingFits ==
    ASSUME NEW a \in Item \cup Config, NEW b
    PROVE  Differing(a, b) \subseteq Columns
BY DEF Differing, Item, Config, Columns

LEMMA ToldFits ==
    ASSUME TypeOK, NEW users
    PROVE  Told(users) \in [Recipients -> [age : 0..Quiet, counts : BOOLEAN]]
BY CatalogueAssumption DEF Told, TypeOK

LEMMA EditsKeepTypes ==
    ASSUME TypeOK, NEW r \in Requests, Carries(req[r]),
           EditRead(r) \/ EditSelect(r) \/ EditUpdate(r)
    PROVE  TypeOK'
<1>1. CASE EditRead(r)
  <2>1. item \in Item
    BY <1>1, ActiveItem DEF EditRead
  <2>2. PICK changed \in {[item EXCEPT !.active = FALSE]} \cup
                         {[item EXCEPT !.threshold = t] : t \in Thresholds} :
          req' = [req EXCEPT ![r] = [Idle EXCEPT
                    !.step = "select", !.purpose = "edit", !.copy = changed]]
    BY <1>1 DEF EditRead
  <2>3. changed \in Item
    BY <2>1, <2>2 DEF Item
  <2>4. [Idle EXCEPT !.step = "select", !.purpose = "edit", !.copy = changed] \in Request
    BY <2>3, Kinds DEF Request, Records, Purposes
  <2> QED BY <1>1, <2>2, <2>4 DEF EditRead, TypeOK, histories
<1>2. CASE EditSelect(r)
  <2>1. req[r].copy \in Item
    BY <1>2 DEF EditSelect, Carries
  <2>2. Differing(req[r].copy, item) \subseteq Columns
    BY <2>1, DifferingFits
  <2>3. req' \in [Requests -> Request]
    BY <1>2, <2>2, GoesOnWriting DEF EditSelect, TypeOK, Steps
  <2> QED BY <1>2, <2>3 DEF EditSelect, TypeOK, histories
<1>3. CASE EditUpdate(r)
  <2>1. req[r].copy \in Item /\ item \in Item
    BY <1>3 DEF EditUpdate, Carries
  <2>2. item' \in Item
    BY <1>3, <2>1, ItemMerged DEF EditUpdate
  <2>3. req' \in [Requests -> Request]
    BY <1>3, WroteFits, Kinds DEF EditUpdate
  <2>4. removed' \in BOOLEAN
    BY <1>3, <2>1 DEF EditUpdate, TypeOK, Item
  <2> QED BY <1>3, <2>2, <2>3, <2>4 DEF EditUpdate, TypeOK
<1> QED BY <1>1, <1>2, <1>3

(* Units on hand and reserved that are counts make the units available a    *)
(* number from -MaxUnits to MaxUnits.                                       *)
LEMMA CountedStock ==
    ASSUME TypeOK, NEW units \in Int, NEW reserved \in Int,
           Counted(Changed(units, reserved))
    PROVE  Changed(units, reserved) \in Stock
<1>1. stock.available \in Int /\ stock.reserved \in Int /\ MaxUnits \in Nat
  BY CatalogueAssumption DEF TypeOK, Stock
<1> QED BY <1>1 DEF Counted, Changed, Stock

LEMMA MovesKeepTypes ==
    ASSUME TypeOK, NEW r \in Requests, Move(r)
    PROVE  TypeOK'
<1>1. item \in Item
  BY ActiveItem DEF Move
<1>2. PICK k \in DOMAIN MoveKinds :
          /\ stock' = Changed(MoveKinds[k].units, MoveKinds[k].reserved)
          /\ Counted(stock')
          /\ item.sold + MoveKinds[k].sold \in 0..MaxSold
          /\ sold + MoveKinds[k].sold \in 0..MaxSold
          /\ item' = [item EXCEPT !.sold = @ + MoveKinds[k].sold]
          /\ sold' = sold + MoveKinds[k].sold
  BY DEF Move
<1>3. item' \in Item /\ stock' \in Stock /\ sold' \in 0..MaxSold
  <2>1. MoveKinds[k].units \in Int /\ MoveKinds[k].reserved \in Int
    BY DEF MoveKinds
  <2>2. stock' \in Stock
    BY <1>2, <2>1, CountedStock
  <2> QED BY <1>1, <1>2, <2>2 DEF Item
<1>4. [Idle EXCEPT !.step = "load", !.purpose = "evaluate"] \in Request
  BY Kinds DEF Request, Purposes
<1>5. req' \in [Requests -> Request]
  BY <1>4, WroteFits DEF Move
<1>6. told' \in [Recipients -> [age : 0..Quiet, counts : BOOLEAN]]
  BY DEF Move, TypeOK
<1> QED BY <1>3, <1>5, <1>6 DEF Move, TypeOK

LEMMA AlertsKeepTypes ==
    ASSUME TypeOK, NEW r \in Requests, Carries(req[r]),
           \/ GetConfig(r) \/ LoadItem(r) \/ FindConfig(r) \/ InsertConfig(r) \/ InsertRefused(r)
           \/ ReadAvailable(r) \/ SaveSelect(r) \/ SaveUpdate(r) \/ Notify(r) \/ Fail(r)
    PROVE  TypeOK'
<1>1. CASE GetConfig(r)
  <2>1. PICK p \in {"get", "set"} : req' = [req EXCEPT ![r] = Loaded(p)]
    BY <1>1 DEF GetConfig
  <2>2. Loaded(p) \in Request
    BY <1>1, <2>1, LoadedFits DEF GetConfig, TypeOK, Purposes
  <2> QED BY <1>1, <2>1, <2>2 DEF GetConfig, TypeOK, histories
<1>2. CASE LoadItem(r)
  <2>1. Loaded("evaluate") \in Request
    BY <1>2, LoadedFits DEF LoadItem, Carries, Purposes
  <2> QED BY <1>2, <2>1 DEF LoadItem, TypeOK, histories
<1>3. CASE FindConfig(r)
  <2>1. config # NoConfig => config \in Config
    BY DEF TypeOK
  <2>2. Goto(r, "insert") => req' \in [Requests -> Request]
    BY DEF Goto, TypeOK, Request
  <2>3. req' \in [Requests -> Request]
    BY <1>3, <2>1, <2>2, WithConfigFits DEF FindConfig
  <2> QED BY <1>3, <2>3 DEF FindConfig, TypeOK, histories
<1>4. CASE InsertConfig(r)
  <2>1. req[r].copy \in Config
    BY <1>4 DEF InsertConfig, Carries
  <2>2. req' \in [Requests -> Request]
    BY <1>4, <2>1, WithConfigFits DEF InsertConfig
  <2> QED BY <1>4, <2>1, <2>2 DEF InsertConfig, TypeOK
<1>5. CASE InsertRefused(r)
  BY <1>5, Kinds DEF InsertRefused, Done, TypeOK, histories
<1>6. CASE ReadAvailable(r)
  <2>1. req[r].copy \in Config
    BY <1>6 DEF ReadAvailable, Carries
  <2>2. [req[r].copy EXCEPT !.age = 0] \in Config
    BY <2>1, CatalogueAssumption DEF Config
  <2>3. req' \in [Requests -> Request]
    BY <1>6, <2>2, Kinds DEF ReadAvailable, Done, TypeOK, Request, Records
  <2> QED BY <1>6, <2>3 DEF ReadAvailable, TypeOK, histories
<1>7. CASE SaveSelect(r)
  <2>1. req[r].copy \in Config
    BY <1>7 DEF SaveSelect, Carries, Saving
  <2>2. Differing(req[r].copy, config) \subseteq Columns
    BY <2>1, DifferingFits
  <2>3. req' \in [Requests -> Request]
    BY <1>7, <2>2, GoesOnWriting DEF SaveSelect, TypeOK, Steps
  <2> QED BY <1>7, <2>3 DEF SaveSelect, TypeOK, histories
<1>8. CASE SaveUpdate(r)
  <2>1. req[r].copy \in Config /\ config \in Config
    BY <1>8 DEF SaveUpdate, Carries, Saving, TypeOK
  <2>2. config' \in Config
    BY <1>8, <2>1, ConfigMerged DEF SaveUpdate
  <2>3. [Idle EXCEPT !.step = "notify", !.purpose = "evaluate", !.rem = Recipients] \in Request
    BY Kinds DEF Request, Purposes
  <2>4. req' \in [Requests -> Request]
    BY <1>8, <2>3, WroteFits, Kinds DEF SaveUpdate
  <2> QED BY <1>8, <2>2, <2>4 DEF SaveUpdate, TypeOK
<1>9. CASE Notify(r)
  <2>1. PICK u \in req[r].rem :
          /\ told' = Told({u})
          /\ IF req[r].rem = {u} THEN Done(r)
             ELSE req' = [req EXCEPT ![r].rem = @ \ {u}]
    BY <1>9 DEF Notify
  <2>2. req' \in [Requests -> Request]
    BY <2>1, Kinds, GoesOnTelling DEF Done, TypeOK
  <2>3. told' \in [Recipients -> [age : 0..Quiet, counts : BOOLEAN]]
    BY <2>1, ToldFits
  <2> QED BY <1>9, <2>2, <2>3 DEF Notify, TypeOK
<1>10. CASE Fail(r)
  <2>1. req' \in [Requests -> Request]
    BY <1>10, Kinds DEF Fail, Done, TypeOK
  <2>2. told' \in [Recipients -> [age : 0..Quiet, counts : BOOLEAN]]
    BY <1>10, ToldFits DEF Fail
  <2> QED BY <1>10, <2>1, <2>2 DEF Fail, TypeOK
<1> QED BY <1>1, <1>2, <1>3, <1>4, <1>5, <1>6, <1>7, <1>8, <1>9, <1>10

LEMMA ClockKeepsTypes ==
    ASSUME TypeOK, Create \/ Reserve \/ Deliver \/ Tick \/ DigestList \/ DigestSend
    PROVE  TypeOK'
<1>1. CASE Create
  <2>1. PICK threshold \in Thresholds, initialQty \in 0..MaxUnits :
          /\ item' = [active |-> TRUE, sold |-> 0, threshold |-> threshold]
          /\ stock' = [rows |-> initialQty > 0, available |-> initialQty, reserved |-> 0]
    BY <1>1 DEF Create
  <2>2. item' \in Item
    BY <2>1, CatalogueAssumption DEF Item
  <2>3. stock' \in Stock
    BY <2>1, CatalogueAssumption DEF Stock
  <2> QED BY <1>1, <2>2, <2>3 DEF Create, TypeOK, histories
<1>2. CASE Reserve \/ Deliver
  <2>1. PICK units \in {-1, 0, 1}, reserved \in {-1, 0, 1} : stock' = Changed(units, reserved)
    BY <1>2 DEF Reserve, Deliver
  <2>2. stock' \in Stock
    BY <1>2, <2>1, CountedStock DEF Reserve, Deliver, Unevaluated
  <2> QED BY <1>2, <2>2 DEF Reserve, Deliver, Unevaluated, TypeOK
<1>3. CASE Tick
  <2>1. \A c \in Records : Aged(c) \in Records
    BY ConfigAged, OthersNotAged DEF Records
  <2>2. \A r \in Requests : [req[r] EXCEPT !.copy = Aged(@)] \in Request
    BY <2>1 DEF TypeOK, Request
  <2>3. config' \in Config \cup {NoConfig}
    BY <1>3, ConfigAged, OthersNotAged DEF Tick, TypeOK
  <2>4. told' \in [Recipients -> [age : 0..Quiet, counts : BOOLEAN]]
    BY <1>3, OlderFits DEF Tick, TypeOK
  <2> QED BY <1>3, <2>2, <2>3, <2>4 DEF Tick, TypeOK
<1>4. CASE DigestList \/ DigestSend
  BY <1>4 DEF DigestList, DigestSend, TypeOK, histories
<1> QED BY <1>1, <1>2, <1>3, <1>4
-----------------------------------------------------------------------------
(* What becomes of the requests: the one that takes the step, and the       *)
(* others, which keep all but what they had read of a row that is written.  *)
Keeps(s) ==
    /\ req'[s].step = req[s].step /\ req'[s].purpose = req[s].purpose
    /\ req'[s].copy = req[s].copy /\ req'[s].writes = req[s].writes
    /\ req'[s].rem = req[s].rem /\ (req'[s].fresh => req[s].fresh)

LEMMA WroteDoes ==
    ASSUME TypeOK, NEW r \in Requests, NEW q, NEW S, Wrote(r, q, S)
    PROVE  /\ req'[r] = q
           /\ \A s \in Requests \ {r} : Keeps(s) /\ (s \in S => ~req'[s].fresh)
<1>1. req'[r] = q
  BY DEF Wrote
<1>2. ASSUME NEW s \in Requests \ {r} PROVE Keeps(s) /\ (s \in S => ~req'[s].fresh)
  <2>1. PICK p \in Request : p = req[s]
    BY DEF TypeOK
  <2>2. req'[s] = [p EXCEPT !.fresh = p.fresh /\ s \notin S]
    BY <2>1 DEF Wrote
  <2> QED BY <2>1, <2>2 DEF Keeps, Request
<1> QED BY <1>1, <1>2

LEMMA DoneDoes ==
    ASSUME TypeOK, NEW r \in Requests, Done(r)
    PROVE  Same(r) /\ req'[r] = Idle
BY DEF TypeOK, Done, Same

(* A request that goes on with the configuration c is done with it, is to   *)
(* save it under its old age, or looks at the stock with it.                *)
LEMMA WithConfigDoes ==
    ASSUME TypeOK, NEW r \in Requests, NEW c \in Config, WithConfig(r, c)
    PROVE  /\ Same(r)
           /\ \/ req'[r] = Idle /\ (req[r].purpose = "evaluate" => ~c.enabled)
              \/ /\ req[r].purpose = "set" /\ req'[r].purpose = "set" /\ req'[r].step = "select"
                 /\ req'[r].copy \in Config /\ req'[r].copy.age = c.age
                 /\ req'[r].fresh = req[r].fresh /\ req'[r].rem = req[r].rem
              \/ /\ req[r].purpose = "evaluate" /\ req'[r].purpose = "evaluate"
                 /\ req'[r].step = "read" /\ req'[r].copy = c /\ c.enabled
                 /\ req'[r].fresh = req[r].fresh /\ req'[r].rem = req[r].rem
<1>1. req \in [Requests -> Request] /\ c \in Records
  BY DEF TypeOK, Records
<1>2. CASE req[r].purpose = "get" /\ Done(r)
  BY <1>2, DoneDoes
<1>3. ASSUME NEW t \in Thresholds, NEW e \in BOOLEAN, req[r].purpose = "set",
             req' = [req EXCEPT ![r].step = "select",
                       ![r].copy = [c EXCEPT !.threshold = t, !.enabled = e]]
      PROVE  /\ Same(r) /\ req'[r].purpose = "set" /\ req'[r].step = "select"
             /\ req'[r].copy \in Config /\ req'[r].copy.age = c.age
             /\ req'[r].fresh = req[r].fresh /\ req'[r].rem = req[r].rem
  <2>1. PICK d : d = [c EXCEPT !.threshold = t, !.enabled = e]
    OBVIOUS
  <2>2. d \in Config /\ d \in Records /\ d.age = c.age
    BY <2>1 DEF Config, Records
  <2>3. req' = [req EXCEPT ![r].step = "select", ![r].copy = d]
    BY <1>3, <2>1
  <2>4. /\ Same(r) /\ req'[r].step = "select" /\ req'[r].copy = d
        /\ KeepsPurpose(r) /\ req'[r].rem = req[r].rem
    BY <1>1, <2>2, <2>3, GoesOnCopying DEF Steps
  <2> QED BY <1>3, <2>2, <2>4 DEF KeepsPurpose
<1>4. CASE req[r].purpose = "evaluate" /\ ~c.enabled /\ Done(r)
  BY <1>4, DoneDoes
<1>5. CASE /\ req[r].purpose = "evaluate" /\ c.enabled
           /\ req' = [req EXCEPT ![r].step = "read", ![r].copy = c]
  BY <1>1, <1>5, GoesOnCopying DEF Steps, KeepsPurpose
<1> QED BY <1>2, <1>3, <1>4, <1>5 DEF WithConfig

-----------------------------------------------------------------------------
(* The parts of the invariant that are about one request, for those that    *)
(* do not take the step.                                                    *)
LEMMA OthersCarry ==
    ASSUME NEW s, Carries(req[s]), Keeps(s), item \in Item => item' \in Item,
           config # NoConfig => config' # NoConfig
    PROVE  Carries(req[s])'
BY DEF Carries, Keeps

LEMMA OthersFreshRow ==
    ASSUME NEW s, FreshRow(req[s]), Keeps(s),
           UNCHANGED item \/ (req[s].purpose = "edit" /\ req[s].step = "select" => ~req'[s].fresh)
    PROVE  FreshRow(req[s])'
BY DEF FreshRow, Keeps

LEMMA OthersFreshConfig ==
    ASSUME NEW s, FreshConfig(req[s]), Keeps(s), Carries(req[s]),
           \/ UNCHANGED config
           \/ req[s].purpose # "edit" /\ req[s].step \in {"read"} \cup Saving => ~req'[s].fresh
    PROVE  FreshConfig(req[s])'
BY DEF FreshConfig, Keeps, Carries, Saving
-----------------------------------------------------------------------------
(* The steps that only read: they change the request that takes them, and   *)
(* of the rest of the state the invariant asks only what it records, and    *)
(* who looks at a low item.                                                 *)
Unwritten == UNCHANGED <<item, stock, config, desk, sold, removed, stale, watched, told>>
LowWatched == watched /\ config # NoConfig /\ config.enabled /\ stock.available <= config.threshold

LEMMA ReadsKeep ==
    ASSUME CatalogueInv, NEW r \in Requests, Same(r), Unwritten, TypeOK',
           req[r].step # "notify", req'[r].step # "notify",
           Carries(req[r])', FreshRow(req[r])', FreshConfig(req[r])',
           r \in Recording' =>
               \/ r \in Recording /\ req'[r].copy = req[r].copy
               \/ config # NoConfig /\ req'[r].copy.age = config.age
               \/ req'[r].copy.age = Quiet,
           LowWatched => \/ Looking(req[r]) => Looking(req[r])'
                   \/ \A u \in Recipients : told[u].counts \/ Pending(u)
    PROVE  CatalogueInv'
<1>1. \A s \in Requests \ {r} : req'[s] = req[s] /\ Keeps(s)
  BY DEF Same, Keeps
<1>2. \A s \in Requests : Carries(req[s])' /\ FreshRow(req[s])' /\ FreshConfig(req[s])'
  BY <1>1, OthersCarry, OthersFreshRow, OthersFreshConfig DEF CatalogueInv, Unwritten
<1>3. NothingYet' /\ RecordIsTrue' /\ NobodyToldYet'
  BY DEF CatalogueInv, Unwritten, NothingYet, RecordIsTrue, NobodyToldYet
<1>4. OneAlert'
  BY <1>1 DEF CatalogueInv, Unwritten, OneAlert
<1>5. \A u \in Recipients : Pending(u)' <=> Pending(u)
  BY <1>1 DEF Pending
<1>6. AgesAreTold'
  <2>1. \A u \in Recipients : told[u].age \in 0..Quiet
    BY DEF CatalogueInv, TypeOK
  <2>2. ASSUME NEW u \in Recipients, ToldSince(u) PROVE ToldSince(u)'
    <3>1. ASSUME NEW s \in Recording' PROVE told[u].age <= req'[s].copy.age
      <4>1. CASE s = r
        BY <2>1, <2>2, <3>1, <4>1, CatalogueAssumption DEF ToldSince
      <4>2. CASE s # r
        BY <1>1, <2>2, <3>1, <4>2 DEF ToldSince, Recording
      <4> QED BY <4>1, <4>2
    <3> QED BY <2>2, <3>1 DEF ToldSince, Unwritten
  <2> QED BY <1>5, <2>2 DEF CatalogueInv, Unwritten, AgesAreTold
<1>7. LowIsSeen'
  <2>1. SUFFICES ASSUME LowWatched PROVE
            \/ \E s \in Requests : Looking(req[s])'
            \/ \A u \in Recipients : told[u].counts \/ Pending(u)
    BY <1>5 DEF LowIsSeen, LowWatched, Unwritten
  <2>2. ASSUME NEW s \in Requests, Looking(req[s]), s # r PROVE Looking(req[s])'
    BY <1>1, <2>2 DEF Looking, Unwritten
  <2> QED BY <2>1, <2>2 DEF CatalogueInv, LowIsSeen, LowWatched
<1> QED BY <1>2, <1>3, <1>4, <1>6, <1>7 DEF CatalogueInv
LEMMA IdleFits ==
    ASSUME NEW r, req'[r] = Idle
    PROVE  /\ Carries(req[r])' /\ FreshRow(req[r])' /\ FreshConfig(req[r])' /\ r \notin Recording'
           /\ req'[r].step = "idle" /\ ~Looking(req[r])'
BY DEF Idle, Carries, FreshRow, FreshConfig, Recording, Looking, Saving

LEMMA EditsRead ==
    ASSUME CatalogueInv, NEW r \in Requests, EditRead(r) \/ EditSelect(r)
    PROVE  CatalogueInv'
<1>1. Carries(req[r]) /\ FreshRow(req[r]) /\ TypeOK
  BY DEF CatalogueInv
<1>2. TypeOK'
  BY <1>1, EditsKeepTypes
<1>3. Unwritten
  BY DEF EditRead, EditSelect, Unwritten, histories
<1>4. CASE EditRead(r)
  <2>1. item \in Item /\ item.active
    BY <1>1, <1>4, ActiveItem DEF EditRead
  <2>2. PICK changed \in {[item EXCEPT !.active = FALSE]} \cup
                         {[item EXCEPT !.threshold = t] : t \in Thresholds} :
          req' = [req EXCEPT ![r] = [Idle EXCEPT
                    !.step = "select", !.purpose = "edit", !.copy = changed]]
    BY <1>4 DEF EditRead
  <2>3. changed \in Item /\ changed.sold = item.sold
    BY <2>1, <2>2 DEF Item
  <2>4. PICK q : q = [Idle EXCEPT !.step = "select", !.purpose = "edit", !.copy = changed]
    OBVIOUS
  <2>5. /\ q \in Request /\ q.step = "select" /\ q.purpose = "edit" /\ q.copy = changed
        /\ q.rem = {}
    BY <2>3, <2>4 DEF Idle, Request, Purposes, Records, Columns
  <2>6. Same(r) /\ req'[r] = q
    BY <1>1, <2>2, <2>4, <2>5, Replaced DEF TypeOK
  <2>7. Carries(req[r])' /\ FreshRow(req[r])' /\ FreshConfig(req[r])'
    BY <1>3, <2>1, <2>3, <2>5, <2>6 DEF Carries, FreshRow, FreshConfig, Saving, Unwritten
  <2>8. r \notin Recording' /\ ~Looking(req[r]) /\ req[r].step # "notify"
    BY <1>4, <2>5, <2>6, Kinds DEF EditRead, Recording, Looking
  <2> QED BY <1>2, <1>3, <2>5, <2>6, <2>7, <2>8, ReadsKeep
<1>5. CASE EditSelect(r)
  <2>1. req[r].copy \in Item /\ item \in Item /\ req[r].rem = {}
    BY <1>1, <1>5 DEF EditSelect, Carries
  <2>2. PICK w \in SUBSET Columns : w = Differing(req[r].copy, item)
    BY <2>1, DifferingFits
  <2>3. /\ Same(r) /\ req'[r].step = "update" /\ req'[r].copy = req[r].copy
        /\ req'[r].writes = w /\ KeepsPurpose(r) /\ req'[r].rem = req[r].rem
    <3>1. req' = [req EXCEPT ![r].step = "update", ![r].writes = w]
      BY <1>5, <2>2 DEF EditSelect
    <3>2. req \in [Requests -> Request]
      BY <1>1 DEF TypeOK
    <3> QED BY <3>1, <3>2, GoesOnWriting DEF Steps
  <2>4. /\ "sold" \in w <=> req[r].copy.sold # item.sold
        /\ "active" \in w <=> req[r].copy.active # item.active
        /\ req[r].copy.active \in BOOLEAN /\ item.active \in BOOLEAN
    BY <2>1, <2>2 DEF Differing, Item
  <2>5. Carries(req[r])' /\ FreshConfig(req[r])' /\ r \notin Recording'
    BY <1>3, <1>5, <2>1, <2>3
       DEF EditSelect, Carries, FreshConfig, Saving, Unwritten, KeepsPurpose, Recording
  <2>6. FreshRow(req[r])'
    BY <1>1, <1>5, <2>3, <2>4 DEF EditSelect, FreshRow, KeepsPurpose
  <2>7. ~Looking(req[r]) /\ req[r].step # "notify" /\ req'[r].step # "notify"
    BY <1>5, <2>3 DEF EditSelect, Looking
  <2> QED BY <1>2, <1>3, <2>3, <2>5, <2>6, <2>7, ReadsKeep
<1> QED BY <1>4, <1>5

LEMMA AlertsRead ==
    ASSUME CatalogueInv, NEW r \in Requests, GetConfig(r) \/ LoadItem(r)
    PROVE  CatalogueInv'
<1>1. Carries(req[r]) /\ TypeOK
  BY DEF CatalogueInv
<1>2. TypeOK'
  BY <1>1, AlertsKeepTypes
<1>3. Unwritten
  BY DEF GetConfig, LoadItem, Unwritten, histories
<1>4. PICK p \in Purposes \ {"edit"} :
          /\ req' = [req EXCEPT ![r] = Loaded(p)] /\ item \in Item
          /\ Looking(req[r]) => p = "evaluate"
          /\ req[r].step # "notify"
  <2>1. CASE GetConfig(r)
    <3>1. item \in Item /\ ~Looking(req[r]) /\ req[r].step # "notify"
      BY <1>1, <2>1, Kinds DEF GetConfig, TypeOK, Looking
    <3> QED BY <2>1, <3>1 DEF GetConfig, Purposes
  <2>2. CASE LoadItem(r)
    <3>1. item \in Item /\ req[r].step = "load"
      BY <1>1, <2>2 DEF LoadItem, Carries
    <3> QED BY <2>2, <3>1 DEF LoadItem, Purposes
  <2> QED BY <2>1, <2>2
<1>5. PICK q : q = Loaded(p)
  OBVIOUS
<1>6. /\ q \in Request /\ q.step = "find" /\ q.purpose = p /\ q.rem = {}
      /\ \/ q.copy = NoConfig /\ config # NoConfig
         \/ q.copy \in Config /\ q.copy.age = Quiet
  BY <1>1, <1>4, <1>5, LoadedFits
<1>7. Same(r) /\ req'[r] = q
  BY <1>1, <1>4, <1>5, <1>6, Replaced DEF TypeOK
<1>8. Carries(req[r])' /\ FreshRow(req[r])' /\ FreshConfig(req[r])' /\ r \notin Recording'
  BY <1>3, <1>4, <1>6, <1>7 DEF Carries, FreshRow, FreshConfig, Saving, Unwritten, Recording
<1>9. Looking(req[r]) => Looking(req[r])'
  BY <1>4, <1>6, <1>7 DEF Looking
<1> QED BY <1>2, <1>3, <1>4, <1>6, <1>7, <1>8, <1>9, ReadsKeep

LEMMA FindsKeep ==
    ASSUME CatalogueInv, NEW r \in Requests, FindConfig(r) \/ InsertRefused(r)
    PROVE  CatalogueInv'
<1>1. Carries(req[r]) /\ TypeOK
  BY DEF CatalogueInv
<1>2. TypeOK'
  BY <1>1, AlertsKeepTypes
<1>3. Unwritten /\ req[r].step \in {"find", "insert"} /\ req[r].purpose # "edit" /\ req[r].rem = {}
  BY <1>1 DEF FindConfig, InsertRefused, Unwritten, histories, Carries, Saving
<1>4. CASE InsertRefused(r)
  <2>1. Same(r) /\ req'[r] = Idle /\ ~Looking(req[r])
    BY <1>1, <1>4, DoneDoes DEF InsertRefused, Looking, Saving
  <2> QED BY <1>2, <1>3, <2>1, IdleFits, ReadsKeep
<1>5. CASE FindConfig(r) /\ config = NoConfig
  <2>1. /\ Same(r) /\ req'[r].step = "insert" /\ req'[r].copy = req[r].copy
        /\ KeepsPurpose(r) /\ req'[r].rem = req[r].rem
    BY <1>1, <1>5, GoesOn DEF FindConfig, Goto, TypeOK, Steps
  <2>2. Carries(req[r])' /\ FreshRow(req[r])' /\ FreshConfig(req[r])' /\ r \notin Recording'
    BY <1>1, <1>3, <1>5, <2>1
       DEF FindConfig, Carries, FreshRow, FreshConfig, Saving, Unwritten, KeepsPurpose, Recording
  <2>3. ~LowWatched
    BY <1>5 DEF LowWatched
  <2> QED BY <1>2, <1>3, <2>1, <2>2, <2>3, ReadsKeep
<1>6. CASE FindConfig(r) /\ config # NoConfig
  <2>1. config \in Config /\ WithConfig(r, config)
    BY <1>1, <1>6 DEF FindConfig, TypeOK
  <2>2. CASE req'[r] = Idle /\ (req[r].purpose = "evaluate" => ~config.enabled)
    <3>1. LowWatched => ~Looking(req[r])
      BY <2>2 DEF LowWatched, Looking
    <3> QED BY <1>1, <1>2, <1>3, <2>1, <2>2, <3>1, WithConfigDoes, IdleFits, ReadsKeep
  <2>3. CASE /\ req[r].purpose = "set" /\ req'[r].purpose = "set" /\ req'[r].step = "select"
             /\ req'[r].copy \in Config /\ req'[r].copy.age = config.age
             /\ req'[r].rem = req[r].rem
    <3>1. Carries(req[r])' /\ FreshRow(req[r])' /\ FreshConfig(req[r])' /\ ~Looking(req[r])
      BY <1>3, <1>6, <2>3 DEF Carries, FreshRow, FreshConfig, Saving, Unwritten, Looking
    <3> QED BY <1>1, <1>2, <1>3, <1>6, <2>1, <2>3, <3>1, WithConfigDoes, ReadsKeep
  <2>4. CASE /\ req[r].purpose = "evaluate" /\ req'[r].purpose = "evaluate"
             /\ req'[r].step = "read" /\ req'[r].copy = config
             /\ req'[r].rem = req[r].rem
    <3>1. Carries(req[r])' /\ FreshRow(req[r])' /\ FreshConfig(req[r])' /\ Looking(req[r])'
      BY <1>3, <1>6, <2>1, <2>4 DEF Carries, FreshRow, FreshConfig, Saving, Unwritten, Looking
    <3> QED BY <1>1, <1>2, <1>3, <1>6, <2>1, <2>4, <3>1, WithConfigDoes, ReadsKeep
  <2> QED BY <1>1, <2>1, <2>2, <2>3, <2>4, WithConfigDoes
<1> QED BY <1>4, <1>5, <1>6
(* An evaluation that finds the stock low and the quiet period not over     *)
(* ends: its configuration says that everyone has been told within it.      *)
LEMMA LooksKeep ==
    ASSUME CatalogueInv, NEW r \in Requests, ReadAvailable(r) \/ SaveSelect(r)
    PROVE  CatalogueInv'
<1>1. Carries(req[r]) /\ FreshConfig(req[r]) /\ TypeOK
  BY DEF CatalogueInv
<1>2. TypeOK'
  BY <1>1, AlertsKeepTypes
<1>3. Unwritten
  BY DEF ReadAvailable, SaveSelect, Unwritten, histories
<1>4. /\ req[r].copy \in Config /\ config \in Config /\ config # NoConfig
      /\ req[r].purpose \notin {"edit", "get"} /\ req[r].rem = {} /\ req[r].step # "notify"
  BY <1>1 DEF ReadAvailable, SaveSelect, Carries, Saving, TypeOK
<1>5. req \in [Requests -> Request]
  BY <1>1 DEF TypeOK
<1>6. CASE /\ ReadAvailable(r)
           /\ Low(stock.available, req[r].copy.threshold) /\ QuietIsOver(req[r].copy)
  <2>1. PICK c : c = [req[r].copy EXCEPT !.age = 0]
    OBVIOUS
  <2>2. c \in Records /\ c \in Config /\ c.age = 0
    BY <1>4, <2>1, CatalogueAssumption DEF Config, Records
  <2>3. /\ Same(r) /\ req'[r].step = "select" /\ req'[r].copy = c
        /\ KeepsPurpose(r) /\ req'[r].rem = req[r].rem
    <3>1. req' = [req EXCEPT ![r].step = "select", ![r].copy.age = 0]
      BY <1>6 DEF ReadAvailable
    <3>2. req' = [req EXCEPT ![r].step = "select", ![r].copy = c]
      BY <1>5, <2>1, <3>1 DEF Request
    <3> QED BY <1>5, <2>2, <3>2, GoesOnCopying DEF Steps
  <2>4. req[r].purpose = "evaluate"
    BY <1>1, <1>6 DEF Carries, ReadAvailable
  <2>5. req[r].fresh => config.age = Quiet
    BY <1>1, <1>4, <1>6, CatalogueAssumption DEF ReadAvailable, FreshConfig, QuietIsOver, Config
  <2>6. Carries(req[r])' /\ FreshRow(req[r])' /\ FreshConfig(req[r])' /\ r \notin Recording'
    BY <1>3, <1>4, <2>2, <2>3, <2>4, <2>5
       DEF Carries, FreshRow, FreshConfig, Saving, Unwritten, KeepsPurpose, Recording
  <2>7. Looking(req[r])'
    BY <2>3, <2>4 DEF Looking, Saving, KeepsPurpose
  <2> QED BY <1>2, <1>3, <1>4, <2>3, <2>6, <2>7, ReadsKeep
<1>7. CASE /\ ReadAvailable(r)
           /\ ~(Low(stock.available, req[r].copy.threshold) /\ QuietIsOver(req[r].copy))
  <2>1. Same(r) /\ req'[r] = Idle
    BY <1>1, <1>7, DoneDoes DEF ReadAvailable
  <2>2. ASSUME LowWatched, Looking(req[r]), NEW u \in Recipients PROVE told[u].counts \/ Pending(u)
    <3>1. req[r].step = "read" /\ req[r].copy.threshold = config.threshold
      BY <1>7, <2>2 DEF ReadAvailable, Looking, Settings, Saving
    <3>2. req[r].copy.age < Quiet
      BY <1>4, <1>7, <2>2, <3>1, CatalogueAssumption DEF LowWatched, Low, QuietIsOver, Config
    <3>3. Pending(u) \/ told[u].age <= req[r].copy.age
      BY <3>1 DEF CatalogueInv, AgesAreTold, ToldSince, Recording
    <3>4. req[r].copy.age \in 0..Quiet /\ told[u].age \in 0..Quiet
      BY <1>1, <1>4 DEF Config, TypeOK
    <3>5. told[u].age < Quiet => told[u].counts
      BY DEF CatalogueInv, AgesAreTold
    <3> QED BY <3>2, <3>3, <3>4, <3>5, CatalogueAssumption
  <2> QED BY <1>2, <1>3, <1>4, <2>1, <2>2, IdleFits, ReadsKeep
<1>8. CASE SaveSelect(r)
  <2>1. PICK w \in SUBSET Columns : w = Differing(req[r].copy, config)
    BY <1>4, DifferingFits
  <2>2. /\ Same(r) /\ req'[r].step = "update" /\ req'[r].copy = req[r].copy
        /\ req'[r].writes = w /\ KeepsPurpose(r) /\ req'[r].rem = req[r].rem
    <3>1. req' = [req EXCEPT ![r].step = "update", ![r].writes = w]
      BY <1>8, <2>1 DEF SaveSelect
    <3> QED BY <1>5, <3>1, GoesOnWriting DEF Steps
  <2>3. "age" \in w <=> req[r].copy.age # config.age
    BY <1>4, <2>1 DEF Differing, Config
  <2>4. FreshConfig(req[r])'
    BY <1>1, <1>3, <1>4, <1>8, <2>2, <2>3, CatalogueAssumption
       DEF SaveSelect, FreshConfig, Saving, Unwritten, KeepsPurpose
  <2>5. Carries(req[r])' /\ FreshRow(req[r])'
    BY <1>3, <1>4, <2>2 DEF Carries, FreshRow, Saving, Unwritten, KeepsPurpose
  <2>6. /\ r \in Recording' => r \in Recording
        /\ Looking(req[r]) => Looking(req[r])'
    BY <1>8, <2>2 DEF SaveSelect, Recording, Looking, Saving, KeepsPurpose
  <2> QED BY <1>2, <1>3, <1>4, <2>2, <2>4, <2>5, <2>6, ReadsKeep
<1> QED BY <1>6, <1>7, <1>8 DEF ReadAvailable
-----------------------------------------------------------------------------
(* The steps that write. An edit saves what it changed: no unit sold, when  *)
(* nothing was sold between its read and its SELECT.                        *)
LEMMA EditUpdateKeeps ==
    ASSUME CatalogueInv, NEW r \in Requests, EditUpdate(r)
    PROVE  CatalogueInv'
<1>1. Carries(req[r]) /\ FreshRow(req[r]) /\ TypeOK
  BY DEF CatalogueInv
<1>2. TypeOK'
  BY <1>1, EditsKeepTypes
<1>3. /\ req[r].copy \in Item /\ item \in Item /\ item # NoItem /\ req[r].rem = {}
      /\ item' = Merged(req[r].copy, req[r].writes, item)
      /\ UNCHANGED <<desk, stock, config, digest, sold, watched, told>>
  BY <1>1, Kinds DEF EditUpdate, Carries
<1>4. item' \in Item /\ item' # NoItem
  BY <1>3, ItemMerged, Kinds
<1>5. /\ req'[r] = Idle
      /\ \A s \in Requests \ {r} :
            Keeps(s) /\ (req[s].purpose = "edit" /\ req[s].step = "select" => ~req'[s].fresh)
  BY <1>1, WroteDoes DEF EditUpdate, Editing
<1>6. ASSUME NEW s \in Requests
      PROVE  /\ Carries(req[s])' /\ FreshRow(req[s])' /\ FreshConfig(req[s])'
             /\ Looking(req[s]) => Looking(req[s])'
             /\ s \in Recording' => s \in Recording /\ req'[s].copy = req[s].copy
             /\ req'[s].step = "notify" <=> req[s].step = "notify"
             /\ req'[s].rem = req[s].rem
  <2>1. CASE s = r
    BY <1>1, <1>3, <1>5, <2>1, IdleFits, Kinds DEF EditUpdate, Looking, Carries, Saving
  <2>2. CASE s # r
    BY <1>3, <1>4, <1>5, <2>2, OthersCarry, OthersFreshRow, OthersFreshConfig
       DEF CatalogueInv, Keeps, Looking, Recording
  <2> QED BY <2>1, <2>2
<1>7. NothingYet' /\ NobodyToldYet'
  BY <1>3, <1>4 DEF CatalogueInv, NothingYet, NobodyToldYet
<1>8. RecordIsTrue'
  <2>1. SUFFICES ASSUME "items" \notin stale, req[r].fresh
                 PROVE  item'.sold = sold /\ item'.active = ~removed'
    BY <1>3 DEF EditUpdate, RecordIsTrue
  <2>2. /\ item'.sold = item.sold
        /\ item'.active = IF "active" \in req[r].writes THEN req[r].copy.active ELSE item.active
        /\ "active" \in req[r].writes <=> ~req[r].copy.active
    BY <1>1, <1>3, <2>1, ItemMerged DEF EditUpdate, FreshRow
  <2>3. item.sold = sold /\ item.active = ~removed
    BY <1>3, <2>1 DEF CatalogueInv, RecordIsTrue
  <2>4. removed' = (removed \/ ~req[r].copy.active) /\ removed \in BOOLEAN
        /\ req[r].copy.active \in BOOLEAN
    BY <1>1, <1>3 DEF EditUpdate, TypeOK, Item
  <2> QED BY <2>2, <2>3, <2>4
<1>9. OneAlert'
  BY <1>3, <1>6 DEF EditUpdate, CatalogueInv, OneAlert
<1>10. \A u \in Recipients : Pending(u)' <=> Pending(u)
  BY <1>6 DEF Pending
<1>11. AgesAreTold'
  <2>1. ASSUME NEW u \in Recipients, ToldSince(u) PROVE ToldSince(u)'
    BY <1>3, <1>6, <2>1 DEF ToldSince, Recording
  <2> QED BY <1>3, <1>10, <2>1 DEF CatalogueInv, AgesAreTold
<1>12. LowIsSeen'
  BY <1>3, <1>6, <1>10 DEF CatalogueInv, LowIsSeen
<1> QED BY <1>2, <1>6, <1>7, <1>8, <1>9, <1>11, <1>12 DEF CatalogueInv

(* A move marks every edit that has still to look at the row, and begins an *)
(* evaluation.                                                              *)
LEMMA MoveKeeps ==
    ASSUME CatalogueInv, NEW r \in Requests, Move(r)
    PROVE  CatalogueInv'
<1>1. TypeOK /\ req[r] = Idle /\ item \in Item /\ item # NoItem
  BY ActiveItem, Kinds DEF CatalogueInv, Move
<1>2. TypeOK'
  BY <1>1, MovesKeepTypes
<1>3. PICK n \in Int : /\ item' = [item EXCEPT !.sold = @ + n]
                       /\ sold' = sold + n
  BY DEF Move, MoveKinds
<1>4. /\ item' \in Item \cup {NoItem} /\ item' # NoItem /\ item'.sold = item.sold + n
      /\ item'.active = item.active
  <2>1. item'.sold = item.sold + n /\ item'.active = item.active
    BY <1>1, <1>3 DEF Item
  <2>2. DOMAIN item' = DOMAIN item /\ DOMAIN item # DOMAIN NoItem
    BY <1>1, <1>3 DEF Item, NoItem
  <2> QED BY <1>2, <2>1, <2>2 DEF TypeOK
<1>5. PICK q \in Request : q = [Idle EXCEPT !.step = "load", !.purpose = "evaluate"]
  BY Kinds DEF Request, Purposes
<1>6. /\ req'[r] = q /\ q.step = "load" /\ q.purpose = "evaluate" /\ q.rem = {}
      /\ \A s \in Requests \ {r} :
            Keeps(s) /\ (req[s].purpose = "edit" /\ req[s].step = "select" => ~req'[s].fresh)
  BY <1>1, <1>5, WroteDoes DEF Move, Editing, Idle
<1>7. UNCHANGED <<config, removed, stale>> /\ watched' = TRUE
  BY DEF Move
<1>8. ASSUME NEW s \in Requests
      PROVE  /\ Carries(req[s])' /\ FreshRow(req[s])' /\ FreshConfig(req[s])'
             /\ s \in Recording' => s \in Recording /\ req'[s].copy = req[s].copy
             /\ req'[s].step = "notify" <=> req[s].step = "notify"
             /\ req'[s].rem = req[s].rem
  <2>1. CASE s = r
    BY <1>1, <1>4, <1>6, <2>1, Kinds DEF Carries, FreshRow, FreshConfig, Recording, Saving
  <2>2. CASE s # r
    BY <1>4, <1>6, <1>7, <2>2, OthersCarry, OthersFreshRow, OthersFreshConfig
       DEF CatalogueInv, Keeps, Recording
  <2> QED BY <2>1, <2>2
<1>9. \A u \in Recipients : told'[u].age = told[u].age
                           /\ told'[u].counts = (told[u].counts /\ told[u].age < Quiet)
  BY <1>1 DEF Move, TypeOK
<1>10. NothingYet' /\ NobodyToldYet'
  BY <1>1, <1>4, <1>7, <1>9 DEF CatalogueInv, NothingYet, NobodyToldYet
<1>11. RecordIsTrue'
  BY <1>1, <1>3, <1>4, <1>7 DEF CatalogueInv, RecordIsTrue
<1>12. OneAlert'
  <2>1. SUFFICES ASSUME "configs" \notin stale PROVE OneAlert'
    BY <1>7 DEF OneAlert
  <2>2. config # NoConfig => \A u \in Recipients : config.age <= told'[u].age
    BY <1>9, <2>1 DEF CatalogueInv, OneAlert
  <2>3. \A s \in Requests : req'[s].step = "notify" =>
            config.age = 0 /\ \A u \in req'[s].rem : told'[u].age = Quiet
    <3>1. \A s \in Requests : req[s].rem \subseteq Recipients
      BY <1>1 DEF TypeOK, Request
    <3> QED BY <1>8, <1>9, <2>1, <3>1 DEF CatalogueInv, OneAlert
  <2>4. \A s, t \in Requests : (req'[s].step = "notify" /\ req'[t].step = "notify") => s = t
    BY <1>8, <2>1 DEF CatalogueInv, OneAlert
  <2> QED BY <1>7, <2>2, <2>3, <2>4 DEF OneAlert
<1>13. \A u \in Recipients : Pending(u)' <=> Pending(u)
  BY <1>8 DEF Pending
<1>14. AgesAreTold'
  <2>1. ASSUME NEW u \in Recipients, ToldSince(u) PROVE ToldSince(u)'
    BY <1>7, <1>8, <1>9, <2>1 DEF ToldSince, Recording
  <2> QED BY <1>9, <1>13, <2>1 DEF CatalogueInv, AgesAreTold
<1>15. LowIsSeen'
  BY <1>6 DEF LowIsSeen, Looking
<1> QED BY <1>2, <1>8, <1>10, <1>11, <1>12, <1>14, <1>15 DEF CatalogueInv
(* The first configuration: nobody has been told, and nobody has read one.  *)
LEMMA InsertKeeps ==
    ASSUME CatalogueInv, NEW r \in Requests, InsertConfig(r)
    PROVE  CatalogueInv'
<1>1. Carries(req[r]) /\ TypeOK
  BY DEF CatalogueInv
<1>2. TypeOK'
  BY <1>1, AlertsKeepTypes
<1>3. /\ req[r].copy \in Config /\ req[r].copy.age = Quiet /\ req[r].rem = {}
      /\ config = NoConfig /\ config' = req[r].copy /\ config' # NoConfig
      /\ WithConfig(r, req[r].copy) /\ req[r].step = "insert"
      /\ UNCHANGED <<desk, item, stock, digest, sold, removed, stale, told>>
  BY <1>1, Kinds DEF InsertConfig, Carries
<1>4. \A s \in Requests \ {r} : req'[s] = req[s] /\ Keeps(s)
  BY <1>1, <1>3, WithConfigDoes DEF Same, Keeps
<1>5. \A s \in Requests : req[s].step # "notify" /\ s \notin Recording
  BY <1>3 DEF CatalogueInv, Carries, Recording, Saving
<1>6. /\ Carries(req[r])' /\ FreshRow(req[r])' /\ FreshConfig(req[r])' /\ req'[r].step # "notify"
      /\ r \in Recording' => req'[r].copy.age = Quiet
      /\ req[r].purpose = "evaluate" /\ config'.enabled => Looking(req[r])'
  <2>1. CASE req'[r] = Idle /\ (req[r].purpose = "evaluate" => ~req[r].copy.enabled)
    BY <1>3, <2>1, IdleFits
  <2>2. CASE /\ req[r].purpose = "set" /\ req'[r].purpose = "set" /\ req'[r].step = "select"
             /\ req'[r].copy \in Config /\ req'[r].copy.age = req[r].copy.age
             /\ req'[r].rem = req[r].rem
    BY <1>3, <2>2 DEF Carries, FreshRow, FreshConfig, Saving, Looking
  <2>3. CASE /\ req[r].purpose = "evaluate" /\ req'[r].purpose = "evaluate"
             /\ req'[r].step = "read" /\ req'[r].copy = req[r].copy
             /\ req'[r].rem = req[r].rem
    BY <1>3, <2>3 DEF Carries, FreshRow, FreshConfig, Saving, Looking
  <2> QED BY <1>1, <1>3, <2>1, <2>2, <2>3, WithConfigDoes
<1>7. ASSUME NEW s \in Requests
      PROVE  /\ Carries(req[s])' /\ FreshRow(req[s])' /\ FreshConfig(req[s])'
             /\ req'[s].step # "notify"
             /\ s \in Recording' => req'[s].copy.age = Quiet
  <2>1. CASE s = r
    BY <1>6, <2>1
  <2>2. CASE s # r
    <3>1. Carries(req[s]) /\ FreshRow(req[s]) /\ FreshConfig(req[s]) /\ Keeps(s)
      BY <1>4, <2>2 DEF CatalogueInv
    <3>2. ~(req[s].purpose # "edit" /\ req[s].step \in {"read"} \cup Saving)
      BY <1>3, <3>1 DEF Carries, Saving
    <3>3. req'[s] = req[s] /\ s \notin Recording'
      BY <1>4, <1>5, <2>2 DEF Recording
    <3> QED BY <1>3, <1>5, <3>1, <3>2, <3>3, OthersCarry, OthersFreshRow, OthersFreshConfig
  <2> QED BY <2>1, <2>2
<1>8. \A u \in Recipients : told[u].age = Quiet
  BY <1>3 DEF CatalogueInv, NobodyToldYet
<1>9. NothingYet' /\ RecordIsTrue' /\ NobodyToldYet'
  BY <1>1, <1>3 DEF InsertConfig, CatalogueInv, NothingYet, RecordIsTrue, NobodyToldYet, TypeOK
<1>10. OneAlert'
  BY <1>3, <1>7, <1>8, CatalogueAssumption DEF OneAlert
<1>11. AgesAreTold'
  <2>1. \A s \in Recording' : req'[s].copy.age = Quiet
    BY <1>7 DEF Recording
  <2>2. \A u \in Recipients : ToldSince(u)'
    BY <1>3, <1>8, <2>1, CatalogueAssumption DEF ToldSince
  <2> QED BY <1>3, <2>2 DEF CatalogueInv, AgesAreTold
<1>12. LowIsSeen'
  BY <1>1, <1>6 DEF LowIsSeen, InsertConfig, TypeOK
<1> QED BY <1>2, <1>7, <1>9, <1>10, <1>11, <1>12 DEF CatalogueInv

(* A stamp that is saved over nobody else's was read when the quiet period  *)
(* of the configuration, and so that of every user, was over.               *)
LEMMA SaveKeeps ==
    ASSUME CatalogueInv, NEW r \in Requests, SaveUpdate(r)
    PROVE  CatalogueInv'
<1>1. Carries(req[r]) /\ FreshConfig(req[r]) /\ TypeOK
  BY DEF CatalogueInv
<1>2. TypeOK'
  BY <1>1, AlertsKeepTypes
<1>3. /\ req[r].copy \in Config /\ config \in Config /\ config # NoConfig /\ req[r].rem = {}
      /\ req[r].purpose \in {"set", "evaluate"} /\ req[r].step = "update"
      /\ config' = Merged(req[r].copy, req[r].writes, config)
      /\ UNCHANGED <<desk, item, stock, digest, sold, removed, told>>
  BY <1>1 DEF SaveUpdate, Carries, Saving, TypeOK, Request, Purposes
<1>4. /\ config' \in Config /\ config' # NoConfig
      /\ config'.age = IF "age" \in req[r].writes THEN req[r].copy.age ELSE config.age
  BY <1>3, ConfigMerged, Kinds
<1>5. PICK q \in Request : q = [Idle EXCEPT !.step = "notify", !.purpose = "evaluate",
                                            !.rem = Recipients]
  BY Kinds DEF Request, Purposes
<1>6. q.step = "notify" /\ q.purpose = "evaluate" /\ q.rem = Recipients
  BY <1>5 DEF Idle
<1>7. /\ req'[r] = IF req[r].purpose = "evaluate" THEN q ELSE Idle
      /\ \A s \in Requests \ {r} :
            /\ Keeps(s)
            /\ req[s].purpose # "edit" /\ req[s].step \in {"read"} \cup Saving => ~req'[s].fresh
  BY <1>1, <1>5, WroteDoes DEF SaveUpdate, Holding, Saving
<1>8. ASSUME NEW s \in Requests
      PROVE  Carries(req[s])' /\ FreshRow(req[s])' /\ FreshConfig(req[s])'
  <2>1. CASE s = r /\ req[r].purpose = "evaluate"
    BY <1>4, <1>6, <1>7, <2>1 DEF Carries, FreshRow, FreshConfig, Saving
  <2>2. CASE s = r /\ req[r].purpose # "evaluate"
    BY <1>7, <2>2, IdleFits
  <2>3. CASE s # r
    BY <1>3, <1>4, <1>7, <2>3, OthersCarry, OthersFreshRow, OthersFreshConfig DEF CatalogueInv
  <2> QED BY <2>1, <2>2, <2>3
<1>9. NothingYet' /\ RecordIsTrue' /\ NobodyToldYet'
  BY <1>1, <1>3, <1>4 DEF SaveUpdate, CatalogueInv, NothingYet, RecordIsTrue, NobodyToldYet, TypeOK
<1>10. \A u \in Recipients : told[u].age \in 0..Quiet
  BY <1>1 DEF TypeOK
<1>11. OneAlert'
  <2>1. SUFFICES ASSUME "configs" \notin stale, req[r].fresh PROVE OneAlert'
    BY DEF SaveUpdate, OneAlert
  <2>2. /\ \A u \in Recipients : config.age <= told[u].age
        /\ \A s \in Requests : req[s].step = "notify" =>
              config.age = 0 /\ \A u \in req[s].rem : told[u].age = Quiet
        /\ \A s, t \in Requests : (req[s].step = "notify" /\ req[t].step = "notify") => s = t
    BY <1>3, <2>1 DEF CatalogueInv, OneAlert
  <2>3. CASE req[r].purpose = "set"
    <3>1. config'.age = config.age
      BY <1>1, <1>3, <1>4, <2>1, <2>3 DEF FreshConfig, Saving
    <3>2. \A s \in Requests : req'[s].step = "notify" => s # r
      BY <1>7, <2>3, Kinds
    <3> QED BY <1>3, <1>7, <2>2, <3>1, <3>2 DEF OneAlert, Keeps
  <2>4. CASE req[r].purpose = "evaluate"
    <3>1. config'.age = 0 /\ config.age = Quiet
      BY <1>1, <1>3, <1>4, <2>1, <2>4 DEF FreshConfig, Saving
    <3>2. \A u \in Recipients : told[u].age = Quiet
      BY <1>10, <2>2, <3>1, CatalogueAssumption
    <3>3. \A s \in Requests : req'[s].step = "notify" => s = r
      BY <1>7, <2>2, <3>1, CatalogueAssumption DEF Keeps
    <3>4. req'[r].rem = Recipients
      BY <1>6, <1>7, <2>4
    <3> QED BY <1>3, <3>1, <3>2, <3>3, <3>4, CatalogueAssumption DEF OneAlert
  <2> QED BY <1>3, <2>3, <2>4
<1>12. CASE req[r].purpose = "evaluate"
  <2>1. \A u \in Recipients : Pending(u)'
    BY <1>6, <1>7, <1>12 DEF Pending
  <2> QED BY <1>2, <1>3, <1>8, <1>9, <1>11, <2>1 DEF CatalogueInv, AgesAreTold, LowIsSeen
<1>13. CASE req[r].purpose = "set"
  <2>1. \A u \in Recipients : Pending(u) => Pending(u)'
    BY <1>3, <1>7 DEF Pending, Keeps
  <2>2. ASSUME NEW u \in Recipients, ToldSince(u) PROVE ToldSince(u)'
    <3>1. told[u].age <= req[r].copy.age /\ told[u].age <= config.age
      BY <1>3, <1>13, <2>2 DEF ToldSince, Recording, Saving
    <3>2. ASSUME NEW s \in Recording' PROVE told[u].age <= req'[s].copy.age
      <4>1. s # r /\ s \in Requests
        BY <1>7, <1>13, <3>2, Kinds DEF Recording, Saving
      <4>2. s \in Recording /\ req'[s].copy = req[s].copy
        BY <1>7, <3>2, <4>1 DEF Recording, Keeps
      <4> QED BY <2>2, <4>2 DEF ToldSince
    <3> QED BY <1>3, <1>4, <3>1, <3>2 DEF ToldSince
  <2>3. AgesAreTold'
    BY <1>3, <2>1, <2>2 DEF CatalogueInv, AgesAreTold
  <2>4. LowIsSeen'
    <3>1. SUFFICES ASSUME LowWatched' PROVE
              \/ \E s \in Requests : Looking(req[s])'
              \/ \A u \in Recipients : told'[u].counts \/ Pending(u)'
      BY DEF LowIsSeen, LowWatched
    <3>2. Settings(config') = Settings(config) /\ watched
      BY <1>1, <3>1 DEF SaveUpdate, LowWatched, TypeOK
    <3>3. LowWatched
      BY <1>3, <3>1, <3>2 DEF LowWatched, Settings
    <3>4. ASSUME NEW s \in Requests, Looking(req[s]) PROVE Looking(req[s])'
      <4>1. s # r
        BY <1>13, <3>4 DEF Looking
      <4> QED BY <1>7, <3>2, <3>4, <4>1 DEF Looking, Keeps
    <3> QED BY <1>3, <2>1, <3>3, <3>4 DEF CatalogueInv, LowIsSeen, LowWatched
  <2> QED BY <1>2, <1>8, <1>9, <1>11, <2>3, <2>4 DEF CatalogueInv
<1> QED BY <1>3, <1>12, <1>13
LEMMA ToldDoes ==
    ASSUME TypeOK, NEW users, told' = Told(users)
    PROVE  \A u \in Recipients :
               /\ u \in users => told'[u].age = 0 /\ told'[u].counts
               /\ u \notin users => told'[u] = told[u]
BY DEF TypeOK, Told

LEMMA NotifyKeeps ==
    ASSUME CatalogueInv, NEW r \in Requests, Notify(r)
    PROVE  CatalogueInv'
<1>1. Carries(req[r]) /\ TypeOK
  BY DEF CatalogueInv
<1>2. TypeOK'
  BY <1>1, AlertsKeepTypes
<1>3. PICK u \in req[r].rem :
          /\ told' = Told({u})
          /\ IF req[r].rem = {u} THEN Done(r)
             ELSE req' = [req EXCEPT ![r].rem = @ \ {u}]
  BY DEF Notify
<1>4. /\ req[r].step = "notify" /\ req[r].purpose = "evaluate" /\ config # NoConfig
      /\ UNCHANGED <<item, stock, config, desk, sold, removed, stale, watched>>
  BY <1>1 DEF Notify, Carries
<1>5. /\ Same(r) /\ req'[r].purpose # "edit"
      /\ \/ req'[r] = Idle /\ req[r].rem = {u}
         \/ /\ req'[r].step = "notify" /\ req'[r].purpose = "evaluate"
            /\ req'[r].rem = req[r].rem \ {u}
  <2>1. CASE req[r].rem = {u}
    BY <1>1, <1>3, <2>1, DoneDoes, Kinds
  <2>2. CASE req[r].rem # {u}
    <3>1. req' = [req EXCEPT ![r].rem = @ \ {u}]
      BY <1>3, <2>2
    <3>2. req \in [Requests -> Request]
      BY <1>1 DEF TypeOK
    <3>3. /\ Same(r) /\ req'[r].step = req[r].step /\ KeepsPurpose(r)
          /\ req'[r].rem = req[r].rem \ {u}
      BY <3>1, <3>2, GoesOnTelling
    <3> QED BY <1>4, <3>3 DEF KeepsPurpose
  <2> QED BY <2>1, <2>2
<1>6. \A s \in Requests \ {r} : req'[s] = req[s] /\ Keeps(s)
  BY <1>5 DEF Same, Keeps
<1>7. ASSUME NEW s \in Requests
      PROVE  /\ Carries(req[s])' /\ FreshRow(req[s])' /\ FreshConfig(req[s])'
             /\ s \in Recording' => s \in Recording /\ req'[s].copy = req[s].copy
             /\ Looking(req[s]) => Looking(req[s])'
  <2>1. CASE s = r /\ req'[r] = Idle
    BY <1>4, <2>1, IdleFits DEF Looking, Saving
  <2>2. CASE s = r /\ req'[r].step = "notify" /\ req'[r].purpose = "evaluate"
    BY <1>4, <2>2 DEF Carries, FreshRow, FreshConfig, Looking, Recording, Saving
  <2>3. CASE s # r
    BY <1>4, <1>6, <2>3, OthersCarry, OthersFreshRow, OthersFreshConfig
       DEF CatalogueInv, Recording, Looking
  <2> QED BY <1>5, <2>1, <2>2, <2>3
<1>8. \A v \in Recipients : /\ v = u => told'[v].age = 0 /\ told'[v].counts
                            /\ v # u => told'[v] = told[v]
  BY <1>1, <1>3, ToldDoes
<1>9. NothingYet' /\ RecordIsTrue' /\ NobodyToldYet'
  BY <1>4 DEF CatalogueInv, NothingYet, RecordIsTrue, NobodyToldYet
<1>10. OneAlert'
  <2>1. SUFFICES ASSUME "configs" \notin stale PROVE OneAlert'
    BY <1>4 DEF OneAlert
  <2>2. /\ config.age = 0 /\ \A v \in Recipients : config.age <= told[v].age
        /\ \A v \in req[r].rem : told[v].age = Quiet
        /\ \A s \in Requests : req[s].step = "notify" => s = r
    BY <1>4, <2>1 DEF CatalogueInv, OneAlert
  <2>3. \A v \in Recipients : config.age <= told'[v].age
    BY <1>8, <2>2
  <2>4. \A s \in Requests : req'[s].step = "notify" => s = r
    BY <1>6, <2>2
  <2>5. req'[r].step = "notify" => \A v \in req'[r].rem : told'[v].age = Quiet
    <3>1. req[r].rem \subseteq Recipients
      BY <1>1 DEF TypeOK, Request
    <3> QED BY <1>5, <1>8, <2>2, <3>1, Kinds
  <2> QED BY <1>4, <2>2, <2>3, <2>4, <2>5 DEF OneAlert
<1>11. ASSUME NEW v \in Recipients, v # u, Pending(v) PROVE Pending(v)'
  <2>1. PICK s \in Requests : req[s].step = "notify" /\ v \in req[s].rem
    BY <1>11 DEF Pending
  <2>2. req'[s].step = "notify" /\ v \in req'[s].rem
    BY <1>5, <1>6, <1>11, <2>1
  <2> QED BY <2>2 DEF Pending
<1>12. AgesAreTold'
  <2>1. ASSUME NEW v \in Recipients, v = u \/ ToldSince(v) PROVE ToldSince(v)'
    <3>1. CASE v = u
      <4>1. config.age >= 0 /\ \A s \in Recording : req[s].copy.age >= 0
        <5>1. config \in Config
          BY <1>1, <1>4 DEF TypeOK
        <5>2. \A s \in Recording : req[s].copy \in Config
          BY DEF CatalogueInv, Recording, Carries, Saving
        <5> QED BY <5>1, <5>2, CatalogueAssumption DEF Config
      <4> QED BY <1>4, <1>7, <1>8, <3>1, <4>1 DEF ToldSince, Recording
    <3>2. CASE v # u
      BY <1>4, <1>7, <1>8, <2>1, <3>2 DEF ToldSince, Recording
    <3> QED BY <3>1, <3>2
  <2> QED BY <1>8, <1>11, <2>1 DEF CatalogueInv, AgesAreTold
<1>13. LowIsSeen'
  BY <1>4, <1>7, <1>8, <1>11 DEF CatalogueInv, LowIsSeen
<1> QED BY <1>2, <1>7, <1>9, <1>10, <1>12, <1>13 DEF CatalogueInv

(* A request that fails, after the stamp if it has users still to notify.   *)
LEMMA FailKeeps ==
    ASSUME CatalogueInv, NEW r \in Requests, Fail(r)
    PROVE  CatalogueInv'
<1>1. Carries(req[r]) /\ TypeOK
  BY DEF CatalogueInv
<1>2. TypeOK'
  BY <1>1, AlertsKeepTypes
<1>3. /\ req[r].rem = {} \/ (req[r].step = "notify" /\ config # NoConfig)
      /\ UNCHANGED <<item, stock, config, desk, sold, removed, stale>>
      /\ watched' => watched /\ req[r].purpose # "evaluate"
      /\ told' = Told(req[r].rem)
  BY <1>1 DEF Fail, Carries, TypeOK
<1>4. Same(r) /\ req'[r] = Idle
  BY <1>1, DoneDoes DEF Fail
<1>5. \A s \in Requests \ {r} : req'[s] = req[s] /\ Keeps(s)
  BY <1>4 DEF Same, Keeps
<1>6. ASSUME NEW s \in Requests
      PROVE  /\ Carries(req[s])' /\ FreshRow(req[s])' /\ FreshConfig(req[s])'
             /\ s \in Recording' => s \in Recording /\ req'[s].copy = req[s].copy
             /\ req'[s].step = "notify" => s # r
  <2>1. CASE s = r
    BY <1>4, <2>1, IdleFits
  <2>2. CASE s # r
    BY <1>3, <1>5, <2>2, OthersCarry, OthersFreshRow, OthersFreshConfig
       DEF CatalogueInv, Recording
  <2> QED BY <2>1, <2>2
<1>7. \A v \in Recipients : /\ v \in req[r].rem => told'[v].age = 0 /\ told'[v].counts
                            /\ v \notin req[r].rem => told'[v] = told[v]
  BY <1>1, <1>3, ToldDoes
<1>8. NothingYet' /\ RecordIsTrue' /\ NobodyToldYet'
  BY <1>3, <1>7 DEF CatalogueInv, NothingYet, RecordIsTrue, NobodyToldYet
<1>9. OneAlert'
  <2>1. SUFFICES ASSUME "configs" \notin stale PROVE OneAlert'
    BY <1>3 DEF OneAlert
  <2>2. /\ config # NoConfig => \A v \in Recipients : config.age <= told[v].age
        /\ \A s \in Requests : req[s].step = "notify" =>
              config.age = 0 /\ \A v \in req[s].rem : told[v].age = Quiet
        /\ \A s, t \in Requests : (req[s].step = "notify" /\ req[t].step = "notify") => s = t
    BY <2>1 DEF CatalogueInv, OneAlert
  <2>3. config # NoConfig => \A v \in Recipients : config.age <= told'[v].age
    BY <1>3, <1>7, <2>2
  <2>4. ASSUME NEW s \in Requests, req'[s].step = "notify"
        PROVE  config.age = 0 /\ \A v \in req'[s].rem : told'[v].age = Quiet
    <3>1. s # r /\ req'[s] = req[s] /\ req[r].rem = {}
      BY <1>3, <1>5, <1>6, <2>2, <2>4
    <3>2. req[s].rem \subseteq Recipients
      BY <1>1 DEF TypeOK, Request
    <3> QED BY <1>7, <2>2, <2>4, <3>1, <3>2
  <2>5. \A s, t \in Requests : (req'[s].step = "notify" /\ req'[t].step = "notify") => s = t
    BY <1>5, <1>6, <2>2
  <2> QED BY <1>3, <2>3, <2>4, <2>5 DEF OneAlert
<1>10. ASSUME NEW v \in Recipients, v \notin req[r].rem, Pending(v) PROVE Pending(v)'
  BY <1>5, <1>10 DEF Pending
<1>11. AgesAreTold'
  <2>1. ASSUME NEW v \in Recipients, v \in req[r].rem \/ ToldSince(v) PROVE ToldSince(v)'
    <3>1. CASE v \in req[r].rem
      <4>1. /\ config # NoConfig => config.age >= 0
            /\ \A s \in Recording : req[s].copy.age >= 0
        <5>1. config # NoConfig => config \in Config
          BY <1>1 DEF TypeOK
        <5>2. \A s \in Recording : req[s].copy \in Config
          BY DEF CatalogueInv, Recording, Carries, Saving
        <5> QED BY <5>1, <5>2, CatalogueAssumption DEF Config
      <4> QED BY <1>3, <1>6, <1>7, <3>1, <4>1 DEF ToldSince, Recording
    <3>2. CASE v \notin req[r].rem
      BY <1>3, <1>6, <1>7, <2>1, <3>2 DEF ToldSince, Recording
    <3> QED BY <3>1, <3>2
  <2> QED BY <1>7, <1>10, <2>1 DEF CatalogueInv, AgesAreTold
<1>12. LowIsSeen'
  <2>1. \A s \in Requests : watched' /\ Looking(req[s]) => Looking(req[s])'
    BY <1>3, <1>5 DEF Looking
  <2> QED BY <1>3, <1>7, <1>10, <2>1 DEF CatalogueInv, LowIsSeen
<1> QED BY <1>2, <1>6, <1>8, <1>9, <1>11, <1>12 DEF CatalogueInv

-----------------------------------------------------------------------------
(* The steps of no request.                                                 *)
LEMMA CreateKeeps ==
    ASSUME CatalogueInv, Create
    PROVE  CatalogueInv'
<1>1. TypeOK /\ TypeOK'
  BY ClockKeepsTypes DEF CatalogueInv
<1>2. /\ item = NoItem /\ sold = 0 /\ removed = FALSE /\ watched = FALSE
      /\ UNCHANGED <<config, req, desk, sold, removed, stale, watched, told>>
  BY <1>1 DEF Create, histories, CatalogueInv, NothingYet, TypeOK
<1>3. item' \in Item /\ item'.sold = 0 /\ item'.active = TRUE /\ item' # NoItem
  <2>1. PICK threshold \in Thresholds :
            item' = [active |-> TRUE, sold |-> 0, threshold |-> threshold]
    BY DEF Create
  <2>2. item' \in Item /\ item'.sold = 0 /\ item'.active = TRUE
    BY <2>1, CatalogueAssumption DEF Item
  <2> QED BY <2>2, Kinds
<1>4. \A s \in Requests : Carries(req[s])' /\ FreshRow(req[s])' /\ FreshConfig(req[s])'
  BY <1>2, <1>3, Kinds DEF CatalogueInv, Carries, FreshRow, FreshConfig
<1>5. NothingYet' /\ RecordIsTrue' /\ OneAlert' /\ NobodyToldYet'
  BY <1>2, <1>3 DEF CatalogueInv, NothingYet, RecordIsTrue, OneAlert, NobodyToldYet
<1>6. AgesAreTold' /\ LowIsSeen'
  BY <1>2 DEF CatalogueInv, AgesAreTold, Pending, ToldSince, Recording, LowIsSeen
<1> QED BY <1>1, <1>4, <1>5, <1>6 DEF CatalogueInv

LEMMA DeskKeeps ==
    ASSUME CatalogueInv,
           \/ Reserve \/ Deliver \/ DigestList \/ DigestSend
           \/ UNCHANGED vars
    PROVE  CatalogueInv'
<1>1. TypeOK'
  BY ClockKeepsTypes DEF CatalogueInv, vars, TypeOK
<1>2. /\ UNCHANGED <<item, config, req, desk, sold, removed, stale, told>>
      /\ watched' = FALSE \/ UNCHANGED <<stock, watched>>
  BY DEF Reserve, Deliver, Unevaluated, DigestList, DigestSend, histories, vars
<1>3. \A s \in Requests : Carries(req[s])' /\ FreshRow(req[s])' /\ FreshConfig(req[s])'
  BY <1>2 DEF CatalogueInv, Carries, FreshRow, FreshConfig
<1>4. NothingYet' /\ RecordIsTrue' /\ OneAlert' /\ NobodyToldYet'
  BY <1>2 DEF CatalogueInv, NothingYet, RecordIsTrue, OneAlert, NobodyToldYet
<1>5. AgesAreTold'
  BY <1>2 DEF CatalogueInv, AgesAreTold, Pending, ToldSince, Recording
<1>6. LowIsSeen'
  BY <1>2 DEF CatalogueInv, LowIsSeen, Looking, Pending
<1> QED BY <1>1, <1>3, <1>4, <1>5, <1>6 DEF CatalogueInv
(* What is recorded of the ages grows old at the pace of the ages.          *)
LEMMA TickKeeps ==
    ASSUME CatalogueInv, Tick
    PROVE  CatalogueInv'
<1>1. TypeOK /\ TypeOK'
  BY ClockKeepsTypes DEF CatalogueInv
<1>2. /\ UNCHANGED <<desk, item, stock, sold, removed, stale, watched>> /\ config' = Aged(config)
      /\ \A r \in Requests : req[r].step \notin {"select", "update", "notify"}
  BY DEF Tick
<1>3. ASSUME NEW s \in Requests
      PROVE  /\ req'[s].step = req[s].step /\ req'[s].purpose = req[s].purpose
             /\ req'[s].copy = Aged(req[s].copy) /\ req'[s].rem = req[s].rem
             /\ req'[s].fresh = req[s].fresh /\ req[s].purpose # "edit"
  <2>1. PICK q \in Request : q = req[s]
    BY <1>1 DEF TypeOK
  <2>2. req'[s] = [q EXCEPT !.copy = Aged(q.copy)]
    BY <2>1 DEF Tick
  <2>3. req[s].purpose # "edit"
    BY <1>2 DEF CatalogueInv, Carries, Saving
  <2> QED BY <2>1, <2>2, <2>3 DEF Request
<1>4. /\ config = NoConfig => config' = NoConfig
      /\ config # NoConfig => /\ config \in Config /\ config' \in Config /\ config' # NoConfig
                              /\ config'.age = Older(config.age)
                              /\ Settings(config') = Settings(config)
                              /\ config'.enabled = config.enabled
                              /\ config'.threshold = config.threshold
  BY <1>1, <1>2, ConfigAged, OthersNotAged, Kinds DEF TypeOK, Settings
<1>5. ASSUME NEW s \in Requests
      PROVE  Carries(req[s])' /\ FreshRow(req[s])' /\ FreshConfig(req[s])'
  <2>1. Carries(req[s]) /\ FreshConfig(req[s])
    BY DEF CatalogueInv
  <2>2. /\ req[s].copy = NoConfig => req'[s].copy = NoConfig
        /\ req[s].copy \in Config => /\ req'[s].copy \in Config
                                     /\ req[s].copy.age = Quiet => req'[s].copy.age = Quiet
    BY <1>3, ConfigAged, OthersNotAged, OlderFits, CatalogueAssumption
  <2>3. Carries(req[s])'
    BY <1>2, <1>3, <1>4, <2>1, <2>2 DEF Carries, Saving
  <2>4. FreshRow(req[s])' /\ FreshConfig(req[s])'
    BY <1>2, <1>3, <2>1 DEF FreshRow, FreshConfig, Saving
  <2> QED BY <2>3, <2>4
<1>6. \A u \in Recipients : /\ told[u].age \in 0..Quiet /\ told'[u].age = Older(told[u].age)
                            /\ told'[u].counts = told[u].counts
  BY <1>1 DEF Tick, TypeOK
<1>7. NothingYet' /\ RecordIsTrue'
  BY <1>2 DEF CatalogueInv, NothingYet, RecordIsTrue
<1>8. NobodyToldYet'
  BY <1>4, <1>6, OlderFits DEF CatalogueInv, NobodyToldYet
<1>9. OneAlert'
  <2>1. SUFFICES ASSUME "configs" \notin stale, config # NoConfig, NEW u \in Recipients
                 PROVE  Older(config.age) <= Older(told[u].age)
    BY <1>2, <1>3, <1>4, <1>6 DEF OneAlert
  <2>2. config.age <= told[u].age /\ config.age \in 0..Quiet
    BY <1>4, <2>1 DEF CatalogueInv, OneAlert, Config
  <2> QED BY <1>6, <2>2, OlderFits
<1>10. \A u \in Recipients : ~Pending(u)
  BY <1>2 DEF Pending
<1>11. AgesAreTold'
  <2>1. ASSUME NEW u \in Recipients PROVE ToldSince(u)'
    <3>1. ToldSince(u)
      BY <1>10 DEF CatalogueInv, AgesAreTold
    <3>2. config' # NoConfig => told'[u].age <= config'.age
      <4>1. SUFFICES ASSUME config # NoConfig PROVE Older(told[u].age) <= Older(config.age)
        BY <1>4, <1>6
      <4>2. config.age \in 0..Quiet /\ told[u].age <= config.age
        BY <1>4, <3>1, <4>1 DEF Config, ToldSince
      <4> QED BY <1>6, <4>2, OlderFits
    <3>3. ASSUME NEW s \in Recording' PROVE told'[u].age <= req'[s].copy.age
      <4>1. s \in Requests /\ s \in Recording
        BY <1>3, <3>3 DEF Recording
      <4>2. req[s].copy \in Config
        BY <4>1 DEF CatalogueInv, Recording, Carries, Saving
      <4>3. req[s].copy.age \in 0..Quiet /\ told[u].age <= req[s].copy.age
        BY <3>1, <4>1, <4>2 DEF Config, ToldSince
      <4>4. req'[s].copy.age = Older(req[s].copy.age)
        BY <1>3, <4>1, <4>2, ConfigAged
      <4> QED BY <1>6, <4>3, <4>4, OlderFits
    <3> QED BY <3>2, <3>3 DEF ToldSince
  <2>2. \A u \in Recipients : told'[u].age < Quiet => told'[u].counts
    BY <1>6, OlderFits DEF CatalogueInv, AgesAreTold
  <2> QED BY <2>1, <2>2 DEF AgesAreTold
<1>12. LowIsSeen'
  <2>1. ASSUME NEW s \in Requests, config # NoConfig, Looking(req[s]) PROVE Looking(req[s])'
    <3>1. CASE req[s].step = "read"
      <4>1. req[s].copy \in Config
        BY <3>1 DEF CatalogueInv, Carries
      <4>2. Settings(req'[s].copy) = Settings(req[s].copy)
        BY <1>3, <4>1, ConfigAged DEF Settings
      <4> QED BY <1>3, <1>4, <2>1, <3>1, <4>2 DEF Looking, Saving
    <3>2. CASE req[s].step # "read"
      BY <1>3, <2>1, <3>2 DEF Looking
    <3> QED BY <3>1, <3>2
  <2> QED BY <1>2, <1>4, <1>6, <1>10, <2>1 DEF CatalogueInv, LowIsSeen
<1> QED BY <1>1, <1>5, <1>7, <1>8, <1>9, <1>11, <1>12 DEF CatalogueInv

-----------------------------------------------------------------------------
LEMMA Initially == Init => CatalogueInv
<1>1. SUFFICES ASSUME Init PROVE CatalogueInv
  OBVIOUS
<1>2. TypeOK
  <2>1. req \in [Requests -> Request]
    BY <1>1, Kinds DEF Init
  <2>2. stock \in Stock
    BY <1>1, CatalogueAssumption DEF Init, Stock
  <2>3. told \in [Recipients -> [age : 0..Quiet, counts : BOOLEAN]]
    BY <1>1, CatalogueAssumption DEF Init
  <2>4. /\ desk \in {"row", "alerts"} /\ item = NoItem /\ config = NoConfig /\ digest = "idle"
        /\ sold = 0 /\ removed = FALSE /\ stale = {} /\ watched = FALSE
    BY <1>1 DEF Init
  <2>5. sold \in 0..MaxSold
    BY <2>4, CatalogueAssumption
  <2> QED BY <2>1, <2>2, <2>3, <2>4, <2>5 DEF TypeOK
<1>3. ASSUME NEW r \in Requests
      PROVE  /\ Carries(req[r]) /\ FreshRow(req[r]) /\ FreshConfig(req[r])
             /\ req[r].step # "notify" /\ r \notin Recording
  <2>1. req[r] = Idle
    BY <1>1 DEF Init
  <2> QED BY <2>1 DEF Idle, Carries, FreshRow, FreshConfig, Recording, Saving
<1>4. \A u \in Recipients : told[u].age = Quiet
  BY <1>1 DEF Init
<1>5. NothingYet /\ RecordIsTrue /\ OneAlert /\ NobodyToldYet /\ LowIsSeen
  BY <1>1, <1>3, <1>4 DEF Init, NothingYet, RecordIsTrue, OneAlert, NobodyToldYet, LowIsSeen
<1>6. AgesAreTold
  <2>1. Recording = {}
    BY <1>3 DEF Recording
  <2> QED BY <1>1, <1>4, <2>1, CatalogueAssumption DEF Init, AgesAreTold, ToldSince
<1> QED BY <1>2, <1>3, <1>5, <1>6 DEF CatalogueInv

LEMMA StepKeeps == CatalogueInv /\ [Next]_vars => CatalogueInv'
<1> SUFFICES ASSUME CatalogueInv, [Next]_vars PROVE CatalogueInv'
  OBVIOUS
<1>1. CASE Create
  BY <1>1, CreateKeeps
<1>2. CASE Reserve \/ Deliver \/ DigestList \/ DigestSend \/ UNCHANGED vars
  BY <1>2, DeskKeeps
<1>3. CASE Tick
  BY <1>3, TickKeeps
<1>4. ASSUME NEW r \in Requests, EditRead(r) \/ EditSelect(r) \/ EditUpdate(r)
      PROVE  CatalogueInv'
  BY <1>4, EditsRead, EditUpdateKeeps
<1>5. ASSUME NEW r \in Requests, Move(r) PROVE CatalogueInv'
  BY <1>5, MoveKeeps
<1>6. ASSUME NEW r \in Requests, GetConfig(r) \/ LoadItem(r) \/ FindConfig(r) \/ InsertRefused(r)
      PROVE  CatalogueInv'
  BY <1>6, AlertsRead, FindsKeep
<1>7. ASSUME NEW r \in Requests, InsertConfig(r) PROVE CatalogueInv'
  BY <1>7, InsertKeeps
<1>8. ASSUME NEW r \in Requests, ReadAvailable(r) \/ SaveSelect(r) PROVE CatalogueInv'
  BY <1>8, LooksKeep
<1>9. ASSUME NEW r \in Requests, SaveUpdate(r) PROVE CatalogueInv'
  BY <1>9, SaveKeeps
<1>10. ASSUME NEW r \in Requests, Notify(r) \/ Fail(r) PROVE CatalogueInv'
  BY <1>10, NotifyKeeps, FailKeeps
<1> QED
  BY <1>1, <1>2, <1>3, <1>4, <1>5, <1>6, <1>7, <1>8, <1>9, <1>10 DEF Next

(* What requests carry, what the configuration records and what users were  *)
(* told fit together in every state.                                        *)
THEOREM CatalogueInvariance == Spec => []CatalogueInv
<1>1. Init => CatalogueInv
  BY Initially
<1>2. CatalogueInv /\ [Next]_vars => CatalogueInv'
  BY StepKeeps
<1> QED BY <1>1, <1>2, PTL DEF Spec

(* The tables hold what their columns may, also after a save of some of     *)
(* their columns: what was read is a row of that table.                     *)
THEOREM CatalogueIsWellTyped == Spec => []TypeOK
<1>1. CatalogueInv => TypeOK
  BY DEF CatalogueInv
<1> QED BY <1>1, CatalogueInvariance, PTL

(* The row of an item tells the units sold and whether it was deleted, as   *)
(* long as no edit saves a row that changed between its read and its SELECT. *)
THEOREM RowTellsTruth == Spec => []RecordIsTrue
<1>1. CatalogueInv => RecordIsTrue
  BY DEF CatalogueInv
<1> QED BY <1>1, CatalogueInvariance, PTL

(* A low item has been told to every recipient once the evaluations of the  *)
(* moves have ended, whatever evaluations overlapped: only a failure after  *)
(* the stamp keeps an alert from a user.                                    *)
THEOREM LowItemsAreTold == Spec => []LowIsAlerted
<1>1. CatalogueInv => LowIsAlerted
  <2>1. SUFFICES ASSUME CatalogueInv, LowWatched, NEW u \in Recipients,
                        \A r \in Requests : req[r].purpose # "evaluate"
                 PROVE  told[u].counts
    BY DEF LowIsAlerted, LowWatched
  <2>2. \A r \in Requests : ~Looking(req[r]) /\ req[r].step # "notify"
    BY <2>1 DEF Looking, CatalogueInv, Carries
  <2>3. ~Pending(u)
    BY <2>2 DEF Pending
  <2> QED BY <2>1, <2>2, <2>3 DEF CatalogueInv, LowIsSeen, LowWatched
<1> QED BY <1>1, CatalogueInvariance, PTL

(* No user is told twice within the quiet period, as long as no save wrote  *)
(* over a configuration that had changed.                                   *)
THEOREM AlertsAreQuiet == Spec => AlertsKeepQuiet
<1> DEFINE Step == \A r \in Requests : Notify(r) =>
                      \A u \in req[r].rem \ req'[r].rem :
                          told[u].age >= Quiet \/ "configs" \in stale
<1>1. CatalogueInv /\ [Next]_vars => [Step]_vars
  <2>1. ASSUME CatalogueInv, NEW r \in Requests, Notify(r), NEW u \in req[r].rem,
               "configs" \notin stale
        PROVE  told[u].age >= Quiet
    <3>1. told[u].age = Quiet
      BY <2>1 DEF Notify, CatalogueInv, OneAlert
    <3> QED BY <3>1, CatalogueAssumption
  <2> QED BY <2>1
<1>2. Spec => [][Step]_vars
  BY <1>1, CatalogueInvariance, PTL DEF Spec
<1> QED BY <1>2 DEF AlertsKeepQuiet
=============================================================================
