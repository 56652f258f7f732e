--------------------------- MODULE DocumentProofs ---------------------------
(***************************************************************************)
(* For any number of documents, lines and overlapping requests: no RFQ or   *)
(* permit loses a line, nothing is handed over that was not released, and,  *)
(* as long as no requests overlap, what was offered stands and the permits  *)
(* stay within the order.                                                   *)
(***************************************************************************)
EXTENDS Documents, SumTheorems

(* The constants of the workflows. *)
LEMMA WorkflowFacts ==
    ASSUME NEW k \in Kinds, NEW a, NEW s, <<a, s>> \in Transitions[k]
    PROVE  /\ s \in Statuses
           /\ k # "permit" => s # "Released"
           /\ a # "None" /\ (k = "permit" => a # "Cancelled")
<1>1. Transitions[k] \subseteq QuotationTransitions \cup RfqTransitions \cup PermitTransitions
  BY DEF Kinds, Transitions
<1>2. s \in Statuses
  <2>1. <<a, s>>[2] = s
    OBVIOUS
  <2> QED BY <1>1, <2>1, Zenon DEF Statuses
<1>3. k = "permit" => <<a, s>> \in PermitTransitions
  BY DEF Transitions
<1>4. k # "permit" => <<a, s>> \in QuotationTransitions \cup RfqTransitions
  BY DEF Transitions, Kinds
<1>5. a # "None" /\ (k = "permit" => a # "Cancelled")
  BY <1>3, <1>4 DEF PermitTransitions, QuotationTransitions, RfqTransitions
<1>6. k # "permit" => s # "Released"
  BY <1>4 DEF QuotationTransitions, RfqTransitions
<1> QED BY <1>2, <1>5, <1>6

LEMMA SomeStatuses == {"None", "Draft", "Expired"} \subseteq Statuses
BY DEF Statuses

LEMMA IdleFits == Idle \in Request /\ Proper(Idle) /\ Current(Idle)
<1>1. NoHeader \in Header /\ NoHeader.status = "None"
  BY SomeStatuses, DocumentAssumption DEF NoHeader, Header
<1>2. Idle \in Request
  BY <1>1, DocumentAssumption DEF Idle, Request, Steps
<1>3. Idle.step = "idle" /\ Idle.wants = NoHeader
  BY DEF Idle
<1>4. Proper(Idle)
  BY <1>1, <1>3 DEF Proper, Editing
<1>5. Current(Idle)
  BY <1>3 DEF Current, Editing
<1> QED BY <1>2, <1>4, <1>5

LEMMA Initially == Init => DocumentsInv
<1>1. SUFFICES ASSUME Init PROVE DocumentsInv
  OBVIOUS
<1>2. \A l \in Rows : row[l] = NoRow
  BY <1>1 DEF Init
<1>3. \A d \in Docs : header[d] \in Header /\ header[d].status \in {"None", "Draft"}
  BY <1>1, SomeStatuses, DocumentAssumption DEF Init, Header, NoHeader
<1>4. TypeOK
  <2>1. \A d \in Docs : revisions[d] \in Seq(1..MaxRevisions)
    BY <1>1 DEF Init
  <2>2. \A ol \in OrderLines : delivered[ol] \in 0..MaxQty
    BY <1>1, DocumentAssumption DEF Init
  <2> QED BY <1>1, <1>3, <2>1, <2>2, IdleFits DEF Init, TypeOK
<1>5. TablesFit
  BY <1>1, <1>2, <1>3 DEF Init, TablesFit, OnReleasedPermits, NoRow, DocumentAssumption
<1>6. NoLineLost
  BY <1>2 DEF NoLineLost
<1>7. GoodsWereCleared
  BY <1>1 DEF Init, GoodsWereCleared
<1>8. \A r \in Requests : Proper(req[r])
  BY <1>1, IdleFits, Zenon DEF Init
<1>9. Alone
  <2>1. \A r \in Requests : req[r] = Idle
    BY <1>1 DEF Init
  <2>2. \A r \in Requests : Current(req[r])
    BY <2>1, IdleFits, Zenon
  <2> QED BY <2>1, <2>2, Zenon DEF Alone
<1>10. ListedWithinOrdered
  <2>1. \A ol \in OrderLines : \A T \in OnePerPermit(ol) : T = {}
    BY <1>2, DocumentAssumption DEF OnePerPermit, NoRow
  <2>2. SumFunctionOnSet([l \in Rows |-> row[l].qty], {}) = 0 /\ 0 <= MaxQty
    BY SumEmpty, DocumentAssumption
  <2> QED BY <2>1, <2>2, Zenon DEF ListedWithinOrdered
<1> QED BY <1>4, <1>5, <1>6, <1>7, <1>8, <1>9, <1>10 DEF DocumentsInv

-----------------------------------------------------------------------------
(* What a request relies on stays when the tables stay. *)
LEMMA TablesStay ==
    ASSUME UNCHANGED tables, NEW q
    PROVE  /\ Proper(q) => Proper(q)'
           /\ Current(q) => Current(q)'
<1>1. kind' = kind /\ header' = header /\ row' = row /\ cleared' = cleared
  BY DEF tables
<1>2. Proper(q) => Proper(q)'
  BY <1>1 DEF Proper
<1>3. Current(q) => Current(q)'
  <2>1. Listed(q.doc)' = Listed(q.doc) /\ Attached(q.doc)' = Attached(q.doc) /\ Live' = Live
    BY <1>1 DEF Listed, Attached, Active, Live
  <2>2. OnOtherPermits(q.doc, q.copy.about)' = OnOtherPermits(q.doc, q.copy.about)
    BY <1>1 DEF OnOtherPermits, UnitsOn
  <2> QED BY <1>1, <2>1, <2>2 DEF Current
<1> QED BY <1>2, <1>3

(* A step that only changes what a request knows. *)
LEMMA QuietKeeps ==
    ASSUME DocumentsInv, UNCHANGED tables, NEW r \in Requests, NEW q \in Request,
           req' = [req EXCEPT ![r] = q], raced' \in BOOLEAN, raced => raced', Proper(q),
           ~raced' => Current(q) /\ (q = Idle \/ \A p \in Requests \ {r} : req[p] = Idle)
    PROVE  DocumentsInv'
<1>1. /\ kind' = kind /\ header' = header /\ row' = row /\ revisions' = revisions
      /\ delivered' = delivered /\ cleared' = cleared
  BY DEF tables
<1>2. req'[r] = q /\ \A p \in Requests \ {r} : req'[p] = req[p]
  BY DEF DocumentsInv, TypeOK
<1>3. TypeOK'
  BY <1>1 DEF DocumentsInv, TypeOK
<1>4. TablesFit' /\ GoodsWereCleared'
  BY <1>1 DEF DocumentsInv, TablesFit, GoodsWereCleared, OnReleasedPermits
<1>5. NoLineLost'
  BY <1>1 DEF DocumentsInv, NoLineLost
<1>6. ASSUME NEW p \in Requests PROVE Proper(req[p])'
  <2>1. PICK x : x = req'[p]
    OBVIOUS
  <2>2. Proper(x)
    BY <1>2, <2>1, Zenon DEF DocumentsInv
  <2>3. Proper(x)'
    BY <2>2, TablesStay
  <2> QED BY <2>1, <2>3 DEF Proper
<1>7. Alone'
  <2>1. SUFFICES ASSUME ~raced'
                 PROVE  /\ \A s, p \in Requests : req'[s] # Idle /\ req'[p] # Idle => s = p
                        /\ \A p \in Requests : Current(req[p])'
    BY DEF Alone
  <2>2. /\ \A s, p \in Requests : req[s] # Idle /\ req[p] # Idle => s = p
        /\ \A p \in Requests : Current(req[p])
    BY <2>1 DEF DocumentsInv, Alone
  <2>3. \A s, p \in Requests : req'[s] # Idle /\ req'[p] # Idle => s = p
    BY <1>2, <2>1, <2>2
  <2>4. ASSUME NEW p \in Requests PROVE Current(req[p])'
    <3>1. PICK x : x = req'[p]
      OBVIOUS
    <3>2. Current(x)
      BY <1>2, <2>1, <2>2, <3>1, Zenon
    <3>3. Current(x)'
      BY <3>2, TablesStay
    <3> QED BY <3>1, <3>3 DEF Current
  <2> QED BY <2>3, <2>4
<1>8. ListedWithinOrdered'
  BY <1>1 DEF DocumentsInv, ListedWithinOrdered, OnePerPermit, Live
<1> QED BY <1>3, <1>4, <1>5, <1>6, <1>7, <1>8 DEF DocumentsInv

LEMMA StartKeeps ==
    ASSUME DocumentsInv, UNCHANGED tables, NEW r \in Requests, NEW q \in Request, Start(r, q),
           Proper(q), Current(q)
    PROVE  DocumentsInv'
<1>1. req' = [req EXCEPT ![r] = q] /\ raced' = (raced \/ \E p \in Requests : req[p] # Idle)
  BY DEF Start
<1>2. raced' \in BOOLEAN /\ (raced => raced')
  BY <1>1 DEF DocumentsInv, TypeOK
<1>3. ~raced' => \A p \in Requests \ {r} : req[p] = Idle
  BY <1>1
<1> QED BY <1>1, <1>2, <1>3, QuietKeeps

LEMMA GoOnKeeps ==
    ASSUME DocumentsInv, UNCHANGED tables, NEW r \in Requests, NEW q \in Request, GoOn(r, q),
           q = Idle \/ req[r] # Idle, Proper(q), ~raced => Current(q)
    PROVE  DocumentsInv'
<1>1. req' = [req EXCEPT ![r] = q] /\ raced' = raced
  BY DEF GoOn
<1>2. ~raced => (q = Idle \/ \A p \in Requests \ {r} : req[p] = Idle)
  BY DEF DocumentsInv, Alone
<1>3. raced' \in BOOLEAN
  BY <1>1 DEF DocumentsInv, TypeOK
<1> QED BY <1>1, <1>2, <1>3, QuietKeeps

LEMMA RefusedKeeps ==
    ASSUME DocumentsInv, NEW r \in Requests, Refused(r)
    PROVE  DocumentsInv'
BY IdleFits, GoOnKeeps DEF Refused, Finish

(* What is known of a request that goes on. *)
LEMMA OfRequest ==
    ASSUME DocumentsInv, NEW r \in Requests
    PROVE  /\ req[r] \in Request /\ Proper(req[r])
           /\ ~raced => Current(req[r])
           /\ req[r].step # "idle" => req[r] # Idle
BY DEF DocumentsInv, TypeOK, Alone, Idle

-----------------------------------------------------------------------------
(* The steps that all documents have in common.                             *)

LEMMA StatusReadKeeps ==
    ASSUME DocumentsInv, NEW r \in Requests, NEW d \in Docs, NEW s, StatusRead(r, d, s)
    PROVE  DocumentsInv'
<1>1. kind \in Kinds /\ header[d] \in Header
  BY DEF DocumentsInv, TypeOK
<1>2. /\ s \in Statuses /\ (kind # "permit" => s # "Released")
      /\ header[d].status # "None" /\ (kind = "permit" => header[d].status # "Cancelled")
  BY <1>1, WorkflowFacts DEF StatusRead
<1>3. PICK q : q = [Idle EXCEPT !.step = "save", !.doc = d, !.listed = Listed(d),
                                !.wants = [header[d] EXCEPT !.status = s]]
  OBVIOUS
<1>4. /\ q.step = "save" /\ q.doc = d /\ q.listed = Listed(d)
      /\ q.wants = [header[d] EXCEPT !.status = s]
  BY <1>3 DEF Idle
<1>5. q \in Request
  <2>1. [header[d] EXCEPT !.status = s] \in Header /\ Listed(d) \subseteq Rows
    BY <1>1, <1>2 DEF Header, Listed, Active, Attached
  <2> QED BY <1>3, <2>1, IdleFits DEF Request, Idle, Steps
<1>6. Proper(q)
  <2>1. q.wants.status = s
    BY <1>1, <1>4 DEF Header
  <2> QED BY <1>2, <1>4, <2>1 DEF Proper, Editing
<1>7. Current(q)
  BY <1>2, <1>4 DEF Current, Editing, Live
<1>8. Start(r, q) /\ UNCHANGED tables
  BY <1>3 DEF StatusRead
<1> QED BY <1>5, <1>6, <1>7, <1>8, StartKeeps

LEMMA SaveSelectKeeps ==
    ASSUME DocumentsInv, NEW r \in Requests, SaveSelect(r)
    PROVE  DocumentsInv'
<1>1. PICK a \in Request : a = req[r]
  BY OfRequest
<1>2. Proper(a) /\ (~raced => Current(a)) /\ a.step = "save" /\ req[r] # Idle
  BY <1>1, OfRequest DEF SaveSelect
<1>3. a.doc \in Docs /\ header[a.doc] \in Header
  BY <1>2 DEF Proper, DocumentsInv, TypeOK
<1>4. PICK q : q = [a EXCEPT !.step = "update", !.base = header[a.doc], !.attached = Attached(a.doc)]
  OBVIOUS
<1>5. /\ q.step = "update" /\ q.doc = a.doc /\ q.listed = a.listed /\ q.wants = a.wants
      /\ q.base = header[q.doc] /\ q.attached = Attached(q.doc)
  BY <1>4 DEF Request
<1>6. q \in Request
  BY <1>3, <1>4 DEF Request, Steps, Attached
<1>7. Proper(q)
  BY <1>2, <1>5 DEF Proper, Editing
<1>8. ~raced => Current(q)
  BY <1>2, <1>5 DEF Current, Editing
<1>9. GoOn(r, q) /\ UNCHANGED tables
  BY <1>1, <1>4 DEF SaveSelect
<1> QED BY <1>2, <1>6, <1>7, <1>8, <1>9, GoOnKeeps

LEMMA AddReadKeeps ==
    ASSUME DocumentsInv, kind # "permit", NEW r \in Requests, NEW d \in Docs, NEW l \in Rows,
           NEW n \in 1..MaxQty, AddRead(r, d, l, n)
    PROVE  DocumentsInv'
<1>1. PICK copy : copy = [NoRow EXCEPT !.doc = d, !.qty = n]
  OBVIOUS
<1>2. copy \in Row /\ copy # NoRow /\ copy.doc = d
  BY <1>1, DocumentAssumption DEF Row, NoRow
<1>3. PICK q : q = [Idle EXCEPT !.step = Writing, !.doc = d, !.id = {l}, !.copy = copy]
  OBVIOUS
<1>4. /\ q.step = Writing /\ q.doc = d /\ q.id = {l} /\ q.copy = copy /\ q.old = NoRow
      /\ q.wants = NoHeader
  BY <1>3 DEF Idle
<1>5. q \in Request
  <2>1. Writing \in Steps
    BY DEF Writing, Steps
  <2> QED BY <1>2, <1>3, <2>1, IdleFits DEF Request, Idle
<1>6. /\ Writing \in {"revise", "commit"} /\ (Writing = "revise" => kind = "quotation")
      /\ NoHeader.status # "Released"
  BY DEF Writing, NoHeader
<1>7. Proper(q)
  BY <1>2, <1>4, <1>6 DEF Proper, Editing
<1>8. Current(q)
  <2>1. header[d].status = "Draft" /\ row[l] = NoRow
    BY DEF AddRead, IsDraft, Fresh
  <2> QED BY <1>2, <1>4, <1>6, <2>1 DEF Current, Editing
<1>9. Start(r, q) /\ UNCHANGED tables
  BY <1>1, <1>3 DEF AddRead
<1> QED BY <1>5, <1>7, <1>8, <1>9, StartKeeps

(* Whatever an edit changes in the line that it read. *)
LEMMA EditReadKeeps ==
    ASSUME DocumentsInv, kind # "permit", NEW r \in Requests, NEW l \in Rows,
           NEW copy \in Row, copy.doc = row[l].doc, EditRead(r, l, copy)
    PROVE  DocumentsInv'
<1>1. PICK q : q = [Idle EXCEPT !.step = "check", !.doc = row[l].doc, !.id = {l}, !.copy = copy]
  OBVIOUS
<1>2. /\ q.step = "check" /\ q.doc = row[l].doc /\ q.id = {l} /\ q.copy = copy /\ q.old = NoRow
      /\ q.wants = NoHeader
  BY <1>1 DEF Idle
<1>3. row[l].doc \in Docs
  BY DEF EditRead
<1>4. row[l] # NoRow /\ copy # NoRow /\ NoHeader.status # "Released"
  BY <1>3, DocumentAssumption DEF NoRow, NoHeader
<1>5. q \in Request
  BY <1>1, <1>3, IdleFits DEF Request, Idle, Steps
<1>6. Proper(q)
  BY <1>2, <1>3, <1>4 DEF Proper, Editing
<1>7. Current(q)
  BY <1>2 DEF Current, Editing
<1>8. Start(r, q) /\ UNCHANGED tables
  BY <1>1 DEF EditRead
<1> QED BY <1>5, <1>6, <1>7, <1>8, StartKeeps

LEMMA EditCheckKeeps ==
    ASSUME DocumentsInv, NEW r \in Requests, EditCheck(r)
    PROVE  DocumentsInv'
<1>1. PICK a \in Request : a = req[r]
  BY OfRequest
<1>2. Proper(a) /\ (~raced => Current(a)) /\ a.step = "check" /\ req[r] # Idle
  BY <1>1, OfRequest DEF EditCheck
<1>3. PICK q : q = [a EXCEPT !.step = "selectRow"]
  OBVIOUS
<1>4. /\ q.step = "selectRow" /\ q.doc = a.doc /\ q.id = a.id /\ q.copy = a.copy /\ q.old = a.old
      /\ q.wants = a.wants /\ q \in Request
  BY <1>3 DEF Request, Steps
<1>5. Proper(q)
  BY <1>2, <1>4 DEF Proper, Editing
<1>6. ~raced => Current(q)
  BY <1>1, <1>2, <1>4 DEF Current, Editing, EditCheck, IsDraft
<1>7. GoOn(r, q) /\ UNCHANGED tables
  BY <1>1, <1>3 DEF EditCheck
<1> QED BY <1>2, <1>4, <1>5, <1>6, <1>7, GoOnKeeps

LEMMA EditSelectKeeps ==
    ASSUME DocumentsInv, NEW r \in Requests, EditSelect(r)
    PROVE  DocumentsInv'
<1>1. PICK a \in Request : a = req[r]
  BY OfRequest
<1>2. Proper(a) /\ (~raced => Current(a)) /\ a.step = "selectRow" /\ req[r] # Idle
  BY <1>1, OfRequest DEF EditSelect
<1>3. PICK l \in a.id : GoOn(r, [a EXCEPT !.step = Writing, !.old = row[l]])
  BY <1>1 DEF EditSelect
<1>4. a.id = {l} /\ l \in Rows /\ row[l] \in Row \cup {NoRow}
  BY <1>3 DEF Request, DocumentsInv, TypeOK
<1>5. PICK q : q = [a EXCEPT !.step = Writing, !.old = row[l]]
  OBVIOUS
<1>6. /\ q.step = Writing /\ q.doc = a.doc /\ q.id = a.id /\ q.copy = a.copy /\ q.old = row[l]
      /\ q.wants = a.wants
  BY <1>5 DEF Request
<1>7. Writing \in {"revise", "commit"} /\ (Writing = "revise" => kind = "quotation")
  BY DEF Writing
<1>8. q \in Request
  <2>1. Writing \in Steps
    BY DEF Writing, Steps
  <2> QED BY <1>4, <1>5, <2>1 DEF Request
<1>9. Proper(q)
  BY <1>2, <1>3, <1>6, <1>7 DEF Proper, Editing
<1>10. ~raced => Current(q)
  <2>1. kind # "permit"
    BY <1>2 DEF Proper
  <2> QED BY <1>2, <1>4, <1>6, <1>7, <2>1 DEF Current, Editing
<1>11. GoOn(r, q) /\ UNCHANGED tables
  BY <1>3, <1>5 DEF EditSelect
<1> QED BY <1>2, <1>8, <1>9, <1>10, <1>11, GoOnKeeps

-----------------------------------------------------------------------------
(* Quotations and RFQs.                                                     *)

LEMMA RevisionReadKeeps ==
    ASSUME DocumentsInv, NEW r \in Requests, RevisionRead(r)
    PROVE  DocumentsInv'
<1>1. PICK a \in Request : a = req[r]
  BY OfRequest
<1>2. Proper(a) /\ (~raced => Current(a)) /\ a.step = "revise" /\ req[r] # Idle /\ UNCHANGED tables
  BY <1>1, OfRequest DEF RevisionRead
<1>3. a.doc \in Docs
  BY <1>2 DEF Proper, Editing
<1>4. PICK read \in Header : read = header[a.doc]
  BY <1>3 DEF DocumentsInv, TypeOK
<1>5. CASE read.status = "Draft" /\ GoOn(r, [a EXCEPT !.step = "commit"])
  <2>1. PICK q : q = [a EXCEPT !.step = "commit"]
    OBVIOUS
  <2>2. /\ q.step = "commit" /\ q.doc = a.doc /\ q.id = a.id /\ q.copy = a.copy /\ q.old = a.old
        /\ q.wants = a.wants /\ q \in Request
    BY <2>1 DEF Request, Steps
  <2>3. Proper(q)
    BY <1>2, <2>2 DEF Proper, Editing
  <2>4. ~raced => Current(q)
    <3>1. kind # "permit"
      BY <1>2 DEF Proper
    <3> QED BY <1>2, <2>2, <3>1 DEF Current, Editing
  <2> QED BY <1>2, <1>5, <2>1, <2>2, <2>3, <2>4, GoOnKeeps
<1>6. CASE /\ read.status # "Draft" /\ read.revision < MaxRevisions
           /\ GoOn(r, [a EXCEPT !.step = "bump", !.wants = [read EXCEPT !.revision = @ + 1]])
  <2>1. PICK wants : wants = [read EXCEPT !.revision = @ + 1]
    OBVIOUS
  <2>2. wants \in Header /\ wants.revision > 0 /\ wants.status = read.status
    BY <1>6, <2>1, DocumentAssumption DEF Header
  <2>3. PICK q : q = [a EXCEPT !.step = "bump", !.wants = wants]
    OBVIOUS
  <2>4. /\ q.step = "bump" /\ q.doc = a.doc /\ q.id = a.id /\ q.copy = a.copy /\ q.old = a.old
        /\ q.wants = wants /\ q \in Request
    BY <2>2, <2>3 DEF Request, Steps
  <2>5. Proper(q)
    <3>1. kind # "permit" => wants.status # "Released"
      BY <1>3, <1>4, <2>2 DEF DocumentsInv, TablesFit
    <3> QED BY <1>2, <2>2, <2>4, <3>1 DEF Proper, Editing
  <2>6. raced
    BY <1>2, <1>4, <1>6 DEF Current, Editing
  <2> QED BY <1>2, <1>6, <2>1, <2>3, <2>4, <2>5, <2>6, GoOnKeeps
<1> QED BY <1>1, <1>4, <1>5, <1>6 DEF RevisionRead

LEMMA RevisionSelectKeeps ==
    ASSUME DocumentsInv, NEW r \in Requests, RevisionSelect(r)
    PROVE  DocumentsInv'
<1>1. PICK a \in Request : a = req[r]
  BY OfRequest
<1>2. /\ Proper(a) /\ (~raced => Current(a)) /\ a.step = "bump" /\ req[r] # Idle
      /\ UNCHANGED tables
  BY <1>1, OfRequest DEF RevisionSelect
<1>3. raced
  BY <1>2 DEF Current, Editing
<1>4. a.doc \in Docs /\ header[a.doc] \in Header
  BY <1>2 DEF Proper, Editing, DocumentsInv, TypeOK
<1>5. PICK q : q = [a EXCEPT !.step = "commit", !.base = header[a.doc]]
  OBVIOUS
<1>6. /\ q.step = "commit" /\ q.doc = a.doc /\ q.id = a.id /\ q.copy = a.copy /\ q.old = a.old
      /\ q.wants = a.wants /\ q \in Request
  BY <1>4, <1>5 DEF Request, Steps
<1>7. Proper(q)
  BY <1>2, <1>6 DEF Proper, Editing
<1>8. GoOn(r, q)
  BY <1>1, <1>5 DEF RevisionSelect
<1> QED BY <1>2, <1>3, <1>6, <1>7, <1>8, GoOnKeeps

LEMMA HeaderReadKeeps ==
    ASSUME DocumentsInv, NEW r \in Requests, NEW d \in Docs, HeaderRead(r, d)
    PROVE  DocumentsInv'
<1>1. /\ header[d] \in Header /\ header[d].status = "Draft" /\ kind = "rfq"
      /\ UNCHANGED tables
  BY DEF DocumentsInv, TypeOK, HeaderRead
<1>2. PICK q : q = [Idle EXCEPT !.step = "save", !.doc = d, !.listed = Listed(d),
                                !.wants = header[d]]
  OBVIOUS
<1>3. q.step = "save" /\ q.doc = d /\ q.listed = Listed(d) /\ q.wants = header[d]
  BY <1>2 DEF Idle
<1>4. q \in Request
  <2>1. Listed(d) \subseteq Rows
    BY DEF Listed, Active, Attached
  <2> QED BY <1>1, <1>2, <2>1, IdleFits DEF Request, Idle, Steps
<1>5. Proper(q)
  BY <1>1, <1>3 DEF Proper, Editing, DocumentsInv, TablesFit
<1>6. Current(q)
  BY <1>1, <1>3 DEF Current, Editing
<1>7. Start(r, q)
  BY <1>2 DEF HeaderRead
<1> QED BY <1>1, <1>4, <1>5, <1>6, <1>7, StartKeeps

-----------------------------------------------------------------------------
(* Permits and deliveries.                                                  *)

LEMMA CreateCheckKeeps ==
    ASSUME DocumentsInv, NEW r \in Requests, NEW ol, NEW n, CreateCheck(r, ol, n)
    PROVE  DocumentsInv'
<1>1. PICK q : q = [Idle EXCEPT !.step = "readBack"]
  OBVIOUS
<1>2. q.step = "readBack" /\ q.wants.status # "Released" /\ q \in Request
  BY <1>1, IdleFits DEF Idle, Request, Steps, NoHeader
<1>3. Proper(q) /\ Current(q)
  BY <1>2 DEF Proper, Current, Editing
<1>4. Start(r, q) /\ UNCHANGED tables
  BY <1>1 DEF CreateCheck
<1> QED BY <1>2, <1>3, <1>4, StartKeeps

LEMMA AddLineReadKeeps ==
    ASSUME DocumentsInv, NEW r \in Requests, NEW d \in Docs, NEW l \in Rows, NEW ol \in OrderLines,
           NEW n \in 1..MaxQty, AddLineRead(r, d, l, ol, n)
    PROVE  DocumentsInv'
<1>1. PICK copy : copy = [doc |-> d, about |-> ol, qty |-> n, deleted |-> FALSE]
  OBVIOUS
<1>2. copy \in Row /\ copy # NoRow /\ copy.doc = d /\ copy.about = ol
  BY <1>1, DocumentAssumption DEF Row, NoRow
<1>3. PICK q : q = [Idle EXCEPT !.step = "order", !.doc = d, !.id = {l}, !.copy = copy]
  OBVIOUS
<1>4. /\ q.step = "order" /\ q.doc = d /\ q.id = {l} /\ q.copy = copy /\ q.old = NoRow
      /\ q.wants = NoHeader
  BY <1>3 DEF Idle
<1>5. q \in Request
  BY <1>2, <1>3, IdleFits DEF Request, Idle, Steps
<1>6. /\ kind = "permit" /\ header[d].status = "Draft" /\ row[l] = NoRow
      /\ Start(r, q) /\ UNCHANGED tables
  BY <1>1, <1>3 DEF AddLineRead, Fresh
<1>7. Proper(q)
  BY <1>2, <1>4, <1>6 DEF Proper, Editing
<1>8. Current(q)
  BY <1>2, <1>4, <1>6 DEF Current, Editing
<1> QED BY <1>5, <1>6, <1>7, <1>8, StartKeeps

LEMMA OrderLineReadKeeps ==
    ASSUME DocumentsInv, NEW r \in Requests, OrderLineRead(r)
    PROVE  DocumentsInv'
<1>1. PICK a \in Request : a = req[r]
  BY OfRequest
<1>2. Proper(a) /\ (~raced => Current(a)) /\ a.step = "order" /\ req[r] # Idle
  BY <1>1, OfRequest DEF OrderLineRead
<1>3. kind = "permit" /\ a.copy.about \in OrderLines
  BY <1>2 DEF Proper, Editing
<1>4. Remaining(a.copy.about) \in 0..MaxQty
  <2>1. delivered[a.copy.about] \in 0..MaxQty
    BY <1>3 DEF DocumentsInv, TypeOK
  <2> QED BY <2>1, DocumentAssumption DEF Remaining
<1>5. PICK q : q = [a EXCEPT !.step = "others", !.left = Remaining(a.copy.about)]
  OBVIOUS
<1>6. /\ q.step = "others" /\ q.doc = a.doc /\ q.id = a.id /\ q.copy = a.copy /\ q.old = a.old
      /\ q.wants = a.wants /\ q \in Request
  BY <1>4, <1>5 DEF Request, Steps
<1>7. Proper(q)
  BY <1>2, <1>6 DEF Proper, Editing
<1>8. ~raced => Current(q)
  BY <1>2, <1>6 DEF Current, Editing
<1>9. GoOn(r, q) /\ UNCHANGED tables
  BY <1>1, <1>5 DEF OrderLineRead
<1> QED BY <1>2, <1>6, <1>7, <1>8, <1>9, GoOnKeeps

(* What permits have of an order line is a count. *)
LEMMA UnitsOnIsACount ==
    ASSUME DocumentsInv, NEW ol, NEW permits
    PROVE  UnitsOn(ol, permits) \in Nat
<1>1. PICK qty : qty = [l \in Rows |-> row[l].qty]
  OBVIOUS
<1>2. PICK S \in SUBSET Rows : S = {l \in Rows : row[l].about = ol /\ row[l].doc \in permits}
  OBVIOUS
<1>3. \A l \in Rows : qty[l] \in Nat
  <2>1. \A l \in Rows : row[l] \in Row \cup {NoRow}
    BY DEF DocumentsInv, TypeOK
  <2> QED BY <1>1, <2>1, DocumentAssumption DEF Row, NoRow
<1>4. SumFunctionOnSet(qty, S) \in Nat
  BY <1>3, DocumentAssumption, SumOfSome
<1> QED BY <1>1, <1>2, <1>4, Zenon DEF UnitsOn

LEMMA OthersReadKeeps ==
    ASSUME DocumentsInv, NEW r \in Requests, OthersRead(r)
    PROVE  DocumentsInv'
<1>1. PICK a \in Request : a = req[r]
  BY OfRequest
<1>2. Proper(a) /\ (~raced => Current(a)) /\ a.step = "others" /\ req[r] # Idle
  BY <1>1, OfRequest DEF OthersRead
<1>3. PICK q : q = [a EXCEPT !.step = "commit"]
  OBVIOUS
<1>4. /\ q.step = "commit" /\ q.doc = a.doc /\ q.id = a.id /\ q.copy = a.copy /\ q.old = a.old
      /\ q.wants = a.wants /\ q \in Request
  BY <1>3 DEF Request, Steps
<1>5. Proper(q)
  BY <1>2, <1>4 DEF Proper, Editing
<1>6. q.copy.qty <= MaxQty - OnOtherPermits(q.doc, q.copy.about)
  <2>1. a.copy.qty <= a.left - OnOtherPermits(a.doc, a.copy.about)
    BY <1>1 DEF OthersRead, Releasable
  <2>2. OnOtherPermits(a.doc, a.copy.about) \in Nat
    BY UnitsOnIsACount DEF OnOtherPermits
  <2>3. a.copy.qty \in Nat /\ a.left \in 0..MaxQty
    <3>1. a.copy \in Row \cup {NoRow} /\ a.left \in 0..MaxQty
      BY DEF Request
    <3> QED BY <3>1, DocumentAssumption DEF Row, NoRow
  <2> QED BY <1>4, <2>1, <2>2, <2>3, DocumentAssumption
<1>7. ~raced => Current(q)
  BY <1>2, <1>4, <1>6 DEF Current, Editing
<1>8. GoOn(r, q) /\ UNCHANGED tables
  BY <1>1, <1>3 DEF OthersRead
<1> QED BY <1>2, <1>4, <1>5, <1>7, <1>8, GoOnKeeps

LEMMA RemoveLineReadKeeps ==
    ASSUME DocumentsInv, NEW r \in Requests, NEW l \in Rows, RemoveLineRead(r, l)
    PROVE  DocumentsInv'
<1>1. kind = "permit" /\ row[l] # NoRow /\ header[row[l].doc].status = "Draft" /\ UNCHANGED tables
  BY DEF RemoveLineRead
<1>2. row[l].doc \in Docs
  BY <1>1 DEF DocumentsInv, TablesFit
<1>3. PICK q : q = [Idle EXCEPT !.step = "delete", !.doc = row[l].doc, !.id = {l}]
  OBVIOUS
<1>4. q.step = "delete" /\ q.doc = row[l].doc /\ q.id = {l} /\ q \in Request
  BY <1>2, <1>3, IdleFits DEF Idle, Request, Steps
<1>5. Proper(q)
  BY <1>1, <1>4 DEF Proper, Editing
<1>6. Current(q)
  BY <1>1, <1>4 DEF Current, Editing
<1>7. Start(r, q)
  BY <1>3 DEF RemoveLineRead
<1> QED BY <1>1, <1>4, <1>5, <1>6, <1>7, StartKeeps

LEMMA DeliverReadKeeps ==
    ASSUME DocumentsInv, NEW r \in Requests, NEW ol \in OrderLines, NEW n \in 1..MaxQty,
           DeliverRead(r, ol, n)
    PROVE  DocumentsInv'
<1>1. kind = "permit" /\ n <= Remaining(ol) /\ UNCHANGED tables
  BY DEF DeliverRead
<1>2. PICK copy : copy = [NoRow EXCEPT !.about = ol, !.qty = n]
  OBVIOUS
<1>3. copy \in Row /\ copy # NoRow /\ copy.about = ol /\ copy.qty = n
  BY <1>2, DocumentAssumption DEF Row, NoRow
<1>4. delivered[ol] \in 0..MaxQty
  BY DEF DocumentsInv, TypeOK
<1>5. PICK q : q = [Idle EXCEPT !.step = "gate", !.left = delivered[ol], !.copy = copy]
  OBVIOUS
<1>6. q.step = "gate" /\ q.left = delivered[ol] /\ q.copy = copy /\ q \in Request
  BY <1>3, <1>4, <1>5, IdleFits DEF Idle, Request, Steps
<1>7. delivered[ol] + n <= MaxQty
  BY <1>1, <1>4, DocumentAssumption DEF Remaining
<1>8. Proper(q)
  BY <1>1, <1>3, <1>6, <1>7 DEF Proper, Editing
<1>9. Current(q)
  BY <1>6 DEF Current, Editing
<1>10. Start(r, q)
  BY <1>2, <1>5 DEF DeliverRead
<1> QED BY <1>1, <1>6, <1>8, <1>9, <1>10, StartKeeps

(* Only goods on a Released permit pass the gate. *)
LEMMA GateKeeps ==
    ASSUME DocumentsInv, NEW r \in Requests, Gate(r)
    PROVE  DocumentsInv'
<1>1. PICK a \in Request : a = req[r]
  BY OfRequest
<1>2. Proper(a) /\ (~raced => Current(a)) /\ a.step = "gate" /\ req[r] # Idle
  BY <1>1, OfRequest DEF Gate
<1>3. PICK ol \in OrderLines : ol = a.copy.about
  BY <1>2 DEF Proper
<1>4. kind = "permit" /\ UnitsOn(ol, ReleasedPermits) >= a.copy.qty /\ UNCHANGED tables
  BY <1>1, <1>2, <1>3 DEF Gate, Proper
<1>5. a.copy.qty \in Nat /\ a.copy.qty >= 1
  BY <1>2, DocumentAssumption DEF Proper, Request, Row
<1>6. ol \in cleared
  <2>1. PICK S \in SUBSET Rows :
            S = {l \in Rows : row[l].about = ol /\ row[l].doc \in ReleasedPermits}
    OBVIOUS
  <2>2. S # {}
    <3>1. SUFFICES ASSUME S = {} PROVE FALSE
      OBVIOUS
    <3>2. UnitsOn(ol, ReleasedPermits) = 0
      BY <2>1, <3>1, SumEmpty, Zenon DEF UnitsOn
    <3> QED BY <1>4, <1>5, <3>2
  <2>3. PICK l \in Rows : row[l].about = ol /\ row[l].doc \in ReleasedPermits
    BY <2>1, <2>2
  <2>4. ol \in OnReleasedPermits(header, row)
    BY <2>3 DEF OnReleasedPermits, ReleasedPermits
  <2> QED BY <1>4, <2>4 DEF DocumentsInv, TablesFit
<1>7. PICK q : q = [a EXCEPT !.step = "handOver"]
  OBVIOUS
<1>8. q.step = "handOver" /\ q.copy = a.copy /\ q.left = a.left /\ q.wants = a.wants /\ q \in Request
  BY <1>7 DEF Request, Steps
<1>9. Proper(q)
  BY <1>2, <1>3, <1>6, <1>8 DEF Proper, Editing
<1>10. Current(q)
  BY <1>8 DEF Current, Editing
<1>11. GoOn(r, q)
  BY <1>1, <1>7 DEF Gate
<1> QED BY <1>2, <1>4, <1>8, <1>9, <1>10, <1>11, GoOnKeeps

-----------------------------------------------------------------------------
(* What an UPDATE of the changed columns leaves.                            *)

LEMMA MergedRow ==
    ASSUME NEW now \in Row, NEW old \in Row \cup {NoRow}, NEW copy \in Row
    PROVE  /\ Merged(now, old, copy) \in Row
           /\ Merged(now, old, copy).doc = IF copy.doc # old.doc THEN copy.doc ELSE now.doc
           /\ Merged(now, old, copy).about = IF copy.about # old.about THEN copy.about ELSE now.about
           /\ now = old => Merged(now, old, copy) = copy
<1>1. PICK m : m = Merged(now, old, copy)
  OBVIOUS
<1>2. /\ now = [doc |-> now.doc, about |-> now.about, qty |-> now.qty, deleted |-> now.deleted]
      /\ copy = [doc |-> copy.doc, about |-> copy.about, qty |-> copy.qty, deleted |-> copy.deleted]
      /\ DOMAIN now = {"doc", "about", "qty", "deleted"}
  BY DEF Row
<1>3. m = [doc |-> IF copy.doc # old.doc THEN copy.doc ELSE now.doc,
           about |-> IF copy.about # old.about THEN copy.about ELSE now.about,
           qty |-> IF copy.qty # old.qty THEN copy.qty ELSE now.qty,
           deleted |-> IF copy.deleted # old.deleted THEN copy.deleted ELSE now.deleted]
  BY <1>1, <1>2 DEF Merged
<1>4. m \in Row
  BY <1>3 DEF Row
<1>5. now = old => m = copy
  BY <1>2, <1>3
<1> QED BY <1>1, <1>3, <1>4, <1>5

LEMMA MergedHeader ==
    ASSUME NEW now \in Header, NEW base \in Header, NEW wants \in Header
    PROVE  /\ Merged(now, base, wants) \in Header
           /\ Merged(now, base, wants).status \in {now.status, wants.status}
           /\ now = base => Merged(now, base, wants) = wants
<1>1. PICK m : m = Merged(now, base, wants)
  OBVIOUS
<1>2. /\ now = [status |-> now.status, revision |-> now.revision]
      /\ wants = [status |-> wants.status, revision |-> wants.revision]
      /\ DOMAIN now = {"status", "revision"}
  BY DEF Header
<1>3. m = [status |-> IF wants.status # base.status THEN wants.status ELSE now.status,
           revision |-> IF wants.revision # base.revision THEN wants.revision ELSE now.revision]
  BY <1>1, <1>2 DEF Merged
<1>4. m \in Header
  BY <1>3 DEF Header
<1>5. now = base => m = wants
  BY <1>2, <1>3
<1> QED BY <1>1, <1>3, <1>4, <1>5

(* The other requests, when one has written and is over. *)
LEMMA OthersStay ==
    ASSUME DocumentsInv, kind' = kind, cleared \subseteq cleared',
           \A l \in Rows : kind # "permit" /\ row[l] # NoRow => row'[l] # NoRow,
           NEW q \in Request, Proper(q)
    PROVE  Proper(q)'
<1>1. q.id \subseteq Rows
  BY DEF Request
<1>2. q.step \in {"check", "selectRow"} => kind # "permit" /\ \A l \in q.id : row'[l] # NoRow
  BY <1>1 DEF Proper
<1>3. q.step \in Editing => (q.old = NoRow \/ \A l \in q.id : row'[l] # NoRow)
  BY <1>1 DEF Proper
<1>4. q.step = "handOver" => q.copy.about \in cleared'
  BY DEF Proper
<1> QED BY <1>2, <1>3, <1>4 DEF Proper

LEMMA FinishFits ==
    ASSUME DocumentsInv, kind' = kind, cleared \subseteq cleared',
           \A l \in Rows : kind # "permit" /\ row[l] # NoRow => row'[l] # NoRow,
           NEW r \in Requests, req[r].step # "idle", Finish(r)
    PROVE  /\ raced' = raced /\ req' \in [Requests -> Request]
           /\ \A p \in Requests : Proper(req[p])'
           /\ Alone'
<1>1. req' = [req EXCEPT ![r] = Idle] /\ raced' = raced
  BY DEF Finish, GoOn
<1>2. req' \in [Requests -> Request]
  BY <1>1, IdleFits DEF DocumentsInv, TypeOK
<1>3. req'[r] = Idle /\ \A p \in Requests \ {r} : req'[p] = req[p]
  BY <1>1 DEF DocumentsInv, TypeOK
<1>4. ASSUME NEW p \in Requests PROVE Proper(req[p])'
  <2>1. PICK x \in Request : x = req'[p]
    BY <1>2
  <2>2. Proper(x)
    BY <1>3, <2>1, IdleFits, Zenon DEF DocumentsInv
  <2>3. Proper(x)'
    BY <2>2, OthersStay
  <2> QED BY <2>1, <2>3 DEF Proper
<1>5. Alone'
  <2>1. SUFFICES ASSUME ~raced'
                 PROVE  /\ \A s, p \in Requests : req'[s] # Idle /\ req'[p] # Idle => s = p
                        /\ \A p \in Requests : Current(req[p])'
    BY DEF Alone
  <2>2. \A p \in Requests : req'[p] = Idle
    BY <1>1, <1>3, <2>1, OfRequest DEF DocumentsInv, Alone
  <2>3. ASSUME NEW p \in Requests PROVE Current(req[p])'
    BY <2>2 DEF Current, Idle, Editing
  <2> QED BY <2>2, <2>3
<1> QED BY <1>1, <1>2, <1>4, <1>5

-----------------------------------------------------------------------------
(* A document is saved with its rows: a row stays one of the same line, and *)
(* when nothing overlapped, only a deleted one changes.                     *)
LEMMA SaveUpdateRows ==
    ASSUME DocumentsInv, NEW r \in Requests, SaveUpdate(r), NEW l \in Rows
    PROVE  /\ row[l] = NoRow => row'[l] = NoRow
           /\ row[l] # NoRow =>
                 /\ row'[l] \in Row /\ row'[l] # NoRow /\ row'[l].about = row[l].about
                 /\ row'[l].qty = row[l].qty /\ row'[l].deleted = row[l].deleted
                 /\ kind # "quotation" => row'[l].doc \in Docs
           /\ ~raced => row'[l] = row[l] \/ (row[l].deleted /\ kind # "permit")
<1>1. PICK a \in Request : a = req[r]
  BY OfRequest
<1>2. Proper(a) /\ (~raced => Current(a)) /\ a.step = "update"
  BY <1>1, OfRequest DEF SaveUpdate
<1>3. a.doc \in Docs /\ row[l] \in Row \cup {NoRow}
  BY <1>2 DEF Proper, DocumentsInv, TypeOK
<1>4. PICK d : d = DocumentOf(r, l)
  OBVIOUS
<1>5. d = IF l \in a.attached \ a.listed THEN NoDoc
          ELSE IF l \in a.listed \ a.attached /\ row[l] # NoRow THEN a.doc ELSE row[l].doc
  BY <1>1, <1>4 DEF DocumentOf, Orphans
<1>6. row'[l] = [row[l] EXCEPT !.doc = d]
  BY <1>4 DEF SaveUpdate
<1>7. kind # "quotation" => a.attached \ a.listed = {}
  BY <1>1 DEF SaveUpdate, Detachable, Orphans
<1>8. CASE row[l] = NoRow
  <2>1. d = NoDoc
    BY <1>5, <1>8 DEF NoRow
  <2>2. [NoRow EXCEPT !.doc = NoDoc] = NoRow
    <3>1. NoRow = [c \in DOMAIN NoRow |-> NoRow[c]] /\ NoRow.doc = NoDoc
      BY DEF NoRow
    <3>2. [NoRow EXCEPT !.doc = NoRow.doc] = NoRow
      BY <3>1
    <3> QED BY <3>1, <3>2, Zenon
  <2>3. row'[l] = NoRow
    BY <1>6, <1>8, <2>1, <2>2, Zenon
  <2> QED BY <1>8, <2>3
<1>9. CASE row[l] # NoRow
  <2>1. row[l] \in Row /\ d \in Docs \cup {NoDoc}
    BY <1>3, <1>5, <1>9 DEF Row
  <2>2. /\ row'[l] \in Row /\ row'[l].about = row[l].about /\ row'[l].doc = d
        /\ row'[l].qty = row[l].qty /\ row'[l].deleted = row[l].deleted
    BY <1>6, <2>1 DEF Row
  <2>3. row'[l] # NoRow
    BY <2>2, DocumentAssumption DEF Row, NoRow
  <2>4. kind # "quotation" => d \in Docs
    BY <1>3, <1>5, <1>7, <1>9 DEF DocumentsInv, TablesFit
  <2>5. ASSUME ~raced PROVE row'[l] = row[l] \/ (row[l].deleted /\ kind # "permit")
    <3>1. a.listed = Listed(a.doc) /\ a.attached = Attached(a.doc)
      BY <1>2, <2>5 DEF Current
    <3>2. d = row[l].doc \/ (row[l].deleted /\ kind # "permit")
      BY <1>5, <3>1 DEF Listed, Active, Attached
    <3>3. d = row[l].doc => row'[l] = row[l]
      BY <1>6, <2>1 DEF Row
    <3> QED BY <3>2, <3>3
  <2> QED BY <1>9, <2>2, <2>3, <2>4, <2>5
<1> QED BY <1>8, <1>9

(* What is on Released permits after a write is a line of the order. *)
LEMMA ReleasedAreOrderLines ==
    ASSUME NEW headers, NEW rows, \A d \in Docs : headers[d].status = "Released" => kind = "permit",
           \A l \in Rows : rows[l] \in Row \cup {NoRow},
           \A l \in Rows : kind = "permit" /\ rows[l] # NoRow => rows[l].about \in OrderLines
    PROVE  OnReleasedPermits(headers, rows) \subseteq OrderLines
BY DocumentAssumption DEF OnReleasedPermits, NoRow

LEMMA SaveUpdateHeader ==
    ASSUME DocumentsInv, NEW r \in Requests, SaveUpdate(r)
    PROVE  /\ req[r].doc \in Docs /\ header' \in [Docs -> Header]
           /\ \A d \in Docs : d # req[r].doc => header'[d] = header[d]
           /\ kind # "permit" => \A d \in Docs : header'[d].status # "Released"
<1>1. PICK a \in Request : a = req[r]
  BY OfRequest
<1>2. Proper(a) /\ a.step = "update"
  BY <1>1, OfRequest DEF SaveUpdate
<1>3. a.doc \in Docs /\ header \in [Docs -> Header]
  BY <1>2 DEF Proper, DocumentsInv, TypeOK
<1>4. PICK m : m = Merged(header[a.doc], a.base, a.wants)
  OBVIOUS
<1>5. m \in Header /\ m.status \in {header[a.doc].status, a.wants.status}
  <2>1. header[a.doc] \in Header /\ a.base \in Header /\ a.wants \in Header
    BY <1>3 DEF Request
  <2> QED BY <1>4, <2>1, MergedHeader
<1>6. header' = [header EXCEPT ![a.doc] = m]
  BY <1>1, <1>4 DEF SaveUpdate
<1>7. kind # "permit" => \A d \in Docs : header'[d].status # "Released"
  BY <1>2, <1>3, <1>5, <1>6 DEF Proper, DocumentsInv, TablesFit
<1> QED BY <1>1, <1>3, <1>5, <1>6, <1>7

LEMMA SaveUpdateKeeps ==
    ASSUME DocumentsInv, NEW r \in Requests, SaveUpdate(r)
    PROVE  DocumentsInv'
<1>1. /\ req[r].step = "update" /\ Finish(r) /\ Clear
      /\ kind' = kind /\ revisions' = revisions /\ delivered' = delivered
  BY DEF SaveUpdate
<1>2. \A l \in Rows : row'[l] \in Row \cup {NoRow}
  BY SaveUpdateRows
<1>3. row' \in [Rows -> Row \cup {NoRow}]
  <2>1. row' = [l \in Rows |-> row'[l]]
    BY DEF SaveUpdate
  <2> QED BY <1>2, <2>1
<1>4. PICK released : released = OnReleasedPermits(header', row')
  OBVIOUS
<1>5. cleared' = cleared \cup released
  BY <1>1, <1>4 DEF Clear
<1>6. released \subseteq OrderLines
  <2>1. \A d \in Docs : header'[d].status = "Released" => kind = "permit"
    BY SaveUpdateHeader
  <2>2. \A l \in Rows : kind = "permit" /\ row'[l] # NoRow => row'[l].about \in OrderLines
    BY SaveUpdateRows DEF DocumentsInv, TablesFit
  <2> QED BY <1>2, <1>4, <2>1, <2>2, ReleasedAreOrderLines
<1>7. /\ raced' = raced /\ req' \in [Requests -> Request]
      /\ \A p \in Requests : Proper(req[p])'
      /\ Alone'
  <2>1. \A l \in Rows : kind # "permit" /\ row[l] # NoRow => row'[l] # NoRow
    BY SaveUpdateRows
  <2> QED BY <1>1, <1>5, <2>1, FinishFits
<1>8. TypeOK'
  BY <1>1, <1>3, <1>5, <1>6, <1>7, SaveUpdateHeader DEF DocumentsInv, TypeOK
<1>9. TablesFit'
  <2>1. \A l \in Rows : row'[l] # NoRow =>
            /\ kind # "quotation" => row'[l].doc \in Docs
            /\ kind = "permit" => row'[l].about \in OrderLines
    BY SaveUpdateRows DEF DocumentsInv, TablesFit
  <2>2. OnReleasedPermits(header, row)' \subseteq cleared'
    <3>1. OnReleasedPermits(header, row)' = released
      BY <1>4 DEF OnReleasedPermits
    <3> QED BY <1>5, <3>1
  <2> QED BY <1>1, <2>1, <2>2, SaveUpdateHeader DEF TablesFit
<1>10. NoLineLost'
  <2>1. SUFFICES ASSUME NEW l \in Rows, row'[l] # NoRow, row'[l].doc = NoDoc, ~row'[l].deleted
                 PROVE  kind = "quotation" /\ raced
    BY <1>1, <1>7 DEF NoLineLost
  <2>2. kind = "quotation" /\ row[l] # NoRow /\ ~row[l].deleted
    BY <2>1, SaveUpdateRows, DocumentAssumption
  <2> QED BY <2>1, <2>2, SaveUpdateRows DEF DocumentsInv, NoLineLost
<1>11. GoodsWereCleared'
  BY <1>1, <1>5 DEF DocumentsInv, GoodsWereCleared
<1>12. ListedWithinOrdered'
  <2>1. SUFFICES ASSUME kind = "permit", ~raced, NEW ol \in OrderLines, NEW T, T \in OnePerPermit(ol)'
                 PROVE  SumFunctionOnSet([l \in Rows |-> row[l].qty], T)' <= MaxQty
    BY <1>1, <1>7 DEF ListedWithinOrdered
  <2>2. row' = row
    <3>1. \A l \in Rows : row'[l] = row[l]
      BY <2>1, SaveUpdateRows
    <3> QED BY <3>1, <1>3 DEF DocumentsInv, TypeOK
  <2>3. Live' \subseteq Live
    <3>1. req[r].doc \in Live
      BY <2>1, <1>1, OfRequest DEF Current
    <3> QED BY <3>1, SaveUpdateHeader DEF Live
  <2>4. T \in OnePerPermit(ol)
    BY <2>1, <2>2, <2>3 DEF OnePerPermit
  <2> QED BY <2>1, <2>2, <2>4 DEF DocumentsInv, ListedWithinOrdered
<1> QED BY <1>7, <1>8, <1>9, <1>10, <1>11, <1>12 DEF DocumentsInv

-----------------------------------------------------------------------------
(* A line is inserted or updated. When nothing overlapped, it is what the   *)
(* request meant to write, on a document that is still a Draft.             *)
LEMMA RowWrittenFits ==
    ASSUME DocumentsInv, NEW r \in Requests, req[r].step = "commit", RowWritten(r), NEW l \in Rows
    PROVE  /\ row'[l] \in Row \cup {NoRow}
           /\ row[l] # NoRow => row'[l] # NoRow
           /\ row'[l] # NoRow =>
                 /\ kind # "quotation" => row'[l].doc \in Docs
                 /\ kind = "permit" => row'[l].about \in OrderLines
           /\ l \notin req[r].id => row'[l] = row[l]
           /\ ~raced => /\ req[r].doc \in Docs /\ header[req[r].doc].status = "Draft"
                        /\ req[r].copy.doc = req[r].doc
                        /\ l \in req[r].id => /\ row'[l] = req[r].copy
                                              /\ row[l] = NoRow \/ row[l].doc = req[r].doc
<1>1. PICK a \in Request : a = req[r]
  BY OfRequest
<1>2. Proper(a) /\ (~raced => Current(a)) /\ a.step = "commit"
  BY <1>1, OfRequest
<1>3. /\ a.doc \in Docs /\ a.copy # NoRow /\ a.copy.doc \in Docs
      /\ kind = "permit" => a.copy.about \in OrderLines /\ a.old = NoRow
      /\ a.old = NoRow \/ \A k \in a.id : row[k] # NoRow
  BY <1>2 DEF Proper, Editing
<1>4. /\ row[l] \in Row \cup {NoRow} /\ a.copy \in Row /\ a.old \in Row \cup {NoRow}
      /\ row[l] # NoRow => /\ kind # "quotation" => row[l].doc \in Docs
                           /\ kind = "permit" => row[l].about \in OrderLines
  BY <1>3 DEF DocumentsInv, TypeOK, Request, TablesFit
<1>5. row'[l] = IF l \notin a.id THEN row[l]
                ELSE IF a.old = NoRow THEN a.copy ELSE Merged(row[l], a.old, a.copy)
  BY <1>1 DEF RowWritten
<1>6. CASE l \notin a.id
  <2>1. ~raced => a.doc \in Docs /\ header[a.doc].status = "Draft" /\ a.copy.doc = a.doc
    BY <1>2, <1>3 DEF Current, Editing
  <2> QED BY <1>1, <1>4, <1>5, <1>6, <2>1
<1>7. CASE l \in a.id
  <2>1. /\ row'[l] \in Row /\ (kind # "quotation" => row'[l].doc \in Docs)
        /\ kind = "permit" => row'[l].about \in OrderLines
    <3>1. CASE a.old = NoRow
      BY <1>3, <1>4, <1>5, <1>7, <3>1
    <3>2. CASE a.old # NoRow
      <4>1. row[l] \in Row /\ row[l] # NoRow
        BY <1>3, <1>4, <1>7, <3>2
      <4>2. /\ Merged(row[l], a.old, a.copy) \in Row
            /\ Merged(row[l], a.old, a.copy).doc \in {a.copy.doc, row[l].doc}
        BY <1>4, <4>1, MergedRow
      <4> QED BY <1>3, <1>4, <1>5, <1>7, <3>2, <4>1, <4>2
    <3> QED BY <3>1, <3>2
  <2>2. row'[l] # NoRow
    BY <2>1, DocumentAssumption DEF Row, NoRow
  <2>3. ASSUME ~raced
        PROVE  /\ header[a.doc].status = "Draft" /\ a.copy.doc = a.doc
               /\ row'[l] = a.copy /\ (row[l] = NoRow \/ row[l].doc = a.doc)
    <3>1. /\ header[a.doc].status = "Draft" /\ a.copy.doc = a.doc /\ row[l] = a.old
          /\ a.old = NoRow \/ a.old.doc = a.doc
      BY <1>2, <1>7, <2>3 DEF Current, Editing
    <3>2. row'[l] = a.copy
      <4>1. CASE a.old = NoRow
        BY <1>5, <1>7, <4>1
      <4>2. CASE a.old # NoRow
        <5>1. row[l] \in Row
          BY <1>4, <3>1, <4>2
        <5> QED BY <1>4, <1>5, <1>7, <3>1, <4>2, <5>1, MergedRow
      <4> QED BY <4>1, <4>2
    <3> QED BY <3>1, <3>2
  <2> QED BY <1>1, <1>3, <1>7, <2>1, <2>2, <2>3
<1> QED BY <1>6, <1>7

(* The same units on the same rows. *)
LEMMA SameUnits ==
    ASSUME DocumentsInv, NEW T \in SUBSET Rows, \A l \in T : row'[l] = row[l]
    PROVE  /\ SumFunctionOnSet([l \in Rows |-> row[l].qty], T)'
                 = SumFunctionOnSet([l \in Rows |-> row[l].qty], T)
           /\ \A l \in Rows : row[l].qty \in Nat
<1>1. PICK f : f = [l \in Rows |-> row[l].qty]
  OBVIOUS
<1>2. PICK g : g = [l \in Rows |-> row'[l].qty]
  OBVIOUS
<1>3. \A l \in Rows : row[l].qty \in Nat
  <2>1. \A l \in Rows : row[l] \in Row \cup {NoRow}
    BY DEF DocumentsInv, TypeOK
  <2> QED BY <2>1, DocumentAssumption DEF Row, NoRow
<1>4. IsFiniteSet(T) /\ \A l \in T : f[l] \in Int /\ f[l] = g[l]
  BY <1>1, <1>2, <1>3, DocumentAssumption, FS_Subset
<1>5. SumFunctionOnSet(f, T) = SumFunctionOnSet(g, T)
  BY <1>4, SumEqual
<1>6. SumFunctionOnSet([l \in Rows |-> row[l].qty], T)' = SumFunctionOnSet(g, T)
  BY <1>2
<1> QED BY <1>1, <1>3, <1>5, <1>6, Zenon

(* What a line edit leaves of the invariant, whatever kind of document.     *)
LEMMA LineWriteKeeps ==
    ASSUME DocumentsInv, NEW r \in Requests, req[r].step = "commit", RowWritten(r), Finish(r),
           kind' = kind, cleared \subseteq cleared'
    PROVE  /\ raced' = raced /\ req' \in [Requests -> Request]
           /\ \A p \in Requests : Proper(req[p])'
           /\ Alone'
           /\ row' \in [Rows -> Row \cup {NoRow}]
           /\ NoLineLost'
<1>1. /\ raced' = raced /\ req' \in [Requests -> Request]
      /\ \A p \in Requests : Proper(req[p])'
      /\ Alone'
  <2>1. \A l \in Rows : kind # "permit" /\ row[l] # NoRow => row'[l] # NoRow
    BY RowWrittenFits
  <2> QED BY <2>1, FinishFits
<1>2. row' \in [Rows -> Row \cup {NoRow}]
  <2>1. row' = [l \in Rows |-> row'[l]]
    BY DEF RowWritten
  <2>2. \A l \in Rows : row'[l] \in Row \cup {NoRow}
    BY RowWrittenFits
  <2> QED BY <2>1, <2>2
<1>3. NoLineLost'
  <2>1. SUFFICES ASSUME NEW l \in Rows, row'[l] # NoRow, row'[l].doc = NoDoc, ~row'[l].deleted
                 PROVE  kind = "quotation" /\ raced
    BY <1>1 DEF NoLineLost
  <2>2. kind = "quotation"
    BY <2>1, RowWrittenFits, DocumentAssumption
  <2>3. raced
    <3>1. SUFFICES ASSUME ~raced PROVE FALSE
      OBVIOUS
    <3>2. l \notin req[r].id /\ row'[l] = row[l]
      BY <2>1, <3>1, RowWrittenFits, DocumentAssumption
    <3> QED BY <2>1, <3>1, <3>2 DEF DocumentsInv, NoLineLost
  <2> QED BY <2>2, <2>3
<1> QED BY <1>1, <1>2, <1>3

LEMMA EditCommitKeeps ==
    ASSUME DocumentsInv, NEW r \in Requests, EditCommit(r)
    PROVE  DocumentsInv'
<1>1. PICK a \in Request : a = req[r]
  BY OfRequest
<1>2. /\ kind = "quotation" /\ a.step = "commit" /\ RowWritten(r) /\ Finish(r)
      /\ kind' = kind /\ delivered' = delivered /\ cleared' = cleared
  BY <1>1 DEF EditCommit
<1>3. Proper(a) /\ a.doc \in Docs /\ (a.wants = NoHeader \/ a.wants.revision > 0)
  BY <1>1, <1>2, OfRequest DEF Proper, Editing
<1>4. /\ raced' = raced /\ req' \in [Requests -> Request]
      /\ \A p \in Requests : Proper(req[p])'
      /\ Alone' /\ row' \in [Rows -> Row \cup {NoRow}] /\ NoLineLost'
  BY <1>1, <1>2, LineWriteKeeps
<1>5. /\ header' \in [Docs -> Header]
      /\ revisions' \in [Docs -> Seq(1..MaxRevisions)]
      /\ \A d \in Docs : header'[d].status # "Released"
  <2>1. /\ header \in [Docs -> Header] /\ revisions \in [Docs -> Seq(1..MaxRevisions)]
        /\ \A d \in Docs : header[d].status # "Released"
    BY <1>2 DEF DocumentsInv, TypeOK, TablesFit
  <2>2. CASE a.wants = NoHeader
    BY <1>1, <2>1, <2>2 DEF EditCommit
  <2>3. CASE a.wants # NoHeader
    <3>1. PICK m : m = Merged(header[a.doc], a.base, a.wants)
      OBVIOUS
    <3>2. m \in Header /\ m.status \in {header[a.doc].status, a.wants.status}
      <4>1. header[a.doc] \in Header /\ a.base \in Header /\ a.wants \in Header
        BY <1>3, <2>1 DEF Request
      <4> QED BY <3>1, <4>1, MergedHeader
    <3>3. m.status # "Released"
      BY <1>2, <1>3, <2>1, <3>2 DEF Proper
    <3>4. a.wants.revision \in 1..MaxRevisions
      BY <1>3, <2>3, DocumentAssumption DEF Request, Header
    <3>5. /\ header' = [header EXCEPT ![a.doc] = m]
          /\ revisions' = [revisions EXCEPT ![a.doc] = Append(@, a.wants.revision)]
      BY <1>1, <2>3, <3>1 DEF EditCommit
    <3>6. Append(revisions[a.doc], a.wants.revision) \in Seq(1..MaxRevisions)
      BY <1>3, <2>1, <3>4
    <3> QED BY <1>3, <2>1, <3>2, <3>3, <3>5, <3>6
  <2> QED BY <2>2, <2>3
<1>6. TypeOK'
  BY <1>2, <1>4, <1>5 DEF DocumentsInv, TypeOK
<1>7. TablesFit' /\ GoodsWereCleared' /\ ListedWithinOrdered'
  BY <1>2, <1>5 DEF DocumentsInv, TablesFit, GoodsWereCleared, ListedWithinOrdered
<1> QED BY <1>4, <1>6, <1>7 DEF DocumentsInv

LEMMA LineSavedKeeps ==
    ASSUME DocumentsInv, NEW r \in Requests, LineSaved(r)
    PROVE  DocumentsInv'
<1>1. /\ kind = "rfq" /\ req[r].step = "commit" /\ RowWritten(r) /\ Finish(r)
      /\ UNCHANGED <<kind, header, revisions, delivered, cleared>>
  BY DEF LineSaved
<1>2. /\ raced' = raced /\ req' \in [Requests -> Request]
      /\ \A p \in Requests : Proper(req[p])'
      /\ Alone' /\ row' \in [Rows -> Row \cup {NoRow}] /\ NoLineLost'
  BY <1>1, LineWriteKeeps
<1>3. TypeOK'
  BY <1>1, <1>2 DEF DocumentsInv, TypeOK
<1>4. TablesFit'
  <2>1. \A l \in Rows : row'[l] # NoRow => row'[l].doc \in Docs
    BY <1>1, RowWrittenFits
  <2> QED BY <1>1, <2>1 DEF DocumentsInv, TablesFit
<1>5. GoodsWereCleared' /\ ListedWithinOrdered'
  BY <1>1 DEF DocumentsInv, GoodsWereCleared, ListedWithinOrdered
<1> QED BY <1>2, <1>3, <1>4, <1>5 DEF DocumentsInv

(* addLine checked the sum of the other permits before it inserts.          *)
LEMMA AddLineInsertKeepsListed ==
    ASSUME DocumentsInv, NEW r \in Requests, AddLineInsert(r), ~raced,
           NEW ol \in OrderLines, NEW T, T \in OnePerPermit(ol)'
    PROVE  SumFunctionOnSet([l \in Rows |-> row[l].qty], T)' <= MaxQty
<1>1. PICK a \in Request : a = req[r]
  BY OfRequest
<1>2. /\ kind = "permit" /\ a.step = "commit" /\ RowWritten(r) /\ header' = header
  BY <1>1 DEF AddLineInsert
<1>3. /\ T \in SUBSET Rows /\ Live' = Live
      /\ \A l \in T : row'[l].about = ol /\ row'[l].doc \in Live
      /\ \A l, m \in T : l # m => row'[l].doc # row'[m].doc
  BY <1>2 DEF OnePerPermit, Live
<1>4. CASE T \cap a.id = {}
  <2>1. \A l \in T : row'[l] = row[l]
    BY <1>1, <1>2, <1>3, <1>4, RowWrittenFits
  <2>2. T \in OnePerPermit(ol)
    BY <1>3, <2>1 DEF OnePerPermit
  <2>3. SumFunctionOnSet([l \in Rows |-> row[l].qty], T) <= MaxQty
    BY <1>2, <2>2 DEF DocumentsInv, ListedWithinOrdered
  <2> QED BY <1>3, <2>1, <2>3, SameUnits
<1>5. ASSUME NEW m \in T \cap a.id
      PROVE  SumFunctionOnSet([l \in Rows |-> row[l].qty], T)' <= MaxQty
  <2>1. PICK g : g = [l \in Rows |-> row'[l].qty]
    OBVIOUS
  <2>2. PICK R \in SUBSET Rows : R = T \ {m}
    BY <1>3
  <2>3. a.id = {m} /\ m \in Rows
    BY <1>3, <1>5 DEF Request
  <2>4. row'[m] = a.copy /\ a.copy.doc = a.doc /\ a.copy.about = ol
    BY <1>1, <1>2, <1>3, <1>5, <2>3, RowWrittenFits
  <2>5. \A l \in R : row'[l] = row[l]
    BY <1>1, <1>2, <2>2, <2>3, RowWrittenFits
  <2>6. a.copy.qty <= MaxQty - OnOtherPermits(a.doc, ol)
    BY <1>1, <1>2, <2>4, OfRequest DEF Current
  <2>7. PICK S \in SUBSET Rows :
            S = {l \in Rows : /\ row[l].about = ol
                             /\ row[l].doc \in {p \in Docs \ {a.doc} : header[p].status \notin {"None", "Cancelled"}}}
    OBVIOUS
  <2>8. R \in SUBSET S
    BY <1>3, <2>2, <2>4, <2>5, <2>7 DEF Live
  <2>9. PICK f : f = [l \in Rows |-> row[l].qty]
    OBVIOUS
  <2>10. OnOtherPermits(a.doc, ol) = SumFunctionOnSet(f, S)
    BY <2>7, <2>9, Zenon DEF OnOtherPermits, UnitsOn
  <2>11. \A l \in Rows : f[l] \in Nat
    BY <2>9, <2>2, <2>5, SameUnits
  <2>12. SumFunctionOnSet(f, R) <= SumFunctionOnSet(f, S) /\ SumFunctionOnSet(f, R) \in Nat
    <3>1. IsFiniteSet(S)
      BY <2>7, DocumentAssumption, FS_Subset
    <3> QED BY <2>8, <2>11, <3>1, SumOfSome
  <2>13. SumFunctionOnSet(g, R) = SumFunctionOnSet(f, R)
    BY <2>1, <2>2, <2>5, <2>9, SameUnits, Zenon
  <2>14. g[m] = a.copy.qty /\ g[m] \in Nat
    <3>1. a.copy \in Row \cup {NoRow}
      BY DEF Request
    <3> QED BY <2>1, <2>3, <2>4, <3>1, DocumentAssumption DEF Row, NoRow
  <2>15. SumFunctionOnSet(g, T) = g[m] + SumFunctionOnSet(g, R)
    <3>1. IsFiniteSet(T) /\ \A l \in T : g[l] \in Int
      BY <1>3, <2>1, <2>2, <2>5, <2>9, <2>11, <2>14, DocumentAssumption, FS_Subset
    <3>2. SumFunctionOnSet(g, T) = g[m] + SumFunctionOnSet(g, T \ {m})
      BY <1>5, <3>1, SumRemove
    <3> QED BY <2>2, <3>2, Zenon
  <2>16. SumFunctionOnSet(f, S) \in Nat
    <3>1. IsFiniteSet(S)
      BY <2>7, DocumentAssumption, FS_Subset
    <3> QED BY <2>11, <3>1, SumOfSome
  <2>17. SumFunctionOnSet(g, T) <= MaxQty
    BY <2>6, <2>10, <2>12, <2>13, <2>14, <2>15, <2>16, DocumentAssumption
  <2> QED BY <2>1, <2>17
<1> QED BY <1>4, <1>5

LEMMA AddLineInsertKeeps ==
    ASSUME DocumentsInv, NEW r \in Requests, AddLineInsert(r)
    PROVE  DocumentsInv'
<1>1. /\ kind = "permit" /\ req[r].step = "commit" /\ RowWritten(r) /\ Finish(r) /\ Clear
      /\ UNCHANGED <<kind, header, revisions, delivered>>
  BY DEF AddLineInsert
<1>2. PICK released : released = OnReleasedPermits(header', row')
  OBVIOUS
<1>3. cleared' = cleared \cup released
  BY <1>1, <1>2 DEF Clear
<1>4. /\ raced' = raced /\ req' \in [Requests -> Request]
      /\ \A p \in Requests : Proper(req[p])'
      /\ Alone' /\ row' \in [Rows -> Row \cup {NoRow}] /\ NoLineLost'
  BY <1>1, <1>3, LineWriteKeeps
<1>5. \A l \in Rows : row'[l] # NoRow => row'[l].doc \in Docs /\ row'[l].about \in OrderLines
  BY <1>1, RowWrittenFits
<1>6. released \subseteq OrderLines
  BY <1>1, <1>2, <1>4, <1>5, ReleasedAreOrderLines
<1>7. TypeOK'
  BY <1>1, <1>3, <1>4, <1>6 DEF DocumentsInv, TypeOK
<1>8. TablesFit'
  <2>1. OnReleasedPermits(header, row)' \subseteq cleared'
    <3>1. OnReleasedPermits(header, row)' = released
      BY <1>2 DEF OnReleasedPermits
    <3> QED BY <1>3, <3>1
  <2> QED BY <1>1, <1>5, <2>1 DEF TablesFit
<1>9. GoodsWereCleared'
  BY <1>1, <1>3 DEF DocumentsInv, GoodsWereCleared
<1>10. ListedWithinOrdered'
  BY <1>1, <1>4, AddLineInsertKeepsListed DEF ListedWithinOrdered
<1> QED BY <1>4, <1>7, <1>8, <1>9, <1>10 DEF DocumentsInv

LEMMA RemoveLineDeleteKeeps ==
    ASSUME DocumentsInv, NEW r \in Requests, RemoveLineDelete(r)
    PROVE  DocumentsInv'
<1>1. /\ req[r].step = "delete" /\ Finish(r)
      /\ row' = [l \in Rows |-> IF l \in req[r].id THEN NoRow ELSE row[l]]
      /\ UNCHANGED <<kind, header, revisions, delivered, cleared>>
  BY DEF RemoveLineDelete
<1>2. kind = "permit"
  BY <1>1, OfRequest DEF Proper
<1>3. /\ raced' = raced /\ req' \in [Requests -> Request]
      /\ \A p \in Requests : Proper(req[p])'
      /\ Alone'
  BY <1>1, <1>2, FinishFits
<1>4. \A l \in Rows : row'[l] = NoRow \/ row'[l] = row[l]
  BY <1>1
<1>5. TypeOK'
  BY <1>1, <1>3 DEF DocumentsInv, TypeOK
<1>6. TablesFit'
  <2>1. OnReleasedPermits(header, row)' \subseteq OnReleasedPermits(header, row)
    BY <1>1, <1>4, DocumentAssumption DEF OnReleasedPermits, NoRow
  <2> QED BY <1>1, <1>2, <1>4, <2>1 DEF DocumentsInv, TablesFit
<1>7. NoLineLost'
  BY <1>1, <1>2, <1>4 DEF DocumentsInv, NoLineLost
<1>8. GoodsWereCleared'
  BY <1>1 DEF DocumentsInv, GoodsWereCleared
<1>9. ListedWithinOrdered'
  <2>1. SUFFICES ASSUME ~raced, NEW ol \in OrderLines, NEW T, T \in OnePerPermit(ol)'
                 PROVE  SumFunctionOnSet([l \in Rows |-> row[l].qty], T)' <= MaxQty
    BY <1>1, <1>3 DEF ListedWithinOrdered
  <2>2. T \in SUBSET Rows /\ \A l \in T : row'[l].doc \in Docs
    BY <2>1 DEF OnePerPermit, Live
  <2>3. \A l \in T : row'[l] = row[l]
    BY <1>4, <2>2, DocumentAssumption DEF NoRow
  <2>4. T \in OnePerPermit(ol)
    BY <1>1, <2>1, <2>2, <2>3 DEF OnePerPermit, Live
  <2>5. SumFunctionOnSet([l \in Rows |-> row[l].qty], T) <= MaxQty
    BY <1>2, <2>1, <2>4 DEF DocumentsInv, ListedWithinOrdered
  <2> QED BY <2>2, <2>3, <2>5, SameUnits
<1> QED BY <1>3, <1>5, <1>6, <1>7, <1>8, <1>9 DEF DocumentsInv

LEMMA HandOverKeeps ==
    ASSUME DocumentsInv, NEW r \in Requests, HandOver(r)
    PROVE  DocumentsInv'
<1>1. PICK a \in Request : a = req[r]
  BY OfRequest
<1>2. /\ a.step = "handOver" /\ Finish(r)
      /\ delivered' = [delivered EXCEPT ![a.copy.about] = a.left + a.copy.qty]
      /\ UNCHANGED <<kind, header, row, revisions, cleared>>
  BY <1>1 DEF HandOver
<1>3. /\ a.copy \in Row /\ a.copy.about \in OrderLines /\ a.copy.about \in cleared
      /\ a.left + a.copy.qty <= MaxQty
  BY <1>1, <1>2, OfRequest DEF Proper, Request
<1>4. a.left + a.copy.qty \in 0..MaxQty
  BY <1>3, DocumentAssumption DEF Request, Row
<1>5. /\ raced' = raced /\ req' \in [Requests -> Request]
      /\ \A p \in Requests : Proper(req[p])'
      /\ Alone'
  BY <1>1, <1>2, FinishFits
<1>6. TypeOK'
  BY <1>2, <1>3, <1>4, <1>5 DEF DocumentsInv, TypeOK
<1>7. TablesFit' /\ NoLineLost' /\ ListedWithinOrdered'
  BY <1>2, <1>5 DEF DocumentsInv, TablesFit, OnReleasedPermits, NoLineLost, ListedWithinOrdered,
     OnePerPermit, Live
<1>8. GoodsWereCleared'
  BY <1>2, <1>3 DEF DocumentsInv, TypeOK, GoodsWereCleared
<1> QED BY <1>5, <1>6, <1>7, <1>8 DEF DocumentsInv

(* A header is written by a statement of its own: a new document, or one    *)
(* that the nightly job expires.                                            *)
LEMMA HeaderWriteKeeps ==
    ASSUME DocumentsInv, kind # "permit", NEW d \in Docs, NEW h \in Header, h.status # "Released",
           header' = [header EXCEPT ![d] = h],
           UNCHANGED <<kind, row, revisions, delivered, cleared, req>>,
           raced' \in BOOLEAN, raced => raced',
           ~raced' => header[d].status = "None" \/ \A p \in Requests : req[p] = Idle
    PROVE  DocumentsInv'
<1>1. TypeOK'
  BY DEF DocumentsInv, TypeOK
<1>2. TablesFit'
  BY DEF DocumentsInv, TypeOK, TablesFit
<1>3. NoLineLost' /\ GoodsWereCleared' /\ ListedWithinOrdered'
  BY DEF DocumentsInv, NoLineLost, GoodsWereCleared, ListedWithinOrdered
<1>4. ASSUME NEW p \in Requests PROVE Proper(req[p])'
  <2>1. Proper(req[p])
    BY OfRequest
  <2> QED BY <2>1 DEF Proper
<1>5. Alone'
  <2>1. SUFFICES ASSUME ~raced'
                 PROVE  /\ \A s, p \in Requests : req'[s] # Idle /\ req'[p] # Idle => s = p
                        /\ \A p \in Requests : Current(req[p])'
    BY DEF Alone
  <2>2. \A s, p \in Requests : req'[s] # Idle /\ req'[p] # Idle => s = p
    BY <2>1 DEF DocumentsInv, Alone
  <2>3. ASSUME NEW p \in Requests PROVE Current(req[p])'
    <3>1. PICK a \in Request : a = req[p]
      BY OfRequest
    <3>2. CASE a = Idle
      BY <3>1, <3>2 DEF Current, Idle, Editing
    <3>3. CASE a # Idle
      <4>1. Current(a) /\ Proper(a) /\ header[d].status = "None"
        BY <2>1, <3>1, <3>3, OfRequest
      <4>2. a.step \in {"save", "update"} \cup Editing => a.doc \in Docs
        BY <4>1 DEF Proper
      <4>3. \A x \in Docs : header[x].status # "None" => header'[x] = header[x]
        BY <4>1 DEF DocumentsInv, TypeOK
      <4>4. \A x : header[x].status = "Draft" => header'[x].status = "Draft"
        BY <4>1 DEF DocumentsInv, TypeOK
      <4>5. Listed(a.doc)' = Listed(a.doc) /\ Attached(a.doc)' = Attached(a.doc)
        BY DEF Listed, Active, Attached
      <4>6. req'[p] = a /\ kind # "permit"
        BY <3>1
      <4> QED BY <4>1, <4>2, <4>3, <4>4, <4>5, <4>6 DEF Current, Editing
    <3> QED BY <3>2, <3>3
  <2> QED BY <2>2, <2>3
<1> QED BY <1>1, <1>2, <1>3, <1>4, <1>5 DEF DocumentsInv

LEMMA CreateKeeps ==
    ASSUME DocumentsInv, kind # "permit", NEW d \in Docs, Create(d)
    PROVE  DocumentsInv'
<1>1. PICK h : h = [status |-> "Draft", revision |-> 0]
  OBVIOUS
<1>2. h \in Header /\ h.status # "Released"
  BY <1>1, SomeStatuses, DocumentAssumption DEF Header
<1>3. /\ header[d].status = "None" /\ header' = [header EXCEPT ![d] = h]
      /\ UNCHANGED <<kind, row, revisions, delivered, cleared, req>> /\ raced' = raced
  BY <1>1 DEF Create
<1>4. raced' \in BOOLEAN
  BY <1>3 DEF DocumentsInv, TypeOK
<1> QED BY <1>2, <1>3, <1>4, HeaderWriteKeeps

LEMMA ExpireOutdatedKeeps ==
    ASSUME DocumentsInv, NEW d \in Docs, ExpireOutdated(d)
    PROVE  DocumentsInv'
<1>1. /\ kind = "quotation" /\ header' = [header EXCEPT ![d].status = "Expired"]
      /\ raced' = (raced \/ \E p \in Requests : req[p] # Idle)
      /\ UNCHANGED <<kind, row, revisions, delivered, cleared, req>>
  BY DEF ExpireOutdated
<1>2. PICK h : h = [header[d] EXCEPT !.status = "Expired"]
  OBVIOUS
<1>3. header[d] \in Header /\ raced \in BOOLEAN
  BY DEF DocumentsInv, TypeOK
<1>4. h \in Header /\ h.status # "Released" /\ header' = [header EXCEPT ![d] = h]
  BY <1>1, <1>2, <1>3, SomeStatuses DEF Header
<1>5. /\ raced' \in BOOLEAN /\ (raced => raced')
      /\ ~raced' => \A p \in Requests : req[p] = Idle
  BY <1>1, <1>3
<1> QED BY <1>1, <1>4, <1>5, HeaderWriteKeeps

-----------------------------------------------------------------------------
(* Every step keeps the invariant.                                          *)

(* An edit of a line that has a document. *)
LEMMA EditsFit ==
    ASSUME DocumentsInv, kind # "permit", NEW r \in Requests, NEW l \in Rows, NEW copy,
           EditRead(r, l, copy), NEW n \in 1..MaxQty,
           copy \in {[row[l] EXCEPT !.qty = n], [row[l] EXCEPT !.deleted = TRUE]}
    PROVE  DocumentsInv'
<1>1. row[l].doc \in Docs
  BY DEF EditRead
<1>2. row[l] \in Row
  BY <1>1, DocumentAssumption DEF DocumentsInv, TypeOK, NoRow
<1>3. copy \in Row /\ copy.doc = row[l].doc
  BY <1>2 DEF Row
<1> QED BY <1>3, EditReadKeeps

LEMMA DocumentStepKeeps ==
    ASSUME DocumentsInv, NEW r \in Requests, DocumentStep(r)
    PROVE  DocumentsInv'
<1>1. CASE SaveSelect(r)
  BY <1>1, SaveSelectKeeps
<1>2. CASE SaveUpdate(r)
  BY <1>2, SaveUpdateKeeps
<1>3. CASE SaveRefused(r) \/ EditRefused(r)
  BY <1>3, RefusedKeeps DEF SaveRefused, EditRefused
<1>4. CASE EditCheck(r)
  BY <1>4, EditCheckKeeps
<1>5. CASE EditSelect(r)
  BY <1>5, EditSelectKeeps
<1> QED BY <1>1, <1>2, <1>3, <1>4, <1>5 DEF DocumentStep

LEMMA QuotationStepKeeps ==
    ASSUME DocumentsInv, NEW r \in Requests, QuotationStep(r)
    PROVE  DocumentsInv'
<1>1. ASSUME NEW d \in Docs, NEW s \in Statuses, QuotationStatusRead(r, d, s)
      PROVE  DocumentsInv'
  BY <1>1, StatusReadKeeps DEF QuotationStatusRead
<1>2. ASSUME NEW l \in Rows, NEW n \in 1..MaxQty, UpdateItem(r, l, n)
      PROVE  DocumentsInv'
  BY <1>2, EditsFit DEF UpdateItem
<1>3. ASSUME NEW l \in Rows, NEW n \in 1..MaxQty, NEW d \in Docs, AddItem(r, d, l, n)
      PROVE  DocumentsInv'
  BY <1>3, AddReadKeeps DEF AddItem
<1>4. ASSUME NEW l \in Rows, SoftDelete(r, l)
      PROVE  DocumentsInv'
  <2>1. 1 \in 1..MaxQty
    BY DocumentAssumption
  <2> QED BY <1>4, <2>1, EditsFit DEF SoftDelete
<1>5. CASE RevisionRead(r)
  BY <1>5, RevisionReadKeeps
<1>6. CASE RevisionSelect(r)
  BY <1>6, RevisionSelectKeeps
<1>7. CASE EditCommit(r)
  BY <1>7, EditCommitKeeps
<1> QED BY <1>1, <1>2, <1>3, <1>4, <1>5, <1>6, <1>7 DEF QuotationStep

LEMMA RfqStepKeeps ==
    ASSUME DocumentsInv, NEW r \in Requests, RfqStep(r)
    PROVE  DocumentsInv'
<1>1. ASSUME NEW d \in Docs, NEW s \in Statuses, RfqStatusRead(r, d, s)
      PROVE  DocumentsInv'
  BY <1>1, StatusReadKeeps DEF RfqStatusRead
<1>2. ASSUME NEW d \in Docs, HeaderRead(r, d)
      PROVE  DocumentsInv'
  BY <1>2, HeaderReadKeeps
<1>3. ASSUME NEW l \in Rows, NEW n \in 1..MaxQty, UpdateRfqLine(r, l, n)
      PROVE  DocumentsInv'
  BY <1>3, EditsFit DEF UpdateRfqLine
<1>4. ASSUME NEW l \in Rows, NEW n \in 1..MaxQty, NEW d \in Docs, AddRfqLine(r, d, l, n)
      PROVE  DocumentsInv'
  BY <1>4, AddReadKeeps DEF AddRfqLine
<1>5. ASSUME NEW l \in Rows, RemoveRfqLine(r, l)
      PROVE  DocumentsInv'
  <2>1. 1 \in 1..MaxQty
    BY DocumentAssumption
  <2> QED BY <1>5, <2>1, EditsFit DEF RemoveRfqLine
<1>6. CASE LineSaved(r)
  BY <1>6, LineSavedKeeps
<1> QED BY <1>1, <1>2, <1>3, <1>4, <1>5, <1>6 DEF RfqStep

LEMMA PermitStepKeeps ==
    ASSUME DocumentsInv, NEW r \in Requests, PermitStep(r)
    PROVE  DocumentsInv'
<1>1. ASSUME NEW ol \in OrderLines, NEW n \in 1..MaxQty,
             \/ CreateCheck(r, ol, n) \/ DeliverRead(r, ol, n)
             \/ \E d \in Docs, l \in Rows : AddLineRead(r, d, l, ol, n)
      PROVE  DocumentsInv'
  BY <1>1, CreateCheckKeeps, DeliverReadKeeps, AddLineReadKeeps
<1>2. ASSUME NEW d \in Docs, NEW s \in Statuses, PermitStatusRead(r, d, s)
      PROVE  DocumentsInv'
  BY <1>2, StatusReadKeeps DEF PermitStatusRead
<1>3. CASE OrderLineRead(r) \/ OthersRead(r)
  BY <1>3, OrderLineReadKeeps, OthersReadKeeps
<1>4. CASE CreateReadBack(r) \/ AddLineRefused(r) \/ GateRefused(r)
  BY <1>4, RefusedKeeps DEF CreateReadBack, AddLineRefused, GateRefused
<1>5. CASE AddLineInsert(r)
  BY <1>5, AddLineInsertKeeps
<1>6. ASSUME NEW l \in Rows, RemoveLineRead(r, l)
      PROVE  DocumentsInv'
  BY <1>6, RemoveLineReadKeeps
<1>7. CASE RemoveLineDelete(r)
  BY <1>7, RemoveLineDeleteKeeps
<1>8. CASE Gate(r) \/ HandOver(r)
  BY <1>8, GateKeeps, HandOverKeeps
<1> QED BY <1>1, <1>2, <1>3, <1>4, <1>5, <1>6, <1>7, <1>8 DEF PermitStep

LEMMA StepKeeps == DocumentsInv /\ [Next]_vars => DocumentsInv'
<1>1. SUFFICES ASSUME DocumentsInv, [Next]_vars PROVE DocumentsInv'
  OBVIOUS
<1>2. ASSUME NEW d \in Docs, CreateQuotation(d) \/ CreateRfq(d) PROVE DocumentsInv'
  <2>1. kind # "permit" /\ Create(d)
    BY <1>2 DEF CreateQuotation, CreateRfq
  <2> QED BY <1>1, <2>1, CreateKeeps
<1>3. ASSUME NEW d \in Docs, ExpireOutdated(d) PROVE DocumentsInv'
  BY <1>1, <1>3, ExpireOutdatedKeeps
<1>4. ASSUME NEW r \in Requests,
             DocumentStep(r) \/ QuotationStep(r) \/ RfqStep(r) \/ PermitStep(r)
      PROVE  DocumentsInv'
  BY <1>1, <1>4, DocumentStepKeeps, QuotationStepKeeps, RfqStepKeeps, PermitStepKeeps
<1>5. ASSUME NEW r \in Requests, Rollback(r) PROVE DocumentsInv'
  BY <1>1, <1>5, RefusedKeeps DEF Rollback
<1>6. CASE UNCHANGED vars
  <2>1. /\ kind' = kind /\ header' = header /\ row' = row /\ revisions' = revisions
        /\ delivered' = delivered /\ cleared' = cleared /\ raced' = raced /\ req' = req
    BY <1>6 DEF vars, tables
  <2>2. TypeOK'
    BY <1>1, <2>1 DEF DocumentsInv, TypeOK
  <2>3. TablesFit' /\ NoLineLost' /\ GoodsWereCleared'
    BY <1>1, <2>1 DEF DocumentsInv, TablesFit, OnReleasedPermits, NoLineLost, GoodsWereCleared
  <2>4. ASSUME NEW p \in Requests
        PROVE  Proper(req[p])' /\ (~raced => Current(req[p])')
    <3>1. PICK x : x = req[p]
      OBVIOUS
    <3>2. Proper(x) /\ (~raced => Current(x))
      BY <1>1, <3>1, OfRequest
    <3>3. Proper(x)' /\ (~raced => Current(x)')
      BY <1>6, <3>2, TablesStay DEF vars
    <3> QED BY <2>1, <3>1, <3>3 DEF Proper, Current
  <2>5. Alone'
    BY <1>1, <2>1, <2>4 DEF DocumentsInv, Alone
  <2>6. ListedWithinOrdered'
    BY <1>1, <2>1 DEF DocumentsInv, ListedWithinOrdered, OnePerPermit, Live
  <2> QED BY <2>2, <2>3, <2>4, <2>5, <2>6 DEF DocumentsInv
<1> QED BY <1>1, <1>2, <1>3, <1>4, <1>5, <1>6 DEF Next

(* The invariant that the theorems below rest on. *)
THEOREM DocumentsInvariance == Spec => []DocumentsInv
BY Initially, StepKeeps, PTL DEF Spec

-----------------------------------------------------------------------------
(* Headers, rows and counts hold what their columns may; in particular a    *)
(* line is never delivered beyond what was ordered, whatever overlaps.      *)
THEOREM DocumentsAreWellTyped == Spec => []TypeOK
<1>1. DocumentsInv => TypeOK
  BY DEF DocumentsInv
<1> QED BY <1>1, DocumentsInvariance, PTL

(* No overlap of edits and changes of status takes a line off an RFQ or a   *)
(* permit (updateStatus saves the document with the lines that it read).    *)
THEOREM NoLineIsLost == Spec => []NoLineLost
<1>1. DocumentsInv => NoLineLost
  BY DEF DocumentsInv
<1> QED BY <1>1, DocumentsInvariance, PTL

(* A line with delivered units was on a Released permit once, whatever      *)
(* overlaps (assertReleasePermits).                                         *)
THEOREM NothingLeavesUncleared == Spec => []GoodsWereCleared
<1>1. DocumentsInv => GoodsWereCleared
  BY DEF DocumentsInv
<1> QED BY <1>1, DocumentsInvariance, PTL

(* addLine keeps the permits of an order within what the line ordered, as   *)
(* long as no requests overlap and no permit lists the line twice.          *)
THEOREM PermitsStayWithinOrder == Spec => []ClearedWithinOrdered
<1>1. DocumentsInv => ClearedWithinOrdered
  <2>1. SUFFICES ASSUME DocumentsInv, kind = "permit", ~raced, ListedOnce, NEW ol \in OrderLines
                 PROVE  UnitsOn(ol, Live) <= MaxQty
    BY DEF ClearedWithinOrdered, Live
  <2>2. PICK T \in SUBSET Rows : T = {l \in Rows : row[l].about = ol /\ row[l].doc \in Live}
    OBVIOUS
  <2>3. T \in OnePerPermit(ol)
    <3>1. \A l \in T : row[l] # NoRow
      BY <2>2, DocumentAssumption DEF Live, NoRow
    <3> QED BY <2>1, <2>2, <3>1 DEF OnePerPermit, ListedOnce
  <2>4. SumFunctionOnSet([l \in Rows |-> row[l].qty], T) <= MaxQty
    BY <2>1, <2>3 DEF DocumentsInv, ListedWithinOrdered
  <2> QED BY <2>2, <2>4, Zenon DEF UnitsOn
<1> QED BY <1>1, DocumentsInvariance, PTL

-----------------------------------------------------------------------------
(* The lines of a document are the same when those that changed are not of  *)
(* the document, or deleted, before and after.                              *)
LEMMA SameContent ==
    ASSUME NEW d, \A l \in Rows : \/ row'[l] = row[l]
                                  \/ /\ row[l].doc # d \/ row[l].deleted
                                     /\ row'[l].doc # d \/ row'[l].deleted
    PROVE  Content(d)' = Content(d)
<1>1. Active(d)' = Active(d) /\ \A l \in Active(d) : row'[l] = row[l]
  BY DEF Active, Attached
<1> QED BY <1>1 DEF Content

LEMMA SaveUpdateKeepsContent ==
    ASSUME DocumentsInv, NEW r \in Requests, SaveUpdate(r), ~raced, NEW d \in Docs
    PROVE  Content(d)' = Content(d)
<1>1. ASSUME NEW l \in Rows
      PROVE  row'[l] = row[l] \/ (row[l].deleted /\ row'[l].deleted)
  BY SaveUpdateRows
<1> QED BY <1>1, SameContent

LEMMA LineWriteKeepsContent ==
    ASSUME DocumentsInv, NEW r \in Requests, req[r].step = "commit", RowWritten(r), ~raced,
           NEW d \in Docs, header[d].status # "Draft"
    PROVE  Content(d)' = Content(d)
<1>1. ASSUME NEW l \in Rows
      PROVE  row'[l] = row[l] \/ (row[l].doc # d /\ row'[l].doc # d)
  <2>1. /\ l \notin req[r].id => row'[l] = row[l]
        /\ header[req[r].doc].status = "Draft" /\ req[r].copy.doc = req[r].doc
        /\ l \in req[r].id => /\ row'[l] = req[r].copy
                              /\ row[l] = NoRow \/ row[l].doc = req[r].doc
    BY RowWrittenFits
  <2>2. NoRow.doc # d
    BY DocumentAssumption DEF NoRow
  <2> QED BY <2>1, <2>2
<1> QED BY <1>1, SameContent

LEMMA EditCommitKeepsHeader ==
    ASSUME DocumentsInv, NEW r \in Requests, EditCommit(r), ~raced
    PROVE  header' = header
<1>1. PICK a \in Request : a = req[r]
  BY OfRequest
<1>2. Current(a) /\ a.step = "commit"
  BY <1>1, OfRequest DEF EditCommit
<1>3. a.wants = NoHeader
  BY <1>2 DEF Current, Editing
<1> QED BY <1>1, <1>3 DEF EditCommit

LEMMA RemoveLineDeleteKeepsContent ==
    ASSUME DocumentsInv, NEW r \in Requests, RemoveLineDelete(r), ~raced,
           NEW d \in Docs, header[d].status # "Draft"
    PROVE  Content(d)' = Content(d)
<1>1. PICK a \in Request : a = req[r]
  BY OfRequest
<1>2. /\ Current(a) /\ a.step = "delete"
      /\ row' = [l \in Rows |-> IF l \in a.id THEN NoRow ELSE row[l]]
  BY <1>1, OfRequest DEF RemoveLineDelete
<1>3. header[a.doc].status = "Draft" /\ \A l \in a.id : row[l].doc = a.doc
  BY <1>2 DEF Current
<1>4. NoRow.doc # d
  BY DocumentAssumption DEF NoRow
<1>5. \A l \in Rows : row'[l] = row[l] \/ (row[l].doc # d /\ row'[l].doc # d)
  BY <1>2, <1>3, <1>4
<1> QED BY <1>5, SameContent

(* The other steps write no line. *)
LEMMA WhoWritesRows ==
    ASSUME [Next]_vars
    PROVE  \/ row' = row
           \/ \E r \in Requests : SaveUpdate(r) \/ EditCommit(r) \/ LineSaved(r)
                                  \/ AddLineInsert(r) \/ RemoveLineDelete(r)
<1>1. ASSUME NEW d \in Docs, CreateQuotation(d) \/ CreateRfq(d) \/ ExpireOutdated(d)
      PROVE  row' = row
  BY <1>1 DEF CreateQuotation, CreateRfq, Create, ExpireOutdated
<1>2. ASSUME NEW r \in Requests, DocumentStep(r) PROVE row' = row \/ SaveUpdate(r)
  BY <1>2 DEF DocumentStep, SaveSelect, SaveRefused, EditCheck, EditRefused, EditSelect, Refused,
     tables
<1>3. ASSUME NEW r \in Requests, QuotationStep(r) PROVE row' = row \/ EditCommit(r)
  BY <1>3 DEF QuotationStep, QuotationStatusRead, StatusRead, UpdateItem, AddItem, SoftDelete,
     EditRead, AddRead, RevisionRead, RevisionSelect, tables
<1>4. ASSUME NEW r \in Requests, RfqStep(r) PROVE row' = row \/ LineSaved(r)
  BY <1>4 DEF RfqStep, RfqStatusRead, StatusRead, HeaderRead, UpdateRfqLine, AddRfqLine,
     RemoveRfqLine, EditRead, AddRead, tables
<1>5. ASSUME NEW r \in Requests, PermitStep(r)
      PROVE  row' = row \/ AddLineInsert(r) \/ RemoveLineDelete(r)
  BY <1>5 DEF PermitStep, CreateCheck, DeliverRead, AddLineRead, CreateReadBack, Refused,
     PermitStatusRead, StatusRead, OrderLineRead, OthersRead, AddLineRefused, RemoveLineRead,
     Gate, GateRefused, HandOver, tables
<1>6. ASSUME NEW r \in Requests, Rollback(r) PROVE row' = row
  BY <1>6 DEF Rollback, Refused, tables
<1>7. UNCHANGED vars => row' = row
  BY DEF vars, tables
<1> QED BY <1>1, <1>2, <1>3, <1>4, <1>5, <1>6, <1>7 DEF Next

(* Without overlaps, the lines of a document that has left Draft stand      *)
(* (every line edit looks for Draft first, and a save writes the lines that *)
(* were there).                                                             *)
THEOREM OffersStand == Spec => OfferStands
<1> DEFINE Stands == \A d \in Docs :
        (~raced' /\ (header[d].status # "Draft" \/ header'[d].status # "Draft"))
            => Content(d)' = Content(d)
<1>1. DocumentsInv /\ [Next]_vars => Stands
  <2>1. SUFFICES ASSUME DocumentsInv, [Next]_vars, NEW d \in Docs, ~raced',
                        header[d].status # "Draft" \/ header'[d].status # "Draft"
                 PROVE  Content(d)' = Content(d)
    OBVIOUS
  <2>2. CASE row' = row
    BY <2>2, SameContent
  <2>3. ASSUME NEW r \in Requests, SaveUpdate(r) PROVE Content(d)' = Content(d)
    <3>1. ~raced
      BY <2>1, <2>3 DEF SaveUpdate, Finish, GoOn
    <3> QED BY <2>1, <2>3, <3>1, SaveUpdateKeepsContent
  <2>4. ASSUME NEW r \in Requests, EditCommit(r) \/ LineSaved(r) \/ AddLineInsert(r)
        PROVE  Content(d)' = Content(d)
    <3>1. /\ ~raced /\ req[r].step = "commit" /\ RowWritten(r)
      BY <2>1, <2>4 DEF EditCommit, LineSaved, AddLineInsert, Finish, GoOn
    <3>2. header' = header
      BY <2>1, <2>4, <3>1, EditCommitKeepsHeader DEF LineSaved, AddLineInsert
    <3> QED BY <2>1, <3>1, <3>2, LineWriteKeepsContent
  <2>5. ASSUME NEW r \in Requests, RemoveLineDelete(r) PROVE Content(d)' = Content(d)
    <3>1. ~raced /\ header' = header
      BY <2>1, <2>5 DEF RemoveLineDelete, Finish, GoOn
    <3> QED BY <2>1, <2>5, <3>1, RemoveLineDeleteKeepsContent
  <2> QED BY <2>1, <2>2, <2>3, <2>4, <2>5, WhoWritesRows
<1>2. DocumentsInv /\ [Next]_vars => [Stands]_vars
  BY <1>1
<1> QED BY <1>2, DocumentsInvariance, PTL DEF Spec, OfferStands
=============================================================================
