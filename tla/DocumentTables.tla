--------------------------- MODULE DocumentTables ---------------------------
(***************************************************************************)
(* Quotations, requests for quotation (RFQs) and release permits are        *)
(* documents of one shape: a header with a status, and rows that point to   *)
(* it. Their handlers read a document, look at its status, and save what    *)
(* they read; nothing is locked in between.                                 *)
(*                                                                         *)
(* manager.save of an entity is two statements: a SELECT of the record,     *)
(* and an UPDATE of the columns in which the entity differs from what the   *)
(* SELECT saw. A document that was read with its rows is saved with them:   *)
(* a row of the document that the entity does not list is detached (its     *)
(* foreign key is set to NULL), and one that it lists is attached again.    *)
(*                                                                         *)
(* The three kinds share no rows, so one behaviour is about one kind.       *)
(***************************************************************************)
EXTENDS Integers, Sequences, FiniteSets, Functions, Workflows

Kinds == {"quotation", "rfq", "permit"}

CONSTANTS
    Docs, Rows, Requests,
    OrderLines,      \* lines of the sales order that the permits are about
    NoDoc, NoLine,
    DocsOf, RowsOf,  \* bound: the documents and rows of each kind
    MaxQty,          \* bound: largest quantity, and what an order line orders
    MaxRevisions     \* bound: revisions recorded of a quotation

ASSUME DocumentAssumption ==
    /\ NoDoc \notin Docs /\ NoLine \notin OrderLines
    /\ DocsOf \in [Kinds -> SUBSET Docs] /\ RowsOf \in [Kinds -> SUBSET Rows]
    /\ MaxQty \in Nat \ {0} /\ MaxRevisions \in Nat
    /\ IsFiniteSet(Rows)

Steps ==
    {"idle", "save", "update", "check", "selectRow", "revise", "bump", "commit",
     "delete", "order", "others", "readBack", "gate", "handOver"}

NoHeader == [status |-> "None", revision |-> 0]
NoRow == [doc |-> NoDoc, about |-> NoLine, qty |-> 0, deleted |-> FALSE]

VARIABLES
    kind,       \* which kind of document this behaviour is about
    header,     \* quotations, rfqs, release_permits ("None": no such document)
    row,        \* quotation_details, rfq_lines, release_permit_lines
    revisions,  \* quotation_revisions: the numbers recorded, in order
    delivered,  \* sales_order_lines.qty_delivered
    cleared,    \* history: the order lines that were ever on a Released permit
    raced,      \* history: whether two requests ever overlapped
    req         \* the requests being served

tables == <<kind, header, row, revisions, delivered, cleared>>
vars == <<tables, raced, req>>

Statuses ==
    {"None", "Expired", "Draft"} \cup
    {p[2] : p \in QuotationTransitions \cup RfqTransitions \cup PermitTransitions}
Header == [status : Statuses, revision : 0..MaxRevisions]
Row == [doc : Docs \cup {NoDoc}, about : OrderLines \cup {NoLine}, qty : 1..MaxQty,
        deleted : BOOLEAN]

(* step: where it is; doc: its document; wants, base: the header it means   *)
(* to save and the one its SELECT saw; listed, attached: the rows it read   *)
(* with the document and those its SELECT saw; id, copy, old: the row it    *)
(* works on, as it means to save it and as its SELECT saw it; left: what it *)
(* computed from the order line.                                            *)
Idle ==
    [step |-> "idle", doc |-> NoDoc, wants |-> NoHeader, base |-> NoHeader,
     listed |-> {}, attached |-> {}, id |-> {}, copy |-> NoRow, old |-> NoRow, left |-> 0]

Request ==
    [step : Steps, doc : Docs \cup {NoDoc}, wants : Header, base : Header,
     listed : SUBSET Rows, attached : SUBSET Rows, id : {{}} \cup {{l} : l \in Rows},
     copy : Row \cup {NoRow}, old : Row \cup {NoRow}, left : 0..MaxQty]

(* The tables and the requests hold what their columns and variables may;   *)
(* in particular a line is never delivered beyond what was ordered.         *)
TypeOK ==
    /\ kind \in Kinds
    /\ header \in [Docs -> Header]
    /\ row \in [Rows -> Row \cup {NoRow}]
    /\ revisions \in [Docs -> Seq(1..MaxRevisions)]
    /\ delivered \in [OrderLines -> 0..MaxQty]
    /\ cleared \subseteq OrderLines
    /\ raced \in BOOLEAN
    /\ req \in [Requests -> Request]

-----------------------------------------------------------------------------
Attached(d) == {l \in Rows : row[l].doc = d}
Active(d) == {l \in Attached(d) : ~row[l].deleted}

(* The entity after an UPDATE of the columns in which it differs from base. *)
Merged(now, base, entity) ==
    [c \in DOMAIN now |-> IF entity[c] # base[c] THEN entity[c] ELSE now[c]]

(* A new id is one that no row has and no request has read.                 *)
Fresh(l) ==
    /\ l \in RowsOf[kind] /\ row[l] = NoRow
    /\ \A p \in Requests : l \notin req[p].listed \cup req[p].id

(* Request r starts, with what it has read; goes on; is over.               *)
Start(r, read) ==
    /\ req[r] = Idle
    /\ req' = [req EXCEPT ![r] = read]
    /\ raced' = (raced \/ \E p \in Requests : req[p] # Idle)

GoOn(r, read) ==
    /\ req' = [req EXCEPT ![r] = read]
    /\ raced' = raced

Finish(r) == GoOn(r, Idle)

Refused(r) == Finish(r) /\ UNCHANGED tables

-----------------------------------------------------------------------------
Transitions ==
    [quotation |-> QuotationTransitions, rfq |-> RfqTransitions, permit |-> PermitTransitions]

(* findOne: the quotation and RFQ services leave the deleted rows out.      *)
Listed(d) == IF kind = "permit" THEN Attached(d) ELSE Active(d)

(* updateStatus of the three services: read the document with its rows,     *)
(* look the transition up (a quotation is sent only to an e-mail address,   *)
(* which this abstracts from), ...                                          *)
StatusRead(r, d, s) ==
    /\ <<header[d].status, s>> \in Transitions[kind]
    /\ Start(r, [Idle EXCEPT !.step = "save", !.doc = d, !.listed = Listed(d),
                             !.wants = [header[d] EXCEPT !.status = s]])
    /\ UNCHANGED tables

(* ... SELECT, ...                                                          *)
SaveSelect(r) ==
    LET d == req[r].doc IN
    /\ req[r].step = "save"
    /\ GoOn(r, [req[r] EXCEPT !.step = "update", !.base = header[d], !.attached = Attached(d)])
    /\ UNCHANGED tables

(* ... and UPDATE, unless it would detach a row whose document may not be   *)
(* null: only quotation_details allow it.                                   *)
Orphans(r) == req[r].attached \ req[r].listed

\* Mutant: every foreign key may be null.
DetachableAlways(r) == TRUE
Detachable(r) == Orphans(r) = {} \/ kind = "quotation"

DocumentOf(r, l) ==
    IF l \in Orphans(r) THEN NoDoc
    ELSE IF l \in req[r].listed \ req[r].attached /\ row[l] # NoRow THEN req[r].doc
    ELSE row[l].doc

OnReleasedPermits(headers, rows) ==
    {rows[l].about : l \in {m \in Rows : /\ rows[m].doc \in Docs
                                         /\ headers[rows[m].doc].status = "Released"}}
Clear == cleared' = cleared \cup OnReleasedPermits(header', row')

SaveUpdate(r) ==
    LET d == req[r].doc IN
    /\ req[r].step = "update"
    /\ Detachable(r)
    /\ header' = [header EXCEPT ![d] = Merged(@, req[r].base, req[r].wants)]
    /\ row' = [l \in Rows |-> [row[l] EXCEPT !.doc = DocumentOf(r, l)]]
    /\ Clear
    /\ Finish(r)
    /\ UNCHANGED <<kind, revisions, delivered>>

SaveRefused(r) ==
    /\ req[r].step = "update"
    /\ ~Detachable(r)
    /\ Refused(r)

-----------------------------------------------------------------------------
(* A new document: the steps that quotations and RFQs have in common.       *)
Create(d) ==
    /\ d \in DocsOf[kind]
    /\ header[d].status = "None"
    /\ header' = [header EXCEPT ![d] = [status |-> "Draft", revision |-> 0]]
    /\ UNCHANGED <<kind, row, revisions, delivered, cleared, req, raced>>

(* A line is added to, changed in or taken off a quotation or an RFQ, where *)
(* a flag reports it as deleted. The document must be a Draft when it is    *)
(* checked; the line is written later.                                      *)
\* Mutant: no check of the status.
UncheckedDraft(d) == TRUE
IsDraft(d) == header[d].status = "Draft"

(* A quotation writes the line and looks at its status once more.           *)
Writing == IF kind = "quotation" THEN "revise" ELSE "commit"

AddRead(r, d, l, n) ==
    /\ IsDraft(d)
    /\ Fresh(l)
    /\ Start(r, [Idle EXCEPT !.step = Writing, !.doc = d, !.id = {l},
                             !.copy = [NoRow EXCEPT !.doc = d, !.qty = n]])
    /\ UNCHANGED tables

(* The line is read with its document; a line without one is an error.      *)
EditRead(r, l, copy) ==
    /\ row[l].doc \in Docs
    /\ Start(r, [Idle EXCEPT !.step = "check", !.doc = row[l].doc, !.id = {l}, !.copy = copy])
    /\ UNCHANGED tables

EditCheck(r) ==
    /\ req[r].step = "check"
    /\ IsDraft(req[r].doc)
    /\ GoOn(r, [req[r] EXCEPT !.step = "selectRow"])
    /\ UNCHANGED tables

EditRefused(r) ==
    /\ req[r].step = "check"
    /\ ~IsDraft(req[r].doc)
    /\ Refused(r)

EditSelect(r) ==
    /\ req[r].step = "selectRow"
    /\ \E l \in req[r].id : GoOn(r, [req[r] EXCEPT !.step = Writing, !.old = row[l]])
    /\ UNCHANGED tables

(* The transaction commits: the row is inserted or updated.                 *)
RowWritten(r) ==
    row' = [l \in Rows |-> IF l \notin req[r].id THEN row[l]
                           ELSE IF req[r].old = NoRow THEN req[r].copy
                           ELSE Merged(row[l], req[r].old, req[r].copy)]

DocumentStep(r) ==
    \/ SaveSelect(r) \/ SaveUpdate(r) \/ SaveRefused(r)
    \/ EditCheck(r) \/ EditRefused(r) \/ EditSelect(r)
=============================================================================
