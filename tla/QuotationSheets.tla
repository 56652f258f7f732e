--------------------------- MODULE QuotationSheets ---------------------------
(***************************************************************************)
(* Quotations and their details (src/src/quotations/quotations.service.ts, *)
(* src/src/quotation-details/quotation-details.service.ts). findOne leaves  *)
(* the deleted details out, so a change of status detaches them.            *)
(***************************************************************************)
EXTENDS DocumentTables

CreateQuotation(d) == kind = "quotation" /\ Create(d)

QuotationStatusRead(r, d, s) == kind = "quotation" /\ StatusRead(r, d, s)

AddItem(r, d, l, n) == kind = "quotation" /\ AddRead(r, d, l, n)

UpdateItem(r, l, n) ==
    /\ kind = "quotation" /\ ~row[l].deleted
    /\ EditRead(r, l, [row[l] EXCEPT !.qty = n])

SoftDelete(r, l) ==
    /\ kind = "quotation"
    /\ EditRead(r, l, [row[l] EXCEPT !.deleted = TRUE])

(* The transaction of a line edit reads the quotation again: if it has left *)
(* Draft since the check, the edit bumps the revision that it read ...      *)
RevisionRead(r) ==
    LET read == header[req[r].doc] IN
    /\ req[r].step = "revise"
    /\ \/ /\ read.status = "Draft"
          /\ GoOn(r, [req[r] EXCEPT !.step = "commit"])
       \/ /\ read.status # "Draft"
          /\ read.revision < MaxRevisions
          /\ GoOn(r, [req[r] EXCEPT !.step = "bump", !.wants = [read EXCEPT !.revision = @ + 1]])
    /\ UNCHANGED tables

(* ... and saves the quotation ...                                          *)
RevisionSelect(r) ==
    /\ req[r].step = "bump"
    /\ GoOn(r, [req[r] EXCEPT !.step = "commit", !.base = header[req[r].doc]])
    /\ UNCHANGED tables

(* ... and a snapshot under that number, together with the line.            *)
EditCommit(r) ==
    LET d == req[r].doc IN
    /\ kind = "quotation"
    /\ req[r].step = "commit"
    /\ RowWritten(r)
    /\ IF req[r].wants = NoHeader
       THEN UNCHANGED <<header, revisions>>
       ELSE /\ Len(revisions[d]) < MaxRevisions
            /\ header' = [header EXCEPT ![d] = Merged(@, req[r].base, req[r].wants)]
            /\ revisions' = [revisions EXCEPT ![d] = Append(@, req[r].wants.revision)]
    /\ Finish(r)
    /\ UNCHANGED <<kind, delivered, cleared>>

(* The nightly job: one UPDATE of the Sent quotations that are out of date. *)
ExpireOutdated(d) ==
    /\ kind = "quotation"
    /\ header[d].status = "Sent"
    /\ header' = [header EXCEPT ![d].status = "Expired"]
    /\ raced' = (raced \/ \E p \in Requests : req[p] # Idle)
    /\ UNCHANGED <<kind, row, revisions, delivered, cleared, req>>

QuotationStep(r) ==
    \/ \E d \in Docs, s \in Statuses : QuotationStatusRead(r, d, s)
    \/ \E l \in Rows, n \in 1..MaxQty :
          UpdateItem(r, l, n) \/ \E d \in Docs : AddItem(r, d, l, n)
    \/ \E l \in Rows : SoftDelete(r, l)
    \/ RevisionRead(r) \/ RevisionSelect(r) \/ EditCommit(r)
=============================================================================
