-------------------------------- MODULE Rfqs --------------------------------
(***************************************************************************)
(* Requests for quotation (src/src/rfqs/rfqs.service.ts). findOne leaves    *)
(* the deleted lines out, and rfq_lines.rfq_id may not be null: once a line *)
(* was deleted, no save of the RFQ gets through.                            *)
(***************************************************************************)
EXTENDS DocumentTables

CreateRfq(d) == kind = "rfq" /\ Create(d)

RfqStatusRead(r, d, s) == kind = "rfq" /\ StatusRead(r, d, s)

(* update: the other columns of a Draft are changed, the status is saved as *)
(* it was read.                                                             *)
HeaderRead(r, d) ==
    /\ kind = "rfq"
    /\ header[d].status = "Draft"
    /\ Start(r, [Idle EXCEPT !.step = "save", !.doc = d, !.listed = Listed(d),
                             !.wants = header[d]])
    /\ UNCHANGED tables

AddRfqLine(r, d, l, n) == kind = "rfq" /\ AddRead(r, d, l, n)

UpdateRfqLine(r, l, n) ==
    /\ kind = "rfq" /\ ~row[l].deleted
    /\ EditRead(r, l, [row[l] EXCEPT !.qty = n])

RemoveRfqLine(r, l) ==
    /\ kind = "rfq"
    /\ EditRead(r, l, [row[l] EXCEPT !.deleted = TRUE])

LineSaved(r) ==
    /\ kind = "rfq"
    /\ req[r].step = "commit"
    /\ RowWritten(r)
    /\ Finish(r)
    /\ UNCHANGED <<kind, header, revisions, delivered, cleared>>

RfqStep(r) ==
    \/ \E d \in Docs : HeaderRead(r, d)
    \/ \E d \in Docs, s \in Statuses : RfqStatusRead(r, d, s)
    \/ \E l \in Rows, n \in 1..MaxQty :
          UpdateRfqLine(r, l, n) \/ \E d \in Docs : AddRfqLine(r, d, l, n)
    \/ \E l \in Rows : RemoveRfqLine(r, l)
    \/ LineSaved(r)
=============================================================================
