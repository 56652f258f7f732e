----------------------------- MODULE Documents -----------------------------
(***************************************************************************)
(* The three kinds of documents put together, with the properties of their  *)
(* shared life: drafted line by line, fixed by the first change of status,  *)
(* and acted on.                                                            *)
(***************************************************************************)
EXTENDS QuotationSheets, Rfqs, ReleasePermits

(* An exception, a deadlock or a crash before the commit.                   *)
Rollback(r) == req[r] # Idle /\ Refused(r)

(* A quotation or an RFQ starts with create; the permits are there.         *)
Init ==
    /\ kind \in Kinds
    /\ header = [d \in Docs |-> IF kind = "permit" /\ d \in DocsOf[kind]
                                THEN [status |-> "Draft", revision |-> 0] ELSE NoHeader]
    /\ row = [l \in Rows |-> NoRow]
    /\ revisions = [d \in Docs |-> <<>>]
    /\ delivered = [ol \in OrderLines |-> 0]
    /\ cleared = {}
    /\ raced = FALSE
    /\ req = [r \in Requests |-> Idle]

Next ==
    \/ \E d \in Docs : CreateQuotation(d) \/ CreateRfq(d) \/ ExpireOutdated(d)
    \/ \E r \in Requests :
          DocumentStep(r) \/ QuotationStep(r) \/ RfqStep(r) \/ PermitStep(r) \/ Rollback(r)

Spec == Init /\ [][Next]_vars

-----------------------------------------------------------------------------
(* A line that nobody deleted stays with its document, whatever edits and   *)
(* changes of status overlap on it: an RFQ or a permit is never saved       *)
(* without a line that was added meanwhile. A quotation may lose one, but   *)
(* only to such an overlap.                                                 *)
NoLineLost ==
    \A l \in Rows : (row[l] # NoRow /\ row[l].doc = NoDoc /\ ~row[l].deleted)
        => kind = "quotation" /\ raced

(* What was offered, asked for or permitted stands: as long as no two       *)
(* requests overlap, the lines of a document that has left Draft are what   *)
(* they were when it left it, and leaving Draft does not change them.       *)
Content(d) == {<<l, row[l].about, row[l].qty>> : l \in Active(d)}
OfferStands ==
    [][\A d \in Docs : (~raced' /\ (header[d].status # "Draft" \/ header'[d].status # "Draft"))
          => Content(d)' = Content(d)]_vars

(* The permits of an order that are not cancelled do not add up to more     *)
(* than the line ordered, unless requests overlapped or a permit lists the  *)
(* line twice (addLine leaves the permit's own lines out of the sum).       *)
ListedOnce ==
    \A l, m \in Rows : (l # m /\ row[l] # NoRow /\ row[m] # NoRow)
        => row[l].doc # row[m].doc \/ row[l].about # row[m].about
ClearedWithinOrdered ==
    (kind = "permit" /\ ~raced /\ ListedOnce) =>
        \A ol \in OrderLines :
            UnitsOn(ol, {p \in Docs : header[p].status \notin {"None", "Cancelled"}}) <= MaxQty

(* Nothing leaves the house that was not released: whatever overlaps, a     *)
(* line with delivered units was on a Released permit once.                 *)
GoodsWereCleared == \A ol \in OrderLines : delivered[ol] > 0 => ol \in cleared

-----------------------------------------------------------------------------
(* The inductive invariant of DocumentProofs. A request, and the rows and   *)
(* headers, have what the writes of the request's step rely on, ...         *)
Editing == {"check", "selectRow", "revise", "bump", "commit", "order", "others"}

Proper(q) ==
    /\ q.step \in {"save", "update"} => q.doc \in Docs
    /\ kind # "permit" => q.wants.status # "Released"
    /\ q.step \in {"revise", "bump"} => kind = "quotation"
    /\ q.step \in {"check", "selectRow"} => kind # "permit" /\ \A l \in q.id : row[l] # NoRow
    /\ q.step \in {"order", "others", "delete", "gate", "handOver"} => kind = "permit"
    /\ q.step \in Editing =>
          /\ q.doc \in Docs /\ q.copy # NoRow /\ q.copy.doc \in Docs
          /\ kind = "permit" => q.copy.about \in OrderLines /\ q.old = NoRow
          /\ q.old = NoRow \/ \A l \in q.id : row[l] # NoRow
          /\ q.wants = NoHeader \/ q.wants.revision > 0
    /\ q.step \in {"gate", "handOver"} =>
          q.copy # NoRow /\ q.copy.about \in OrderLines /\ q.left + q.copy.qty <= MaxQty
    /\ q.step = "handOver" => q.copy.about \in cleared

TablesFit ==
    /\ \A l \in Rows : row[l] # NoRow =>
          /\ kind # "quotation" => row[l].doc \in Docs
          /\ kind = "permit" => row[l].about \in OrderLines
    /\ kind # "permit" => \A d \in Docs : header[d].status # "Released"
    /\ kind = "permit" => OnReleasedPermits(header, row) \subseteq cleared

(* ... and as long as none has overlapped, what a request has read is still *)
(* so. Then the permits do not list more than was ordered, whichever line   *)
(* one takes of each permit.                                                *)
Live == {p \in Docs : header[p].status \notin {"None", "Cancelled"}}

Current(q) ==
    /\ q.step \in {"save", "update"} =>
          /\ q.listed = Listed(q.doc)
          /\ header[q.doc].status # "None" /\ (kind = "permit" => q.doc \in Live)
    /\ q.step = "update" => q.base = header[q.doc] /\ q.attached = Attached(q.doc)
    /\ q.step \in (Editing \ {"check"}) \cup {"delete"} => header[q.doc].status = "Draft"
    /\ q.step \in Editing => q.step # "bump" /\ q.wants = NoHeader /\ q.copy.doc = q.doc
    /\ q.step \in {"check", "selectRow", "delete"} => \A l \in q.id : row[l].doc = q.doc
    /\ q.step \in {"revise", "commit", "order", "others"} =>
          \A l \in q.id : row[l] = q.old /\ (q.old = NoRow \/ q.old.doc = q.doc)
    /\ kind = "permit" /\ q.step = "commit" =>
          q.copy.qty <= MaxQty - OnOtherPermits(q.doc, q.copy.about)

Alone ==
    ~raced => /\ \A r, p \in Requests : req[r] # Idle /\ req[p] # Idle => r = p
              /\ \A r \in Requests : Current(req[r])

OnePerPermit(ol) ==
    {T \in SUBSET {l \in Rows : row[l].about = ol /\ row[l].doc \in Live} :
        \A l, m \in T : l # m => row[l].doc # row[m].doc}
ListedWithinOrdered ==
    (kind = "permit" /\ ~raced) => \A ol \in OrderLines : \A T \in OnePerPermit(ol) :
        SumFunctionOnSet([l \in Rows |-> row[l].qty], T) <= MaxQty

DocumentsInv ==
    /\ TypeOK /\ TablesFit /\ NoLineLost /\ GoodsWereCleared
    /\ \A r \in Requests : Proper(req[r])
    /\ Alone /\ ListedWithinOrdered

-----------------------------------------------------------------------------
(* FRONTEND-HANDOFF.md:1035: "POST /release-permits { salesOrderId, lines:  *)
(* [{ salesOrderLineId, qty }] } -> Draft permit": a create whose checks    *)
(* passed and that ends leaves a Draft.                                     *)
CreateLeavesDraft ==
    [][\A r \in Requests : CreateReadBack(r)
          => \E d \in Docs : header[d].status = "None" /\ header'[d].status = "Draft"]_vars

(* FRONTEND-HANDOFF.md:456: "Draft -> Sent -> Received -> Awarded.          *)
(* Cancellable from Draft, Sent, or Received": a change of status that the  *)
(* workflow allows and that nothing overlaps is not refused.                *)
AllowedIsDone ==
    [][\A r \in Requests : (SaveRefused(r) /\ kind = "rfq") => raced]_vars
=============================================================================
