--------------------------- MODULE ReleasePermits ---------------------------
(***************************************************************************)
(* Release permits of one sales order                                       *)
(* (src/src/release-permits/release-permits.service.ts), and the delivery   *)
(* of its lines as far as it depends on them                                *)
(* (src/src/deliveries/deliveries.service.ts).                              *)
(***************************************************************************)
EXTENDS DocumentTables

Remaining(ol) == MaxQty - delivered[ol]

(* create: the order line must have the quantity left. The answer is read   *)
(* by findOne, through another connection of the pool, which does not see   *)
(* the rows of the open transaction: it throws, and the permit is rolled    *)
(* back. The permits of this module are in the tables from the start.       *)
CreateCheck(r, ol, n) ==
    /\ kind = "permit"
    /\ n <= Remaining(ol)
    /\ Start(r, [Idle EXCEPT !.step = "readBack"])
    /\ UNCHANGED tables

CreateReadBack(r) ==
    /\ req[r].step = "readBack"
    /\ Refused(r)

PermitStatusRead(r, d, s) == kind = "permit" /\ StatusRead(r, d, s)

(* addLine: the Draft check, the order line, and what other permits of the  *)
(* order that are not cancelled have of it, are three reads.                *)
AddLineRead(r, d, l, ol, n) ==
    /\ kind = "permit"
    /\ header[d].status = "Draft"
    /\ Fresh(l)
    /\ Start(r, [Idle EXCEPT !.step = "order", !.doc = d, !.id = {l},
                  !.copy = [doc |-> d, about |-> ol, qty |-> n, deleted |-> FALSE]])
    /\ UNCHANGED tables

OrderLineRead(r) ==
    /\ req[r].step = "order"
    /\ GoOn(r, [req[r] EXCEPT !.step = "others", !.left = Remaining(req[r].copy.about)])
    /\ UNCHANGED tables

UnitsOn(ol, permits) ==
    SumFunctionOnSet([l \in Rows |-> row[l].qty],
                     {l \in Rows : row[l].about = ol /\ row[l].doc \in permits})

\* Mutant: does not look at the other permits.
IgnoredElsewhere(d, ol) == 0
OnOtherPermits(d, ol) ==
    UnitsOn(ol, {p \in Docs \ {d} : header[p].status \notin {"None", "Cancelled"}})

Releasable(r) == req[r].copy.qty <= req[r].left - OnOtherPermits(req[r].doc, req[r].copy.about)

OthersRead(r) ==
    /\ req[r].step = "others"
    /\ Releasable(r)
    /\ GoOn(r, [req[r] EXCEPT !.step = "commit"])
    /\ UNCHANGED tables

AddLineRefused(r) ==
    /\ req[r].step = "others"
    /\ ~Releasable(r)
    /\ Refused(r)

AddLineInsert(r) ==
    /\ kind = "permit"
    /\ req[r].step = "commit"
    /\ RowWritten(r)
    /\ UNCHANGED <<kind, header, revisions, delivered>>
    /\ Clear
    /\ Finish(r)

(* removeLine: the check of the permit's status, then the DELETE.           *)
RemoveLineRead(r, l) ==
    /\ kind = "permit"
    /\ row[l] # NoRow
    /\ header[row[l].doc].status = "Draft"
    /\ Start(r, [Idle EXCEPT !.step = "delete", !.doc = row[l].doc, !.id = {l}])
    /\ UNCHANGED tables

RemoveLineDelete(r) ==
    /\ req[r].step = "delete"
    /\ row' = [l \in Rows |-> IF l \in req[r].id THEN NoRow ELSE row[l]]
    /\ Finish(r)
    /\ UNCHANGED <<kind, header, revisions, delivered, cleared>>

-----------------------------------------------------------------------------
(* A delivery of n units of an order line: read the line, ask the permits,  *)
(* write the count.                                                         *)
\* Mutant: no over-delivery check.
DeliverReadUncapped(r, ol, n) ==
    /\ kind = "permit"
    /\ Start(r, [Idle EXCEPT !.step = "gate", !.left = delivered[ol],
                             !.copy = [NoRow EXCEPT !.about = ol, !.qty = n]])
    /\ UNCHANGED tables

DeliverRead(r, ol, n) ==
    /\ kind = "permit"
    /\ n <= Remaining(ol)
    /\ Start(r, [Idle EXCEPT !.step = "gate", !.left = delivered[ol],
                             !.copy = [NoRow EXCEPT !.about = ol, !.qty = n]])
    /\ UNCHANGED tables

(* assertReleasePermits: only Released permits count.                       *)
\* Mutant: any permit that is not cancelled counts.
AnyPermit == {p \in Docs : header[p].status \notin {"None", "Cancelled"}}
ReleasedPermits == {p \in Docs : header[p].status = "Released"}

Gate(r) ==
    /\ req[r].step = "gate"
    /\ UnitsOn(req[r].copy.about, ReleasedPermits) >= req[r].copy.qty
    /\ GoOn(r, [req[r] EXCEPT !.step = "handOver"])
    /\ UNCHANGED tables

GateRefused(r) ==
    /\ req[r].step = "gate"
    /\ UnitsOn(req[r].copy.about, ReleasedPermits) < req[r].copy.qty
    /\ Refused(r)

HandOver(r) ==
    /\ req[r].step = "handOver"
    /\ delivered' = [delivered EXCEPT ![req[r].copy.about] = req[r].left + req[r].copy.qty]
    /\ Finish(r)
    /\ UNCHANGED <<kind, header, row, revisions, cleared>>

PermitStep(r) ==
    \/ \E ol \in OrderLines, n \in 1..MaxQty :
          \/ CreateCheck(r, ol, n) \/ DeliverRead(r, ol, n)
          \/ \E d \in Docs, l \in Rows : AddLineRead(r, d, l, ol, n)
    \/ CreateReadBack(r)
    \/ \E d \in Docs, s \in Statuses : PermitStatusRead(r, d, s)
    \/ OrderLineRead(r) \/ OthersRead(r) \/ AddLineRefused(r) \/ AddLineInsert(r)
    \/ \E l \in Rows : RemoveLineRead(r, l)
    \/ RemoveLineDelete(r)
    \/ Gate(r) \/ GateRefused(r) \/ HandOver(r)
=============================================================================
