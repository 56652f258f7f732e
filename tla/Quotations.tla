----------------------------- MODULE Quotations -----------------------------
(***************************************************************************)
(* QuotationsService (src/src/quotations/quotations.service.ts), as far as  *)
(* orders depend on it: the status of a quotation. A change of status reads *)
(* the quotation, looks the transition up and saves the quotation, in two   *)
(* statements without a lock; the request that is between them has the      *)
(* status that it is going to write as its pc.                              *)
(***************************************************************************)
EXTENDS ErpTables, Workflows

StatusRead(r, q, s) ==
    /\ pc[r] = "idle"
    /\ <<quote[q], s>> \in QuotationTransitions
    /\ pc' = [pc EXCEPT ![r] = s]
    /\ target' = [target EXCEPT ![r] = q]
    /\ UNCHANGED <<orderTables, stockTables, permitted, seen, todo, asked, locks, work, held>>

StatusSave(r) ==
    /\ pc[r] \in QuotationStatus
    /\ quote' = [quote EXCEPT ![target[r]] = pc[r]]
    /\ Finish(r)
    /\ UNCHANGED <<status, source, line, resv, stockTables, permitted>>

(* The nightly job: one UPDATE of the Sent quotations that are out of date. *)
ExpireOutdated(q) ==
    /\ quote[q] = "Sent"
    /\ quote' = [quote EXCEPT ![q] = "Expired"]
    /\ UNCHANGED <<status, source, line, resv, stockTables, permitted, requestVars>>

QuotationsStep(r) ==
    \/ \E q \in Quotations, s \in QuotationStatus : StatusRead(r, q, s)
    \/ StatusSave(r)
=============================================================================
