---------------------------- MODULE MCFulfilment ----------------------------
(* Values for the constants of Fulfilment, and its symmetries.              *)
EXTENDS Fulfilment, TLC

(* Two locations; the showroom has the larger id, so that "showroom first"  *)
(* and "by id" differ.                                                      *)
MCLocations == {1, 2}
MCShowroom == 2
OneLocation == {2}

OneEach == [i \in Items |-> [l \in Locations |-> 1]]
NoneYet == [i \in Items |-> [l \in Locations |-> 0]]

(* All items start with the same stock.                                     *)
Symmetry ==
    Permutations(Orders) \cup Permutations(Lines) \cup Permutations(Requests)
        \cup Permutations(Items)

(* A CONSTRAINT of the run with races: a quotation that was rejected, has    *)
(* expired or goes back to Draft is not followed; no order depends on it     *)
(* until it is Approved, and Documents has the rest of its life.             *)
OnTheWay ==
    /\ \A q \in Quotations : quote[q] \notin {"Rejected", "Expired"}
    /\ \A r \in Requests : pc[r] \notin {"Rejected", "Draft"}
=============================================================================
