--------------------------- MODULE MCProcurement ---------------------------
(* Values for the constants of Procurement. *)
EXTENDS Procurement, TLC

CONSTANT acme

OneSupplier == [i \in Items |-> acme]
ThresholdOne == [i \in Items |-> 1]
=============================================================================
