---------------------------- MODULE MCDocuments ----------------------------
(* Values for the constants of Documents: one quotation or RFQ, or two      *)
(* permits of one order.                                                    *)
EXTENDS Documents, TLC

CONSTANTS quotation, rfq, permit1, permit2, l0, l1, l2

MCDocs == {quotation, rfq, permit1, permit2}
MCRows == {l0, l1, l2}
MCDocsOf == [k \in Kinds |-> CASE k = "quotation" -> {quotation}
                                [] k = "rfq" -> {rfq}
                                [] k = "permit" -> {permit1, permit2}]
MCRowsOf == [k \in Kinds |-> IF k = "quotation" THEN {l0} ELSE {l1, l2}]

Symmetry ==
    Permutations(Requests) \cup Permutations({permit1, permit2}) \cup Permutations({l1, l2})
=============================================================================
