---------------------------- MODULE MCCatalogue ----------------------------
(* Checks Catalogue; the configuration gives the constants their values.    *)
EXTENDS Catalogue, TLC

(* Requests and recipients are never told apart.                            *)
Symmetry == Permutations(Requests) \cup Permutations(Recipients)
=============================================================================
