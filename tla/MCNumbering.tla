---------------------------- MODULE MCNumbering ----------------------------
(* The creations are interchangeable. *)
EXTENDS Numbering, TLC

Symmetry == Permutations(Requests)
=============================================================================
