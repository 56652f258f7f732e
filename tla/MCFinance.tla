----------------------------- MODULE MCFinance -----------------------------
(* One client, who is the client of every order. *)
EXTENDS Finance, TLC

CONSTANT ann

AnnsOrder == [o \in Orders |-> ann]
Symmetry == Permutations(Requests)
=============================================================================
