---------------------------- MODULE Receivables ----------------------------
(***************************************************************************)
(* What the finance part promises about money: an account for every client, *)
(* on which the invoices are charged and from which the payments are taken. *)
(* A payment is recorded in one step and for no more than is owed.          *)
(***************************************************************************)
EXTENDS Integers

CONSTANT Clients

VARIABLES
    billed,    \* what the client has been asked for
    received   \* what the client has paid

accounts == <<billed, received>>

Accounts == [Clients -> Nat]

Init ==
    /\ billed = [c \in Clients |-> 0]
    /\ received = [c \in Clients |-> 0]

Bill(c) ==
    /\ billed'[c] > billed[c]
    /\ billed' = [billed EXCEPT ![c] = billed'[c]]
    /\ UNCHANGED received

Pay(c) ==
    /\ received'[c] > received[c]
    /\ received'[c] <= billed[c]
    /\ received' = [received EXCEPT ![c] = received'[c]]
    /\ UNCHANGED billed

Next == \E c \in Clients : Bill(c) \/ Pay(c)

Spec == Init /\ [][Next]_accounts
=============================================================================
