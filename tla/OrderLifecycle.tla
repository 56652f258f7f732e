--------------------------- MODULE OrderLifecycle ---------------------------
(***************************************************************************)
(* What a sales order promises its customer, without stock, lines,          *)
(* quotations or requests: its content is free until it is confirmed and    *)
(* fixed from then on; goods are received in steps, never more than was     *)
(* ordered; it closes with the step that completes it; it can be called off *)
(* only before anything was received, and nothing happens to it afterwards. *)
(***************************************************************************)
EXTENDS Integers

CONSTANTS Orders, Items

VARIABLES
    phase,     \* phase[o]: where the order is in its life
    ordered,   \* ordered[o][i]: units of item i that o is for
    received   \* received[o][i]: units of item i that have left for o

life == <<phase, ordered, received>>

None == [i \in Items |-> 0]

Init ==
    /\ phase = [o \in Orders |-> "None"]
    /\ ordered = [o \in Orders |-> None]
    /\ received = [o \in Orders |-> None]

(* The content of o becomes anything, that of the other orders stays. *)
Rewritten(o) ==
    /\ ordered' = [ordered EXCEPT ![o] = ordered'[o]]
    /\ ordered'[o] \in [Items -> Nat]

Open(o) ==
    /\ phase[o] = "None"
    /\ phase' = [phase EXCEPT ![o] = "Draft"]
    /\ Rewritten(o)
    /\ UNCHANGED received

Revise(o) ==
    /\ phase[o] = "Draft"
    /\ Rewritten(o)
    /\ UNCHANGED <<phase, received>>

Confirm(o) ==
    /\ phase[o] = "Draft"
    /\ phase' = [phase EXCEPT ![o] = "Confirmed"]
    /\ UNCHANGED <<ordered, received>>

Receive(o) ==
    /\ phase[o] \in {"Confirmed", "Delivered"}
    /\ received' = [received EXCEPT ![o] = received'[o]]
    /\ received'[o] \in [Items -> Nat] \ {received[o]}
    /\ \A i \in Items : received[o][i] <= received'[o][i] /\ received'[o][i] <= ordered[o][i]
    /\ phase' = [phase EXCEPT ![o] = IF received'[o] = ordered[o] THEN "Closed" ELSE "Delivered"]
    /\ UNCHANGED ordered

Cancel(o) ==
    /\ phase[o] \in {"Draft", "Confirmed"}
    /\ phase' = [phase EXCEPT ![o] = "Cancelled"]
    /\ UNCHANGED <<ordered, received>>

Next == \E o \in Orders : Open(o) \/ Revise(o) \/ Confirm(o) \/ Receive(o) \/ Cancel(o)

Spec == Init /\ [][Next]_life
=============================================================================
