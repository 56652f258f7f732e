-------------------------- MODULE StockEngineCheck --------------------------
(***************************************************************************)
(* The loops of stock-engine.ts as folds over the locations in the order in *)
(* which they visit them, compared with the operators of StockEngine that   *)
(* the rest of the model uses. A behaviour is one call: inputs, then what   *)
(* it returned.                                                             *)
(***************************************************************************)
EXTENDS StockEngine, Folds

CONSTANT MaxUnits   \* bound: units on hand, reserved or held at a location
ASSUME MaxUnitsAssumption == MaxUnits \in Nat

VARIABLES rows, held, qty, call

callVars == <<rows, held, qty, call>>

(* A loop over the locations in the order of rank: before its body runs at  *)
(* a location it has run at all those of a lower rank.                      *)
LastOf(rank, S) == CHOOSE l \in S : \A m \in S : rank[m] <= rank[l]
Loop(body(_, _), start, rank) ==
    MapThenFoldSet(LAMBDA l, st : body(st, l), start,
                   LAMBDA l : l, LAMBDA S : LastOf(rank, S), Locations)

Smaller(a, b) == IF a < b THEN a ELSE b

(* reserveBestEffort: break when nothing remains, skip a take of nothing.   *)
\* Mutant: counts reserved units as available.
ReserveOnHand(st, l) ==
    LET take == Smaller(st.rows[l].onHand, st.remaining)
    IN  IF st.remaining <= 0 \/ take <= 0 THEN st
        ELSE [st EXCEPT !.rows[l].reserved = @ + take, !.remaining = @ - take]
ReserveAt(st, l) ==
    LET take == Smaller(st.rows[l].onHand - st.rows[l].reserved, st.remaining)
    IN  IF st.remaining <= 0 \/ take <= 0 THEN st
        ELSE [st EXCEPT !.rows[l].reserved = @ + take, !.remaining = @ - take]

reserveBestEffort(rs, n) ==
    Loop(ReserveAt, [rows |-> rs, remaining |-> n], ShowroomFirst)

(* deliverFromReservations: the allocations, then the free units; failed    *)
(* stands for a thrown error, after which the result is not used.           *)
TakeReserved(st, l) ==
    LET take == Smaller(held[l], st.remaining)
        row == st.rows[l]
    IN  IF st.failed \/ st.remaining <= 0 \/ held[l] = 0 THEN st
        ELSE IF row.onHand < take \/ row.reserved < take THEN [st EXCEPT !.failed = TRUE]
        ELSE [st EXCEPT !.rows[l] = [onHand |-> row.onHand - take, reserved |-> row.reserved - take],
                        !.remaining = @ - take]

\* Mutant: the second loop takes units that other orders have reserved.
TakeOnHand(st, l) ==
    LET take == Smaller(st.rows[l].onHand, st.remaining)
    IN  IF st.failed \/ st.remaining <= 0 \/ take <= 0 THEN st
        ELSE [st EXCEPT !.rows[l].onHand = @ - take, !.remaining = @ - take]
TakeFree(st, l) ==
    LET take == Smaller(st.rows[l].onHand - st.rows[l].reserved, st.remaining)
    IN  IF st.failed \/ st.remaining <= 0 \/ take <= 0 THEN st
        ELSE [st EXCEPT !.rows[l].onHand = @ - take, !.remaining = @ - take]

deliverFromReservations(rs, n) ==
    LET start == [rows |-> rs, remaining |-> n, failed |-> FALSE]
        end == Loop(TakeFree, Loop(TakeReserved, start, ById), ById)
    IN  [end EXCEPT !.failed = @ \/ end.remaining > 0]

CallInit ==
    /\ rows \in [Locations -> [onHand : 0..MaxUnits, reserved : 0..MaxUnits]]
    /\ held \in [Locations -> 0..MaxUnits]
    /\ qty \in 1..MaxQty
    /\ call = [fn |-> "none"]

Reserve ==
    /\ call.fn = "none"
    /\ call' = [fn |-> "reserve", result |-> reserveBestEffort(rows, qty)]
    /\ UNCHANGED <<rows, held, qty>>

Deliver ==
    /\ call.fn = "none"
    /\ call' = [fn |-> "deliver", result |-> deliverFromReservations(rows, qty)]
    /\ UNCHANGED <<rows, held, qty>>

CallNext == Reserve \/ Deliver

-----------------------------------------------------------------------------
(* Reserving best effort: there is exactly one greedy allocation, the loop  *)
(* of reserveBestEffort computes it, and what remains is the shortage.      *)
ReserveAgrees ==
    call.fn = "reserve" =>
        \E take \in Reservations(rows, qty) :
            /\ Reservations(rows, qty) = {take}
            /\ call.result = [rows |-> WithReserved(rows, take), remaining |-> qty - Total(take)]

(* Delivering: the two loops of deliverFromReservations throw exactly when  *)
(* CanDeliver is false and otherwise leave the rows that Consumed states.   *)
(* The second loop runs on the rows that the first one changed; a reserved  *)
(* unit taken there leaves on hand and reserved alike, so the free units    *)
(* are those of the rows before the call.                                   *)
DeliverAgrees ==
    call.fn = "deliver" =>
        /\ call.result.failed <=> ~CanDeliver(rows, held, qty)
        /\ ~call.result.failed =>
              \E taken \in FromReserved(rows, held, qty) :
                  \E free \in FromFree(rows, taken, qty) :
                      call.result.rows = Consumed(rows, taken, free)
=============================================================================
