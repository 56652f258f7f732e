-------------------------- MODULE ArithmeticProofs --------------------------
(***************************************************************************)
(* The pure parts of the program for all locations, rows, quantities and    *)
(* documents.                                                               *)
(*                                                                         *)
(* The loops of the stock engine: a loop over a finite set is the function  *)
(* of the elements visited that its body unfolds (Visits), so that a fact   *)
(* kept from one visit to the next holds at the end (LoopInduction). What   *)
(* the loops have taken at a location is what the quantity leaves after all *)
(* locations visited before it (Taken); Reservations, FromReserved and      *)
(* FromFree admit this one allocation (GreedyIs).                           *)
(*                                                                         *)
(* Money: a rounded share is within half a cent (RoundedIs), grows with the *)
(* amount and no faster (ShareGrows), and the shares of amounts that cancel *)
(* cancel up to a cent (SharesCancel). Totals are sums of lines with two    *)
(* such shares, so that documents whose lines are apart by a cent each are  *)
(* apart by at most two cents a line (TotalsWithin, TotalsCancel).          *)
(***************************************************************************)
EXTENDS Arithmetic, SumTheorems

-----------------------------------------------------------------------------
(* A loop over a finite set S that takes last[s] last from each subset s:   *)
(* the states it reaches are a function of the elements visited.            *)
Visits(start, step, last, D, g) ==
    g = [s \in D |-> IF s = {} THEN start ELSE step[g[s \ {last[s]}]][last[s]]]
Visited(start, step, last, S) == CHOOSE g : Visits(start, step, last, SUBSET S, g)
LastIn(last, S) == \A s \in SUBSET S : s # {} => last[s] \in s

(* Two such functions agree wherever both are defined.                      *)
LEMMA VisitsUnique ==
    ASSUME NEW start, NEW step, NEW last, NEW A, IsFiniteSet(A), LastIn(last, A),
           NEW B, NEW g, NEW h,
           Visits(start, step, last, SUBSET A, g), Visits(start, step, last, SUBSET B, h)
    PROVE  \A s \in (SUBSET A) \cap (SUBSET B) : g[s] = h[s]
<1>1. PICK Differ \in SUBSET SUBSET A :
          Differ = {s \in (SUBSET A) \cap (SUBSET B) : g[s] # h[s]}
  OBVIOUS
<1>2. SUFFICES ASSUME Differ # {} PROVE FALSE
  BY <1>1
<1>3. PICK s \in Differ : \A t \in Differ : t \subseteq s => t = s
  BY <1>2, MinimalSubset
<1>4. s # {}
  BY <1>1, <1>3 DEF Visits
<1>5. last[s] \in s
  BY <1>1, <1>4 DEF LastIn
<1>6. PICK t \in (SUBSET A) \cap (SUBSET B) : t = s \ {last[s]}
  BY <1>1
<1>7. g[t] = h[t]
  BY <1>1, <1>3, <1>5, <1>6
<1>8. g[s] = step[g[t]][last[s]] /\ h[s] = step[h[t]][last[s]]
  BY <1>1, <1>3, <1>4, <1>6 DEF Visits
<1> QED BY <1>1, <1>3, <1>7, <1>8

(* On the subsets of a finite set there is such a function.                 *)
LEMMA VisitsExist ==
    ASSUME NEW start, NEW step, NEW last, NEW S, IsFiniteSet(S), LastIn(last, S)
    PROVE  Visits(start, step, last, SUBSET S, Visited(start, step, last, S))
<1> DEFINE Of(V) == Visited(start, step, last, V)
           Is(V) == Visits(start, step, last, SUBSET V, Of(V))
<1>1. PICK Missing \in SUBSET SUBSET S : Missing = {U \in SUBSET S : ~ Is(U)}
  OBVIOUS
<1>2. SUFFICES ASSUME Missing # {} PROVE FALSE
  BY <1>1
<1>3. PICK U \in Missing : \A V \in Missing : V \subseteq U => V = U
  BY <1>2, MinimalSubset
<1>4. \A V \in SUBSET U : IsFiniteSet(V) /\ LastIn(last, V) /\ (V # U => Is(V))
  BY <1>1, <1>3, FS_Subset DEF LastIn
<1>5. PICK h : h = [s \in SUBSET U |-> IF s = {} THEN start
                       ELSE step[Of(s \ {last[s]})[s \ {last[s]}]][last[s]]]
  OBVIOUS
<1>6. ASSUME NEW t \in SUBSET U, t # U PROVE h[t] = Of(t)[t]
  <2>1. CASE t = {}
    <3>1. Visits(start, step, last, SUBSET t, Of(t)) /\ t \in SUBSET t
      BY <1>4, <1>6
    <3>2. Of(t)[t] = start
      <4> HIDE DEF Of
      <4> QED BY <2>1, <3>1 DEF Visits
    <3> QED BY <1>5, <2>1, <3>2
  <2>2. CASE t # {}
    <3>1. PICK v \in SUBSET t : v = t \ {last[t]}
      OBVIOUS
    <3>2. last[t] \in t /\ v # U /\ v \in SUBSET U /\ v \in SUBSET v
      BY <1>4, <1>6, <2>2, <3>1 DEF LastIn
    <3>3. Is(t) /\ Is(v)
      BY <1>4, <1>6, <3>2
    <3>4. \A s \in (SUBSET t) \cap (SUBSET v) : Of(t)[s] = Of(v)[s]
      <4>1. IsFiniteSet(t) /\ LastIn(last, t)
        BY <1>4
      <4> HIDE DEF Of
      <4> QED BY <3>3, <4>1, VisitsUnique
    <3>5. Of(t)[t] = step[Of(t)[v]][last[t]]
      <4> HIDE DEF Of
      <4> QED BY <2>2, <3>1, <3>3 DEF Visits
    <3>6. h[t] = step[Of(v)[v]][last[t]]
      BY <1>5, <2>2, <3>1
    <3> QED BY <3>1, <3>4, <3>5, <3>6
  <2> QED BY <2>1, <2>2
<1>7. ASSUME NEW s \in SUBSET U, s # {}
      PROVE  h[s] = step[h[s \ {last[s]}]][last[s]]
  <2>1. PICK t \in SUBSET U : t = s \ {last[s]}
    OBVIOUS
  <2>2. t # U
    BY <1>4, <1>7, <2>1 DEF LastIn
  <2>3. h[t] = Of(t)[t]
    BY <1>6, <2>2
  <2>4. h[s] = step[Of(t)[t]][last[s]]
    BY <1>5, <1>7, <2>1
  <2> QED BY <2>1, <2>3, <2>4
<1>8. Visits(start, step, last, SUBSET U, h)
  BY <1>5, <1>7 DEF Visits
<1>9. Is(U)
  BY <1>8 DEF Visited
<1> QED BY <1>1, <1>3, <1>9

-----------------------------------------------------------------------------
(* The orders of the loops.                                                 *)

LEMMA LocationsFinite == IsFiniteSet(Locations)
BY LocationsAssumption

Ranks(rank) ==
    /\ \A l \in Locations : rank[l] \in Int
    /\ \A l, m \in Locations : rank[l] = rank[m] => l = m

LEMMA TheRanks == Ranks(ById) /\ Ranks(ShowroomFirst)
BY LocationsAssumption DEF Ranks, ById, ShowroomFirst

LEMMA LastLocation ==
    ASSUME NEW rank, Ranks(rank), NEW S \in SUBSET Locations, S # {}
    PROVE  /\ LastOf(rank, S) \in S
           /\ \A m \in S \ {LastOf(rank, S)} : rank[m] < rank[LastOf(rank, S)]
<1>1. PICK pre : pre = [l \in Locations |-> {m \in Locations : rank[m] < rank[l]}]
  OBVIOUS
<1>2. StrictOrder(pre, Locations)
  BY <1>1 DEF Ranks, StrictOrder
<1>3. PICK l \in S : \A m \in S \ {l} : m \in pre[l]
  BY <1>2, LastElement, LocationsFinite
<1>4. \A m \in S : rank[m] <= rank[l]
  BY <1>1, <1>3 DEF Ranks
<1>5. PICK x \in S : x = LastOf(rank, S) /\ \A m \in S : rank[m] <= rank[x]
  BY <1>3, <1>4 DEF LastOf
<1>6. \A m \in S \ {x} : rank[m] < rank[x]
  BY <1>5 DEF Ranks
<1> QED BY <1>5, <1>6

(* What holds before a loop and is kept by each visit holds after it.       *)
LEMMA LoopInduction ==
    ASSUME NEW rank, Ranks(rank), NEW T \in SUBSET SUBSET Locations, {} \in T,
           \A S \in SUBSET Locations : S # {} /\ S \ {LastOf(rank, S)} \in T => S \in T
    PROVE  T = SUBSET Locations
<1>1. PICK Bad \in SUBSET SUBSET Locations : Bad = (SUBSET Locations) \ T
  OBVIOUS
<1>2. SUFFICES ASSUME Bad # {} PROVE FALSE
  BY <1>1
<1>3. PICK S \in Bad : \A t \in Bad : t \subseteq S => t = S
  BY <1>2, MinimalSubset, LocationsFinite
<1>4. S # {} /\ S \in SUBSET Locations
  BY <1>1
<1>5. LastOf(rank, S) \in S
  BY <1>4, LastLocation
<1>6. S \ {LastOf(rank, S)} \in T
  BY <1>1, <1>3, <1>4, <1>5
<1> QED BY <1>1, <1>3, <1>4, <1>6

-----------------------------------------------------------------------------
(* The states of the loops. *)
Stock(rs, n) == [rows |-> rs, remaining |-> n]
Draft(rs, n, f) == [rows |-> rs, remaining |-> n, failed |-> f]
Thrown(rs, n) == Draft(rs, n, TRUE)
Units(h, r) == [onHand |-> h, reserved |-> r]
Put(rs, l, h, r) == [rs EXCEPT ![l] = Units(h, r)]

(* What the body of each loop does to the row at l, which has h units on    *)
(* hand and r of them reserved.                                             *)
LEMMA ReserveAtIs ==
    ASSUME NEW rs \in Rows, NEW l \in Locations, NEW h \in Int, NEW r \in Int, rs[l] = Units(h, r),
           NEW n \in Int, NEW take \in Int, take = Smaller(h - r, n)
    PROVE  ReserveAt(Stock(rs, n), l) =
               IF n <= 0 \/ take <= 0 THEN Stock(rs, n)
               ELSE Stock(Put(rs, l, h, r + take), n - take)
<1>1. PICK st : st = Stock(rs, n)
  OBVIOUS
<1>2. st.rows = rs /\ st.remaining = n
  BY <1>1 DEF Stock
<1>3. PICK row : row = rs[l]
  OBVIOUS
<1>4. row.onHand = h /\ row.reserved = r
  BY <1>3 DEF Units
<1>5. Smaller(rs[l].onHand - rs[l].reserved, n) = take
  BY <1>3, <1>4, Zenon
<1>6. ReserveAt(st, l) = IF n <= 0 \/ take <= 0 THEN st
          ELSE [st EXCEPT !.rows[l].reserved = rs[l].reserved + take, !.remaining = n - take]
  BY <1>2, <1>5, Zenon DEF ReserveAt
<1>7. [st EXCEPT !.rows[l].reserved = rs[l].reserved + take, !.remaining = n - take]
          = Stock([rs EXCEPT ![l] = Units(h, r + take)], n - take)
  <2>1. PICK w : w = [st EXCEPT !.rows[l].reserved = rs[l].reserved + take]
    OBVIOUS
  <2>2. w = Stock([rs EXCEPT ![l].reserved = rs[l].reserved + take], n)
    BY <1>1, <2>1 DEF Stock
  <2>3. [rs EXCEPT ![l].reserved = rs[l].reserved + take] = [rs EXCEPT ![l] = [row EXCEPT !.reserved = row.reserved + take]]
    BY <1>3
  <2>4. [row EXCEPT !.reserved = row.reserved + take] = Units(h, r + take)
    BY <1>3, <1>4 DEF Units
  <2>5. w = Stock([rs EXCEPT ![l] = Units(h, r + take)], n)
    BY <2>2, <2>3, <2>4, Zenon
  <2>6. [w EXCEPT !.remaining = n - take] = Stock([rs EXCEPT ![l] = Units(h, r + take)], n - take)
    BY <2>5 DEF Stock
  <2>7. [st EXCEPT !.rows[l].reserved = rs[l].reserved + take, !.remaining = n - take]
            = [w EXCEPT !.remaining = n - take]
    BY <2>1
  <2> QED BY <2>6, <2>7, Zenon
<1> QED BY <1>1, <1>6, <1>7, Zenon DEF Put

LEMMA TakeReservedIs ==
    ASSUME NEW rs \in Rows, NEW l \in Locations, NEW h \in Int, NEW r \in Int, rs[l] = Units(h, r),
           NEW n \in Int, NEW w \in Int, w = held[l], NEW take \in Int, take = Smaller(w, n),
           NEW f \in BOOLEAN
    PROVE  TakeReserved(Draft(rs, n, f), l) =
               IF f \/ n <= 0 \/ w = 0 THEN Draft(rs, n, f)
               ELSE IF h < take \/ r < take THEN Thrown(rs, n)
               ELSE Draft(Put(rs, l, h - take, r - take), n - take, f)
<1>1. PICK st : st = Draft(rs, n, f)
  OBVIOUS
<1>2. st.rows = rs /\ st.remaining = n /\ st.failed = f
  BY <1>1 DEF Draft
<1>3. rs[l].onHand = h /\ rs[l].reserved = r
  BY DEF Units
<1>4. PICK new : new = Units(rs[l].onHand - take, rs[l].reserved - take)
  OBVIOUS
<1>9. Smaller(held[l], n) = take
  BY Zenon
<1>5. TakeReserved(st, l) = IF f \/ n <= 0 \/ w = 0 THEN st
          ELSE IF rs[l].onHand < take \/ rs[l].reserved < take THEN [st EXCEPT !.failed = TRUE]
          ELSE [st EXCEPT !.rows[l] = new, !.remaining = n - take]
  BY <1>2, <1>4, <1>9, Zenon DEF TakeReserved, Units
<1>6. [st EXCEPT !.rows[l] = new, !.remaining = n - take] = Draft([rs EXCEPT ![l] = new], n - take, f)
  <2>1. PICK st1 : st1 = [st EXCEPT !.rows[l] = new]
    OBVIOUS
  <2>2. st1 = Draft([rs EXCEPT ![l] = new], n, f)
    BY <1>1, <2>1 DEF Draft
  <2>3. [st1 EXCEPT !.remaining = n - take] = Draft([rs EXCEPT ![l] = new], n - take, f)
    BY <2>2 DEF Draft
  <2>4. [st EXCEPT !.rows[l] = new, !.remaining = n - take] = [st1 EXCEPT !.remaining = n - take]
    BY <2>1
  <2> QED BY <2>3, <2>4, Zenon
<1>7. [st EXCEPT !.failed = TRUE] = Thrown(rs, n)
  <2>1. \A g : [st EXCEPT !.failed = g] = Draft(rs, n, g)
    BY <1>1 DEF Draft
  <2> QED BY <2>1 DEF Thrown
<1>8. TakeReserved(st, l) = IF f \/ n <= 0 \/ w = 0 THEN st
          ELSE IF rs[l].onHand < take \/ rs[l].reserved < take THEN Thrown(rs, n)
          ELSE Draft([rs EXCEPT ![l] = new], n - take, f)
  BY <1>5, <1>6, <1>7, Zenon
<1> QED BY <1>1, <1>3, <1>4, <1>8, Zenon DEF Put

LEMMA TakeFreeIs ==
    ASSUME NEW rs \in Rows, NEW l \in Locations, NEW h \in Int, NEW r \in Int, rs[l] = Units(h, r),
           NEW n \in Int, NEW take \in Int, take = Smaller(h - r, n),
           NEW f \in BOOLEAN
    PROVE  TakeFree(Draft(rs, n, f), l) =
               IF f \/ n <= 0 \/ take <= 0 THEN Draft(rs, n, f)
               ELSE Draft(Put(rs, l, h - take, r), n - take, f)
<1>1. PICK st : st = Draft(rs, n, f)
  OBVIOUS
<1>2. st.rows = rs /\ st.remaining = n /\ st.failed = f
  BY <1>1 DEF Draft
<1>3. PICK row : row = rs[l]
  OBVIOUS
<1>4. row.onHand = h /\ row.reserved = r
  BY <1>3 DEF Units
<1>5. Smaller(rs[l].onHand - rs[l].reserved, n) = take
  BY <1>3, <1>4, Zenon
<1>6. TakeFree(st, l) = IF f \/ n <= 0 \/ take <= 0 THEN st
          ELSE [st EXCEPT !.rows[l].onHand = rs[l].onHand - take, !.remaining = n - take]
  BY <1>2, <1>5, Zenon DEF TakeFree
<1>7. [st EXCEPT !.rows[l].onHand = rs[l].onHand - take, !.remaining = n - take]
          = Draft([rs EXCEPT ![l] = Units(h - take, r)], n - take, f)
  <2>1. PICK w : w = [st EXCEPT !.rows[l].onHand = rs[l].onHand - take]
    OBVIOUS
  <2>2. w = Draft([rs EXCEPT ![l].onHand = rs[l].onHand - take], n, f)
    BY <1>1, <2>1 DEF Draft
  <2>3. [rs EXCEPT ![l].onHand = rs[l].onHand - take] = [rs EXCEPT ![l] = [row EXCEPT !.onHand = row.onHand - take]]
    BY <1>3
  <2>4. [row EXCEPT !.onHand = row.onHand - take] = Units(h - take, r)
    BY <1>3, <1>4 DEF Units
  <2>5. w = Draft([rs EXCEPT ![l] = Units(h - take, r)], n, f)
    BY <2>2, <2>3, <2>4, Zenon
  <2>6. [w EXCEPT !.remaining = n - take] = Draft([rs EXCEPT ![l] = Units(h - take, r)], n - take, f)
    BY <2>5 DEF Draft
  <2>7. [st EXCEPT !.rows[l].onHand = rs[l].onHand - take, !.remaining = n - take]
            = [w EXCEPT !.remaining = n - take]
    BY <2>1
  <2> QED BY <2>6, <2>7, Zenon
<1> QED BY <1>1, <1>6, <1>7, Zenon DEF Put

-----------------------------------------------------------------------------
(* Each loop unfolds: the state after a set of locations is the body of the *)
(* loop at the last of them on the state after the others.                  *)

Stocks == [rows : Rows, remaining : Int]
Drafts == [rows : Rows, remaining : Int, failed : BOOLEAN]

LEMMA RowUnits ==
    ASSUME NEW rs \in Rows, NEW l \in Locations
    PROVE  \E h \in Int, r \in Int : rs[l] = Units(h, r)
<1>1. PICK row \in Row : row = rs[l]
  BY DEF Rows
<1>2. row.onHand \in Int /\ row.reserved \in Int /\ row = Units(row.onHand, row.reserved)
  BY DEF Row, Units
<1> QED BY <1>1, <1>2

LEMMA PutRow ==
    ASSUME NEW rs \in Rows, NEW l \in Locations, NEW h \in Int, NEW r \in Int
    PROVE  Put(rs, l, h, r) \in Rows
<1>1. PICK u \in Row : u = Units(h, r)
  BY DEF Units, Row
<1>2. [rs EXCEPT ![l] = u] \in Rows
  BY DEF Rows
<1> QED BY <1>1, <1>2 DEF Put

LEMMA StocksAre ==
    /\ \A rs \in Rows, n \in Int : Stock(rs, n) \in Stocks
    /\ \A st \in Stocks : \E rs \in Rows, n \in Int : st = Stock(rs, n)
<1>1. ASSUME NEW st \in Stocks
      PROVE  \E rs \in Rows, n \in Int : st = Stock(rs, n)
  <2>1. st = Stock(st.rows, st.remaining) /\ st.rows \in Rows /\ st.remaining \in Int
    BY DEF Stocks, Stock
  <2> QED BY <2>1
<1>2. \A rs \in Rows, n \in Int : Stock(rs, n) \in Stocks
  BY DEF Stocks, Stock
<1> QED BY <1>1, <1>2

LEMMA DraftsAre ==
    /\ \A rs \in Rows, n \in Int, f \in BOOLEAN : Draft(rs, n, f) \in Drafts
    /\ \A st \in Drafts : \E rs \in Rows, n \in Int, f \in BOOLEAN : st = Draft(rs, n, f)
<1>1. ASSUME NEW st \in Drafts
      PROVE  \E rs \in Rows, n \in Int, f \in BOOLEAN : st = Draft(rs, n, f)
  <2>1. st = Draft(st.rows, st.remaining, st.failed)
    BY DEF Drafts, Draft
  <2>2. st.rows \in Rows /\ st.remaining \in Int /\ st.failed \in BOOLEAN
    BY DEF Drafts
  <2> QED BY <2>1, <2>2
<1>2. \A rs \in Rows, n \in Int, f \in BOOLEAN : Draft(rs, n, f) \in Drafts
  BY DEF Drafts, Draft
<1> QED BY <1>1, <1>2

LEMMA SmallerInt == ASSUME NEW a \in Int, NEW b \in Int PROVE Smaller(a, b) \in Int
BY DEF Smaller

LEMMA ReserveAtStock ==
    ASSUME NEW st \in Stocks, NEW l \in Locations PROVE ReserveAt(st, l) \in Stocks
<1>1. PICK rs \in Rows, n \in Int : st = Stock(rs, n)
  BY StocksAre
<1>2. PICK h \in Int, r \in Int : rs[l] = Units(h, r)
  BY RowUnits
<1>3. PICK take \in Int : take = Smaller(h - r, n)
  BY SmallerInt
<1>4. PICK new \in Rows : new = Put(rs, l, h, r + take)
  BY PutRow
<1>5. ReserveAt(Stock(rs, n), l) =
          IF n <= 0 \/ take <= 0 THEN Stock(rs, n) ELSE Stock(Put(rs, l, h, r + take), n - take)
  BY <1>2, <1>3, ReserveAtIs
<1>6. Stock(new, n - take) \in Stocks
  BY StocksAre
<1> QED BY <1>1, <1>4, <1>5, <1>6, Zenon

LEMMA ThrownIn == ASSUME NEW rs \in Rows, NEW n \in Int PROVE Thrown(rs, n) \in Drafts
BY DEF Thrown, Draft, Drafts

LEMMA TakeReservedDraft ==
    ASSUME held \in Quantities, NEW st \in Drafts, NEW l \in Locations
    PROVE  TakeReserved(st, l) \in Drafts
<1>1. PICK rs \in Rows, n \in Int, f \in BOOLEAN : st = Draft(rs, n, f)
  BY DraftsAre
<1>2. PICK h \in Int, r \in Int : rs[l] = Units(h, r)
  BY RowUnits
<1>8. PICK w \in Int : w = held[l]
  BY DEF Quantities
<1>3. PICK take \in Int : take = Smaller(w, n)
  BY SmallerInt
<1>4. PICK new \in Rows : new = Put(rs, l, h - take, r - take)
  BY PutRow
<1>5. TakeReserved(Draft(rs, n, f), l) =
          IF f \/ n <= 0 \/ w = 0 THEN Draft(rs, n, f)
          ELSE IF h < take \/ r < take THEN Thrown(rs, n)
          ELSE Draft(Put(rs, l, h - take, r - take), n - take, f)
  BY <1>2, <1>3, <1>8, TakeReservedIs
<1>6. Draft(new, n - take, f) \in Drafts
  BY DraftsAre
<1>7. Thrown(rs, n) \in Drafts
  BY ThrownIn
<1> QED BY <1>1, <1>4, <1>5, <1>6, <1>7, Zenon

LEMMA TakeFreeDraft ==
    ASSUME NEW st \in Drafts, NEW l \in Locations PROVE TakeFree(st, l) \in Drafts
<1>1. PICK rs \in Rows, n \in Int, f \in BOOLEAN : st = Draft(rs, n, f)
  BY DraftsAre
<1>2. PICK h \in Int, r \in Int : rs[l] = Units(h, r)
  BY RowUnits
<1>3. PICK take \in Int : take = Smaller(h - r, n)
  BY SmallerInt
<1>4. PICK new \in Rows : new = Put(rs, l, h - take, r)
  BY PutRow
<1>5. TakeFree(Draft(rs, n, f), l) =
          IF f \/ n <= 0 \/ take <= 0 THEN Draft(rs, n, f)
          ELSE Draft(Put(rs, l, h - take, r), n - take, f)
  BY <1>2, <1>3, TakeFreeIs
<1>6. Draft(new, n - take, f) \in Drafts
  BY DraftsAre
<1> QED BY <1>1, <1>4, <1>5, <1>6, Zenon

Reserving(start, rank) == Loop(ReserveAt, start, rank)
TakingReserved(start, rank) == Loop(TakeReserved, start, rank)
TakingFree(start, rank) == Loop(TakeFree, start, rank)

(* g is the states of such a loop after each set of locations.              *)
ReserveRun(start, rank, g) ==
    /\ g[{}] = start
    /\ \A s \in SUBSET Locations : s # {} =>
          g[s] = ReserveAt(g[s \ {LastOf(rank, s)}], LastOf(rank, s))
TakeReservedRun(start, rank, g) ==
    /\ g[{}] = start
    /\ \A s \in SUBSET Locations : s # {} =>
          g[s] = TakeReserved(g[s \ {LastOf(rank, s)}], LastOf(rank, s))
TakeFreeRun(start, rank, g) ==
    /\ g[{}] = start
    /\ \A s \in SUBSET Locations : s # {} =>
          g[s] = TakeFree(g[s \ {LastOf(rank, s)}], LastOf(rank, s))

LEMMA ReserveLoop ==
    ASSUME NEW start \in Stocks, NEW rank, Ranks(rank)
    PROVE  \E g : Reserving(start, rank) = g[Locations] /\ ReserveRun(start, rank, g)
<1>1. PICK step : step = [st \in Stocks |-> [l \in Locations |-> ReserveAt(st, l)]]
  OBVIOUS
<1>2. PICK last : last = [s \in SUBSET Locations |-> LastOf(rank, s)]
  OBVIOUS
<1>3. LastIn(last, Locations)
  BY <1>2, LastLocation DEF LastIn
<1>4. PICK g : Visits(start, step, last, SUBSET Locations, g)
  BY <1>3, VisitsExist, LocationsFinite
<1>5. \A s \in SUBSET Locations : g[s] \in Stocks
  <2>1. PICK T \in SUBSET SUBSET Locations : T = {s \in SUBSET Locations : g[s] \in Stocks}
    OBVIOUS
  <2>2. {} \in T
    BY <1>4, <2>1 DEF Visits
  <2>3. ASSUME NEW s \in SUBSET Locations, s # {}, s \ {LastOf(rank, s)} \in T PROVE s \in T
    <3>1. PICK l \in Locations : l = LastOf(rank, s) /\ l = last[s]
      BY <1>2, <1>3, <2>3 DEF LastIn
    <3>2. PICK t \in SUBSET Locations : t = s \ {l} /\ g[t] \in Stocks
      BY <2>1, <2>3, <3>1
    <3>3. g[s] = step[g[t]][l]
      BY <1>4, <2>3, <3>1, <3>2 DEF Visits
    <3>4. g[s] \in Stocks
      BY <1>1, <3>2, <3>3, ReserveAtStock
    <3> QED BY <2>1, <3>4
  <2> QED BY <2>1, <2>2, <2>3, LoopInduction
<1>6. ASSUME NEW s \in SUBSET Locations, s # {}
      PROVE  g[s] = ReserveAt(g[s \ {LastOf(rank, s)}], LastOf(rank, s))
  <2>1. PICK l \in Locations : l = LastOf(rank, s) /\ l = last[s]
    BY <1>2, <1>3, <1>6 DEF LastIn
  <2>2. PICK t \in SUBSET Locations : t = s \ {l}
    OBVIOUS
  <2>3. g[s] = step[g[t]][l] /\ g[t] \in Stocks
    BY <1>4, <1>5, <1>6, <2>1, <2>2 DEF Visits
  <2>4. g[s] = ReserveAt(g[t], l)
    BY <1>1, <2>3
  <2> QED BY <2>1, <2>2, <2>4
<1> DEFINE Runs(f) ==
        f = [s \in SUBSET Locations |->
                IF s = {} THEN start
                ELSE ReserveAt(f[s \ {LastOf(rank, s)}], LastOf(rank, s))]
<1>7. Runs(g)
  <2>1. g = [s \in SUBSET Locations |-> g[s]] /\ g[{}] = start
    BY <1>4 DEF Visits
  <2> QED BY <1>6, <2>1
<1>8. PICK h : h = CHOOSE f : Runs(f)
  OBVIOUS
<1>9. Runs(h)
  <2> HIDE DEF Runs
  <2> QED BY <1>7, <1>8
<1>10. Reserving(start, rank) = h[Locations]
  BY <1>8, Zenon DEF Reserving, Loop, MapThenFoldSet
<1> QED BY <1>9, <1>10 DEF ReserveRun

LEMMA TakeReservedLoop ==
    ASSUME held \in Quantities, NEW start \in Drafts, NEW rank, Ranks(rank)
    PROVE  \E g : TakingReserved(start, rank) = g[Locations] /\ TakeReservedRun(start, rank, g)
<1>1. PICK step : step = [st \in Drafts |-> [l \in Locations |-> TakeReserved(st, l)]]
  OBVIOUS
<1>2. PICK last : last = [s \in SUBSET Locations |-> LastOf(rank, s)]
  OBVIOUS
<1>3. LastIn(last, Locations)
  BY <1>2, LastLocation DEF LastIn
<1>4. PICK g : Visits(start, step, last, SUBSET Locations, g)
  BY <1>3, VisitsExist, LocationsFinite
<1>5. \A s \in SUBSET Locations : g[s] \in Drafts
  <2>1. PICK T \in SUBSET SUBSET Locations : T = {s \in SUBSET Locations : g[s] \in Drafts}
    OBVIOUS
  <2>2. {} \in T
    BY <1>4, <2>1 DEF Visits
  <2>3. ASSUME NEW s \in SUBSET Locations, s # {}, s \ {LastOf(rank, s)} \in T PROVE s \in T
    <3>1. PICK l \in Locations : l = LastOf(rank, s) /\ l = last[s]
      BY <1>2, <1>3, <2>3 DEF LastIn
    <3>2. PICK t \in SUBSET Locations : t = s \ {l} /\ g[t] \in Drafts
      BY <2>1, <2>3, <3>1
    <3>3. g[s] = step[g[t]][l]
      BY <1>4, <2>3, <3>1, <3>2 DEF Visits
    <3>4. g[s] \in Drafts
      BY <1>1, <3>2, <3>3, TakeReservedDraft
    <3> QED BY <2>1, <3>4
  <2> QED BY <2>1, <2>2, <2>3, LoopInduction
<1>6. ASSUME NEW s \in SUBSET Locations, s # {}
      PROVE  g[s] = TakeReserved(g[s \ {LastOf(rank, s)}], LastOf(rank, s))
  <2>1. PICK l \in Locations : l = LastOf(rank, s) /\ l = last[s]
    BY <1>2, <1>3, <1>6 DEF LastIn
  <2>2. PICK t \in SUBSET Locations : t = s \ {l}
    OBVIOUS
  <2>3. g[s] = step[g[t]][l] /\ g[t] \in Drafts
    BY <1>4, <1>5, <1>6, <2>1, <2>2 DEF Visits
  <2>4. g[s] = TakeReserved(g[t], l)
    BY <1>1, <2>3
  <2> QED BY <2>1, <2>2, <2>4
<1> DEFINE Runs(f) ==
        f = [s \in SUBSET Locations |->
                IF s = {} THEN start
                ELSE TakeReserved(f[s \ {LastOf(rank, s)}], LastOf(rank, s))]
<1>7. Runs(g)
  <2>1. g = [s \in SUBSET Locations |-> g[s]] /\ g[{}] = start
    BY <1>4 DEF Visits
  <2> QED BY <1>6, <2>1
<1>8. PICK h : h = CHOOSE f : Runs(f)
  OBVIOUS
<1>9. Runs(h)
  <2> HIDE DEF Runs
  <2> QED BY <1>7, <1>8
<1>10. TakingReserved(start, rank) = h[Locations]
  BY <1>8, Zenon DEF TakingReserved, Loop, MapThenFoldSet
<1> QED BY <1>9, <1>10 DEF TakeReservedRun

LEMMA TakeFreeLoop ==
    ASSUME NEW start \in Drafts, NEW rank, Ranks(rank)
    PROVE  \E g : TakingFree(start, rank) = g[Locations] /\ TakeFreeRun(start, rank, g)
<1>1. PICK step : step = [st \in Drafts |-> [l \in Locations |-> TakeFree(st, l)]]
  OBVIOUS
<1>2. PICK last : last = [s \in SUBSET Locations |-> LastOf(rank, s)]
  OBVIOUS
<1>3. LastIn(last, Locations)
  BY <1>2, LastLocation DEF LastIn
<1>4. PICK g : Visits(start, step, last, SUBSET Locations, g)
  BY <1>3, VisitsExist, LocationsFinite
<1>5. \A s \in SUBSET Locations : g[s] \in Drafts
  <2>1. PICK T \in SUBSET SUBSET Locations : T = {s \in SUBSET Locations : g[s] \in Drafts}
    OBVIOUS
  <2>2. {} \in T
    BY <1>4, <2>1 DEF Visits
  <2>3. ASSUME NEW s \in SUBSET Locations, s # {}, s \ {LastOf(rank, s)} \in T PROVE s \in T
    <3>1. PICK l \in Locations : l = LastOf(rank, s) /\ l = last[s]
      BY <1>2, <1>3, <2>3 DEF LastIn
    <3>2. PICK t \in SUBSET Locations : t = s \ {l} /\ g[t] \in Drafts
      BY <2>1, <2>3, <3>1
    <3>3. g[s] = step[g[t]][l]
      BY <1>4, <2>3, <3>1, <3>2 DEF Visits
    <3>4. g[s] \in Drafts
      BY <1>1, <3>2, <3>3, TakeFreeDraft
    <3> QED BY <2>1, <3>4
  <2> QED BY <2>1, <2>2, <2>3, LoopInduction
<1>6. ASSUME NEW s \in SUBSET Locations, s # {}
      PROVE  g[s] = TakeFree(g[s \ {LastOf(rank, s)}], LastOf(rank, s))
  <2>1. PICK l \in Locations : l = LastOf(rank, s) /\ l = last[s]
    BY <1>2, <1>3, <1>6 DEF LastIn
  <2>2. PICK t \in SUBSET Locations : t = s \ {l}
    OBVIOUS
  <2>3. g[s] = step[g[t]][l] /\ g[t] \in Drafts
    BY <1>4, <1>5, <1>6, <2>1, <2>2 DEF Visits
  <2>4. g[s] = TakeFree(g[t], l)
    BY <1>1, <2>3
  <2> QED BY <2>1, <2>2, <2>4
<1> DEFINE Runs(f) ==
        f = [s \in SUBSET Locations |->
                IF s = {} THEN start
                ELSE TakeFree(f[s \ {LastOf(rank, s)}], LastOf(rank, s))]
<1>7. Runs(g)
  <2>1. g = [s \in SUBSET Locations |-> g[s]] /\ g[{}] = start
    BY <1>4 DEF Visits
  <2> QED BY <1>6, <2>1
<1>8. PICK h : h = CHOOSE f : Runs(f)
  OBVIOUS
<1>9. Runs(h)
  <2> HIDE DEF Runs
  <2> QED BY <1>7, <1>8
<1>10. TakingFree(start, rank) = h[Locations]
  BY <1>8, Zenon DEF TakingFree, Loop, MapThenFoldSet
<1> QED BY <1>9, <1>10 DEF TakeFreeRun

(* What a loop has taken once it has been at the locations of S, if it may  *)
(* take cap[l] at each, and what it still wants of n.                       *)
Clipped(cap, wanted) == IF wanted <= 0 THEN 0 ELSE IF cap <= wanted THEN cap ELSE wanted
Before(rank, S, l) == {m \in S : rank[m] < rank[l]}
Taken(cap, n, rank, S) ==
    [l \in Locations |->
        IF l \in S THEN Clipped(cap[l], n - SumFunctionOnSet(cap, Before(rank, S, l))) ELSE 0]
Left(cap, n, S) ==
    IF SumFunctionOnSet(cap, S) <= n THEN n - SumFunctionOnSet(cap, S) ELSE 0

LEMMA CapSum ==
    ASSUME NEW cap \in Quantities, NEW S \in SUBSET Locations
    PROVE  SumFunctionOnSet(cap, S) \in Nat
<1>1. \A l \in Locations : cap[l] \in Nat
  BY DEF Quantities
<1>2. IsFiniteSet(Locations)
  BY LocationsFinite
<1> QED BY <1>1, <1>2, SumOfSome

LEMMA TakenTypes ==
    ASSUME NEW cap \in Quantities, NEW n \in Nat, NEW rank, NEW S \in SUBSET Locations
    PROVE  /\ Left(cap, n, S) \in Nat /\ Left(cap, n, S) <= n
           /\ \A l \in Locations : /\ Taken(cap, n, rank, S)[l] \in Nat
                                   /\ Taken(cap, n, rank, S)[l] <= cap[l]
                                   /\ Taken(cap, n, rank, S)[l] <= n
<1>1. PICK sum \in Nat : sum = SumFunctionOnSet(cap, S)
  BY CapSum
<1>2. Left(cap, n, S) \in Nat /\ Left(cap, n, S) <= n
  BY <1>1 DEF Left
<1>3. ASSUME NEW l \in Locations
      PROVE  /\ Taken(cap, n, rank, S)[l] \in Nat
             /\ Taken(cap, n, rank, S)[l] <= cap[l]
             /\ Taken(cap, n, rank, S)[l] <= n
  <2>1. PICK c \in Nat : c = cap[l]
    BY DEF Quantities
  <2>2. PICK P \in SUBSET Locations : P = Before(rank, S, l)
    BY DEF Before
  <2>3. PICK before \in Nat : before = SumFunctionOnSet(cap, P)
    BY CapSum
  <2>4. Taken(cap, n, rank, S)[l] = IF l \in S THEN Clipped(c, n - before) ELSE 0
    BY <2>1, <2>2, <2>3, Zenon DEF Taken
  <2>5. Clipped(c, n - before) \in Nat /\ Clipped(c, n - before) <= c /\ Clipped(c, n - before) <= n
    BY DEF Clipped
  <2> QED BY <2>1, <2>4, <2>5
<1> QED BY <1>2, <1>3

(* The visit of the last location of S.                                     *)
LEMMA TakenStep ==
    ASSUME NEW cap \in Quantities, NEW n \in Nat, NEW rank, Ranks(rank),
           NEW S \in SUBSET Locations, S # {}, NEW l \in S, l = LastOf(rank, S),
           NEW T \in SUBSET Locations, T = S \ {l}
    PROVE  LET left == Left(cap, n, T)
               take == IF cap[l] <= left THEN cap[l] ELSE left
           IN  /\ Taken(cap, n, rank, S)[l] = take
               /\ Taken(cap, n, rank, T)[l] = 0
               /\ \A m \in Locations \ {l} : Taken(cap, n, rank, S)[m] = Taken(cap, n, rank, T)[m]
               /\ Left(cap, n, S) = left - take
<1>1. PICK sum \in Nat : sum = SumFunctionOnSet(cap, T)
  BY CapSum
<1>2. PICK c \in Nat : c = cap[l]
  BY DEF Quantities
<1>3. \A m \in S \ {l} : rank[m] < rank[l]
  BY LastLocation
<1>4. \A m \in S : rank[m] \in Int
  BY DEF Ranks
<1>5. SumFunctionOnSet(cap, S) = c + sum
  <2>1. IsFiniteSet(S) /\ \A m \in S : cap[m] \in Int
    BY LocationsFinite, FS_Subset DEF Quantities
  <2>2. SumFunctionOnSet(cap, S) = cap[l] + SumFunctionOnSet(cap, S \ {l})
    BY <2>1, SumRemove
  <2> QED BY <1>1, <1>2, <2>2
<1>6. Left(cap, n, T) = (IF sum <= n THEN n - sum ELSE 0) /\ Left(cap, n, S) = (IF c + sum <= n THEN n - (c + sum) ELSE 0)
  BY <1>1, <1>5 DEF Left
<1>7. Taken(cap, n, rank, S)[l] = Clipped(c, n - sum)
  <2>1. Before(rank, S, l) = T
    BY <1>3, <1>4 DEF Before
  <2> QED BY <1>1, <1>2, <2>1 DEF Taken
<1>8. Taken(cap, n, rank, T)[l] = 0
  BY DEF Taken
<1>9. ASSUME NEW m \in Locations \ {l} PROVE Taken(cap, n, rank, S)[m] = Taken(cap, n, rank, T)[m]
  <2>1. CASE m \in T
    <3>1. Before(rank, S, m) = Before(rank, T, m)
      BY <1>3, <1>4, <2>1 DEF Before
    <3>2. m \in S
      BY <2>1
    <3>3. /\ Taken(cap, n, rank, S)[m] = Clipped(cap[m], n - SumFunctionOnSet(cap, Before(rank, S, m)))
          /\ Taken(cap, n, rank, T)[m] = Clipped(cap[m], n - SumFunctionOnSet(cap, Before(rank, T, m)))
      BY <2>1, <3>2 DEF Taken
    <3> QED BY <3>1, <3>3, Zenon
  <2>2. CASE m \notin T
    BY <2>2 DEF Taken
  <2> QED BY <2>1, <2>2
<1> QED BY <1>1, <1>2, <1>6, <1>7, <1>8, <1>9 DEF Clipped

LEMMA NothingTaken ==
    ASSUME NEW cap \in Quantities, NEW n \in Nat, NEW rank
    PROVE  Taken(cap, n, rank, {}) = NoQuantities /\ Left(cap, n, {}) = n
<1>1. SumFunctionOnSet(cap, {}) = 0
  BY SumEmpty
<1> QED BY <1>1 DEF Taken, NoQuantities, Left

(* What was taken and what is left make up what was wanted.                 *)
LEMMA TakenTotal ==
    ASSUME NEW cap \in Quantities, NEW n \in Nat, NEW rank, Ranks(rank)
    PROVE  Total(Taken(cap, n, rank, Locations)) = n - Left(cap, n, Locations)
<1>1. PICK D \in SUBSET SUBSET Locations :
          D = {S \in SUBSET Locations : Total(Taken(cap, n, rank, S)) = n - Left(cap, n, S)}
  OBVIOUS
<1>2. {} \in D
  <2>1. PICK zero : zero = Taken(cap, n, rank, {})
    OBVIOUS
  <2>2. \A l \in Locations : zero[l] = 0
    BY <2>1 DEF Taken
  <2>3. SumFunctionOnSet(zero, Locations) = 0
    BY <2>2, SumZero, LocationsFinite
  <2> QED BY <1>1, <2>1, <2>3, NothingTaken DEF Total
<1>3. ASSUME NEW S \in SUBSET Locations, S # {}, S \ {LastOf(rank, S)} \in D PROVE S \in D
  <2>1. PICK l \in S : l = LastOf(rank, S)
    BY <1>3, LastLocation
  <2>2. PICK T \in SUBSET Locations : T = S \ {l} /\ T \in D
    BY <1>1, <1>3, <2>1
  <2>3. PICK f, g : f = Taken(cap, n, rank, T) /\ g = Taken(cap, n, rank, S)
    OBVIOUS
  <2>4. PICK left \in Nat, c \in Nat : left = Left(cap, n, T) /\ c = cap[l]
    BY TakenTypes DEF Quantities
  <2>5. \A m \in Locations : f[m] \in Int /\ g[m] \in Int
    BY <2>3, TakenTypes
  <2>6. /\ g[l] = IF c <= left THEN c ELSE left
        /\ f[l] = 0 /\ \A m \in Locations \ {l} : g[m] = f[m]
        /\ Left(cap, n, S) = left - (IF c <= left THEN c ELSE left)
    BY <1>3, <2>1, <2>2, <2>3, <2>4, TakenStep
  <2>7. SumFunctionOnSet(g, Locations) = SumFunctionOnSet(f, Locations) + g[l] - f[l]
    BY <2>5, <2>6, SumChange, LocationsFinite
  <2>8. SumFunctionOnSet(f, Locations) = n - left
    BY <1>1, <2>2, <2>3, <2>4 DEF Total
  <2>9. SumFunctionOnSet(g, Locations) = n - Left(cap, n, S)
    BY <2>6, <2>7, <2>8
  <2> QED BY <1>1, <2>3, <2>9 DEF Total
<1>4. Locations \in D
  BY <1>1, <1>2, <1>3, LoopInduction
<1> QED BY <1>1, <1>4

(* The one allocation that Greedy admits.                                   *)
LEMMA GreedyIs ==
    ASSUME NEW cap \in Quantities, NEW n \in 0..MaxQty, NEW rank
    PROVE  Greedy(cap, n, rank) = {Taken(cap, n, rank, Locations)}
<1>1. PICK all : all = Taken(cap, n, rank, Locations)
  OBVIOUS
<1>2. ASSUME NEW l \in Locations
      PROVE  /\ all[l] \in 0..MaxQty /\ all[l] <= cap[l]
             /\ all[l] = Clipped(cap[l], Wanted(cap, n, rank, l))
  <2>1. all[l] \in Nat /\ all[l] <= cap[l] /\ all[l] <= n
    BY <1>1, TakenTypes
  <2>2. all[l] = Clipped(cap[l], Wanted(cap, n, rank, l))
    BY <1>1 DEF Taken, Wanted, Before
  <2> QED BY <2>1, <2>2, MaxQtyAssumption
<1>3. all \in [Locations -> 0..MaxQty]
  BY <1>1, <1>2 DEF Taken
<1>4. all \in Greedy(cap, n, rank)
  BY <1>2, <1>3 DEF Greedy, Clipped
<1>5. ASSUME NEW take \in Greedy(cap, n, rank) PROVE take = all
  <2>1. take \in [Locations -> 0..MaxQty]
    BY DEF Greedy
  <2>2. \A l \in Locations : take[l] = Clipped(cap[l], Wanted(cap, n, rank, l))
    BY DEF Greedy, Clipped
  <2> QED BY <1>2, <1>3, <2>1, <2>2
<1> QED BY <1>1, <1>4, <1>5

(* Rows of counts as the loops see them.                                    *)
LEMMA CountedUnits ==
    ASSUME NEW rs \in CountedRows, NEW l \in Locations
    PROVE  \E h \in Nat, r \in Nat :
               /\ rs[l] = Units(h, r) /\ rs[l].onHand = h /\ rs[l].reserved = r
               /\ Free(rs)[l] = IF h > r THEN h - r ELSE 0
<1>1. PICK row \in [onHand : Nat, reserved : Nat] : row = rs[l]
  BY DEF CountedRows
<1>2. PICK h \in Nat, r \in Nat : h = row.onHand /\ r = row.reserved
  OBVIOUS
<1>3. row = Units(h, r)
  BY <1>1, <1>2 DEF Units
<1>4. Free(rs)[l] = IF h > r THEN h - r ELSE 0
  BY <1>1, <1>2 DEF Free
<1> QED BY <1>1, <1>2, <1>3, <1>4

LEMMA FreeCounts == ASSUME NEW rs \in CountedRows PROVE Free(rs) \in Quantities
<1>1. \A l \in Locations : Free(rs)[l] \in Nat
  <2> SUFFICES ASSUME NEW l \in Locations PROVE Free(rs)[l] \in Nat
    OBVIOUS
  <2>1. PICK h \in Nat, r \in Nat : Free(rs)[l] = IF h > r THEN h - r ELSE 0
    BY CountedUnits
  <2> QED BY <2>1
<1>2. Free(rs) = [l \in Locations |-> Free(rs)[l]]
  BY DEF Free
<1> QED BY <1>1, <1>2 DEF Quantities

(* The rows that the operators of the stock engine state, row by row.       *)
LEMMA WithReservedRows ==
    ASSUME NEW rs \in CountedRows, NEW take, \A l \in Locations : take[l] \in Nat
    PROVE  /\ WithReserved(rs, take) \in CountedRows
           /\ \A l \in Locations, h \in Nat, r \in Nat :
                 rs[l] = Units(h, r) => WithReserved(rs, take)[l] = Units(h, r + take[l])
<1>1. ASSUME NEW l \in Locations, NEW h \in Nat, NEW r \in Nat, rs[l] = Units(h, r)
      PROVE  /\ WithReserved(rs, take)[l] = Units(h, r + take[l])
             /\ WithReserved(rs, take)[l] \in [onHand : Nat, reserved : Nat]
  <2>1. PICK row : row = rs[l]
    OBVIOUS
  <2>2. row = [onHand |-> h, reserved |-> r]
    BY <1>1, <2>1 DEF Units
  <2>3. [row EXCEPT !.reserved = row.reserved + take[l]] = [onHand |-> h, reserved |-> r + take[l]]
    BY <2>2
  <2>4. WithReserved(rs, take)[l] = [row EXCEPT !.reserved = row.reserved + take[l]]
    BY <2>1 DEF WithReserved
  <2>5. WithReserved(rs, take)[l] = [onHand |-> h, reserved |-> r + take[l]]
    BY <2>3, <2>4, Zenon
  <2>6. take[l] \in Nat
    OBVIOUS
  <2> QED BY <2>5, <2>6 DEF Units
<1>2. \A l \in Locations : WithReserved(rs, take)[l] \in [onHand : Nat, reserved : Nat]
  <2> SUFFICES ASSUME NEW l \in Locations PROVE WithReserved(rs, take)[l] \in [onHand : Nat, reserved : Nat]
    OBVIOUS
  <2>1. PICK h \in Nat, r \in Nat : rs[l] = Units(h, r)
    BY CountedUnits
  <2> QED BY <1>1, <2>1
<1>3. WithReserved(rs, take) = [l \in Locations |-> WithReserved(rs, take)[l]]
  BY DEF WithReserved
<1> QED BY <1>1, <1>2, <1>3 DEF CountedRows

LEMMA ConsumedRows ==
    ASSUME NEW rs \in CountedRows, NEW fr, NEW ff
    PROVE  \A l \in Locations, h \in Nat, r \in Nat :
               rs[l] = Units(h, r) => Consumed(rs, fr, ff)[l] = Units(h - fr[l] - ff[l], r - fr[l])
<1> SUFFICES ASSUME NEW l \in Locations, NEW h \in Nat, NEW r \in Nat, rs[l] = Units(h, r)
             PROVE  Consumed(rs, fr, ff)[l] = Units(h - fr[l] - ff[l], r - fr[l])
  OBVIOUS
<1>1. rs[l].onHand = h /\ rs[l].reserved = r
  BY DEF Units
<1> QED BY <1>1 DEF Consumed, Units

LEMMA CountedAreRows == CountedRows \subseteq Rows
BY SMT DEF CountedRows, Rows, Row

LEMMA PutIs ==
    ASSUME NEW rs \in Rows, NEW l \in Locations, NEW h \in Int, NEW r \in Int, NEW new,
           new = [m \in Locations |-> new[m]], new[l] = Units(h, r),
           \A m \in Locations \ {l} : new[m] = rs[m]
    PROVE  /\ Put(rs, l, h, r) = new
           /\ rs[l] = Units(h, r) => new = rs
<1>1. PICK u : u = Units(h, r)
  OBVIOUS
<1>2. [rs EXCEPT ![l] = u] = new
  BY <1>1 DEF Rows
<1>3. rs[l] = u => new = rs
  BY <1>1 DEF Rows
<1> QED BY <1>1, <1>2, <1>3 DEF Put

LEMMA ReserveResult ==
    ASSUME NEW rs \in CountedRows, NEW n \in Nat
    PROVE  reserveBestEffort(rs, n) =
               Stock(WithReserved(rs, Taken(Free(rs), n, ShowroomFirst, Locations)),
                     Left(Free(rs), n, Locations))
<1>0. PICK rank : rank = ShowroomFirst
  OBVIOUS
<1>1. PICK cap \in Quantities : cap = Free(rs) /\ rank = ShowroomFirst /\ Ranks(rank)
  BY <1>0, FreeCounts, TheRanks
<1>2. PICK start \in Stocks : start = Stock(rs, n)
  BY StocksAre, CountedAreRows
<1>3. PICK g : Reserving(start, rank) = g[Locations] /\ ReserveRun(start, rank, g)
  BY <1>1, ReserveLoop
<1>4. reserveBestEffort(rs, n) = g[Locations]
  BY <1>1, <1>2, <1>3, Zenon DEF reserveBestEffort, Reserving, Stock
<1>5. PICK D \in SUBSET SUBSET Locations :
          D = {S \in SUBSET Locations :
                  g[S] = Stock(WithReserved(rs, Taken(cap, n, rank, S)), Left(cap, n, S))}
  OBVIOUS
<1>6. {} \in D
  <2>1. WithReserved(rs, NoQuantities) = rs
    <3>1. \A l \in Locations : NoQuantities[l] = 0
      BY DEF NoQuantities
    <3>2. ASSUME NEW l \in Locations PROVE WithReserved(rs, NoQuantities)[l] = rs[l]
      <4>1. PICK h \in Nat, r \in Nat : rs[l] = Units(h, r)
        BY CountedUnits
      <4>2. WithReserved(rs, NoQuantities)[l] = Units(h, r + NoQuantities[l])
        BY <3>1, <4>1, WithReservedRows
      <4>3. r + NoQuantities[l] = r
        BY <3>1
      <4> QED BY <4>1, <4>2, <4>3, Zenon
    <3>3. WithReserved(rs, NoQuantities) \in CountedRows
      BY <3>1, WithReservedRows
    <3> QED BY <3>2, <3>3 DEF CountedRows
  <2>2. Taken(cap, n, rank, {}) = NoQuantities /\ Left(cap, n, {}) = n
    BY NothingTaken
  <2>3. g[{}] = Stock(WithReserved(rs, Taken(cap, n, rank, {})), Left(cap, n, {}))
    BY <1>2, <1>3, <2>1, <2>2, Zenon DEF ReserveRun
  <2> QED BY <1>5, <2>3
<1>7. ASSUME NEW S \in SUBSET Locations, S # {}, S \ {LastOf(rank, S)} \in D PROVE S \in D
  <2>1. PICK l \in S : l = LastOf(rank, S)
    BY <1>1, <1>7, LastLocation
  <2>2. PICK T \in SUBSET Locations : T = S \ {l} /\ T \in D
    BY <1>5, <1>7, <2>1
  <2>3. PICK f, t : f = Taken(cap, n, rank, T) /\ t = Taken(cap, n, rank, S)
    OBVIOUS
  <2>4. PICK left \in Nat : left = Left(cap, n, T)
    BY TakenTypes
  <2>5. \A m \in Locations : f[m] \in Nat /\ t[m] \in Nat
    BY <2>3, TakenTypes
  <2>6. PICK before \in CountedRows, after \in CountedRows :
            before = WithReserved(rs, f) /\ after = WithReserved(rs, t)
    BY <2>5, WithReservedRows
  <2>7. PICK h \in Nat, r \in Nat : rs[l] = Units(h, r) /\ cap[l] = IF h > r THEN h - r ELSE 0
    BY <1>1, CountedUnits
  <2>8. PICK amount \in Nat : amount = IF cap[l] <= left THEN cap[l] ELSE left
    BY <2>7
  <2>9. /\ t[l] = amount /\ f[l] = 0
        /\ \A m \in Locations \ {l} : t[m] = f[m]
        /\ Left(cap, n, S) = left - amount
    BY <1>1, <1>7, <2>1, <2>2, <2>3, <2>4, <2>8, TakenStep
  <2>10. before[l] = Units(h, r) /\ after[l] = Units(h, r + amount)
    <3>1. before[l] = Units(h, r + f[l]) /\ after[l] = Units(h, r + t[l])
      <4>0. l \in Locations /\ rs[l] = Units(h, r)
        BY <2>7
      <4>1. \A k \in Locations, a \in Nat, b \in Nat :
                rs[k] = Units(a, b) => WithReserved(rs, f)[k] = Units(a, b + f[k])
        BY <2>5, WithReservedRows
      <4>2. \A k \in Locations, a \in Nat, b \in Nat :
                rs[k] = Units(a, b) => WithReserved(rs, t)[k] = Units(a, b + t[k])
        BY <2>5, WithReservedRows
      <4> QED BY <2>6, <4>0, <4>1, <4>2, Zenon
    <3>2. r + f[l] = r /\ t[l] = amount
      BY <2>9
    <3> QED BY <3>1, <3>2, Zenon
  <2>11. \A m \in Locations \ {l} : after[m] = before[m]
    BY <2>6, <2>9 DEF WithReserved
  <2>12. /\ Put(before, l, h, r + amount) = after
         /\ before[l] = Units(h, r + amount) => after = before
    <3>1. after = [m \in Locations |-> after[m]] /\ before \in Rows
      BY CountedAreRows DEF CountedRows
    <3>2. PICK x \in Int : x = r + amount
      OBVIOUS
    <3>3. Put(before, l, h, x) = after /\ (before[l] = Units(h, x) => after = before)
      BY <2>10, <2>11, <3>1, <3>2, PutIs
    <3> QED BY <3>2, <3>3
  <2>13. g[S] = ReserveAt(Stock(before, left), l)
    <3>1. g[T] = Stock(before, left)
      BY <1>5, <2>2, <2>3, <2>4, <2>6
    <3>2. g[S] = ReserveAt(g[T], l)
      BY <1>3, <1>7, <2>1, <2>2 DEF ReserveRun
    <3> QED BY <3>1, <3>2, Zenon
  <2>14. PICK take \in Int : take = Smaller(h - r, left)
    BY SmallerInt
  <2>15. ReserveAt(Stock(before, left), l) =
             IF left <= 0 \/ take <= 0 THEN Stock(before, left)
             ELSE Stock(Put(before, l, h, r + take), left - take)
    BY <2>10, <2>14, CountedAreRows, ReserveAtIs
  <2>16. g[S] = Stock(after, left - amount)
    <3>1. CASE left <= 0 \/ take <= 0
      <4>1. amount = 0
        BY <2>7, <2>8, <2>14, <3>1 DEF Smaller
      <4>2. r + amount = r /\ left - amount = left
        BY <4>1
      <4>3. after = before
        BY <2>10, <2>12, <4>2, Zenon
      <4>4. g[S] = Stock(before, left)
        BY <2>13, <2>15, <3>1, Zenon
      <4> QED BY <4>2, <4>3, <4>4, Zenon
    <3>2. CASE ~(left <= 0 \/ take <= 0)
      <4>1. amount = take
        BY <2>7, <2>8, <2>14, <3>2 DEF Smaller
      <4>2. g[S] = Stock(Put(before, l, h, r + take), left - take)
        BY <2>13, <2>15, <3>2, Zenon
      <4> QED BY <2>12, <4>1, <4>2, Zenon
    <3> QED BY <3>1, <3>2
  <2>17. g[S] = Stock(WithReserved(rs, Taken(cap, n, rank, S)), Left(cap, n, S))
    BY <2>3, <2>6, <2>9, <2>16, Zenon
  <2> QED BY <1>5, <2>17
<1>8. Locations \in D
  BY <1>1, <1>5, <1>6, <1>7, LoopInduction
<1>9. g[Locations] = Stock(WithReserved(rs, Taken(cap, n, rank, Locations)), Left(cap, n, Locations))
  BY <1>5, <1>8
<1> QED BY <1>1, <1>4, <1>9, Zenon

(* The two loops of deliverFromReservations, at a row with h units on hand  *)
(* and r of them reserved, while nothing has been thrown and afterwards.    *)
Open(rs, n) == Draft(rs, n, FALSE)

LEMMA OpenIn == ASSUME NEW rs \in Rows, NEW n \in Int PROVE Open(rs, n) \in Drafts
BY DEF Open, Draft, Drafts

LEMMA TakeReservedCases ==
    ASSUME NEW rs \in Rows, NEW l \in Locations, NEW h \in Int, NEW r \in Int, rs[l] = Units(h, r),
           NEW n \in Int, NEW w \in Int, w = held[l], NEW take \in Int, take = Smaller(w, n)
    PROVE  /\ TakeReserved(Thrown(rs, n), l) = Thrown(rs, n)
           /\ n <= 0 \/ w = 0 => TakeReserved(Open(rs, n), l) = Open(rs, n)
           /\ n > 0 /\ w # 0 /\ (h < take \/ r < take) => TakeReserved(Open(rs, n), l) = Thrown(rs, n)
           /\ n > 0 /\ w # 0 /\ take <= h /\ take <= r =>
                 TakeReserved(Open(rs, n), l) = Open(Put(rs, l, h - take, r - take), n - take)
<1>1. \A f \in BOOLEAN : TakeReserved(Draft(rs, n, f), l) =
          IF f \/ n <= 0 \/ w = 0 THEN Draft(rs, n, f)
          ELSE IF h < take \/ r < take THEN Thrown(rs, n)
          ELSE Draft(Put(rs, l, h - take, r - take), n - take, f)
  BY TakeReservedIs
<1>2. TakeReserved(Draft(rs, n, TRUE), l) = Draft(rs, n, TRUE)
  BY <1>1, Zenon
<1>3. TakeReserved(Draft(rs, n, FALSE), l) =
          IF n <= 0 \/ w = 0 THEN Draft(rs, n, FALSE)
          ELSE IF h < take \/ r < take THEN Thrown(rs, n)
          ELSE Draft(Put(rs, l, h - take, r - take), n - take, FALSE)
  BY <1>1, Zenon
<1>4. PICK a, b, c : a = Draft(rs, n, FALSE) /\ b = TakeReserved(Draft(rs, n, FALSE), l)
                   /\ c = Draft(Put(rs, l, h - take, r - take), n - take, FALSE)
  OBVIOUS
<1>5. b = IF n <= 0 \/ w = 0 THEN a ELSE IF h < take \/ r < take THEN Thrown(rs, n) ELSE c
  BY <1>3, <1>4, Zenon
<1>6. /\ n <= 0 \/ w = 0 => b = a
      /\ n > 0 /\ w # 0 /\ (h < take \/ r < take) => b = Thrown(rs, n)
      /\ n > 0 /\ w # 0 /\ take <= h /\ take <= r => b = c
  BY <1>5
<1> QED BY <1>2, <1>4, <1>6, Zenon DEF Open, Thrown

LEMMA TakeFreeCases ==
    ASSUME NEW rs \in Rows, NEW l \in Locations, NEW h \in Int, NEW r \in Int, rs[l] = Units(h, r),
           NEW n \in Int, NEW take \in Int, take = Smaller(h - r, n)
    PROVE  /\ TakeFree(Thrown(rs, n), l) = Thrown(rs, n)
           /\ n <= 0 \/ take <= 0 => TakeFree(Open(rs, n), l) = Open(rs, n)
           /\ n > 0 /\ take > 0 => TakeFree(Open(rs, n), l) = Open(Put(rs, l, h - take, r), n - take)
<1>1. \A f \in BOOLEAN : TakeFree(Draft(rs, n, f), l) =
          IF f \/ n <= 0 \/ take <= 0 THEN Draft(rs, n, f)
          ELSE Draft(Put(rs, l, h - take, r), n - take, f)
  BY TakeFreeIs
<1>2. TakeFree(Draft(rs, n, TRUE), l) = Draft(rs, n, TRUE)
  BY <1>1, Zenon
<1>3. TakeFree(Draft(rs, n, FALSE), l) =
          IF n <= 0 \/ take <= 0 THEN Draft(rs, n, FALSE)
          ELSE Draft(Put(rs, l, h - take, r), n - take, FALSE)
  BY <1>1, Zenon
<1>4. PICK a, b, c : a = Draft(rs, n, FALSE) /\ b = TakeFree(Draft(rs, n, FALSE), l)
                   /\ c = Draft(Put(rs, l, h - take, r), n - take, FALSE)
  OBVIOUS
<1>5. b = IF n <= 0 \/ take <= 0 THEN a ELSE c
  BY <1>3, <1>4, Zenon
<1>6. /\ n <= 0 \/ take <= 0 => b = a
      /\ n > 0 /\ take > 0 => b = c
  BY <1>5
<1> QED BY <1>2, <1>4, <1>6, Zenon DEF Open, Thrown

LEMMA ConsumedTyped ==
    ASSUME NEW rs \in CountedRows, NEW fr, NEW ff, \A l \in Locations : fr[l] \in Nat /\ ff[l] \in Nat
    PROVE  Consumed(rs, fr, ff) \in Rows
<1>1. ASSUME NEW l \in Locations PROVE Consumed(rs, fr, ff)[l] \in Row
  <2>1. PICK h \in Nat, r \in Nat : rs[l] = Units(h, r)
    BY CountedUnits
  <2>2. Consumed(rs, fr, ff)[l] = Units(h - fr[l] - ff[l], r - fr[l])
    BY <2>1, ConsumedRows
  <2>3. PICK a \in Int, b \in Int : a = h - fr[l] - ff[l] /\ b = r - fr[l]
    OBVIOUS
  <2>4. Units(a, b) \in Row
    BY DEF Units, Row
  <2> QED BY <2>2, <2>3, <2>4, Zenon
<1> QED BY <1>1 DEF Consumed, Rows

LEMMA NothingConsumed ==
    ASSUME NEW rs \in CountedRows PROVE Consumed(rs, NoQuantities, NoQuantities) = rs
<1>1. \A l \in Locations : NoQuantities[l] = 0
  BY DEF NoQuantities
<1>2. ASSUME NEW l \in Locations PROVE Consumed(rs, NoQuantities, NoQuantities)[l] = rs[l]
  <2>1. PICK h \in Nat, r \in Nat : rs[l] = Units(h, r)
    BY CountedUnits
  <2>2. PICK zero : zero = NoQuantities /\ zero[l] = 0
    BY <1>1
  <2>3. Consumed(rs, zero, zero)[l] = Units(h - zero[l] - zero[l], r - zero[l])
    BY <2>1, ConsumedRows
  <2>4. h - zero[l] - zero[l] = h /\ r - zero[l] = r
    BY <2>2
  <2> QED BY <2>1, <2>2, <2>3, <2>4, Zenon
<1> QED BY <1>2 DEF Consumed, CountedRows

(* The first loop: it throws when a row has not what it shall give, and     *)
(* otherwise takes the reserved units from on hand and reserved alike.      *)
Short(rs, take, S) ==
    \E l \in S : take[l] > rs[l].onHand \/ take[l] > rs[l].reserved

LEMMA FirstLoop ==
    ASSUME NEW rs \in CountedRows, held \in Quantities, NEW n \in Nat, NEW rank, Ranks(rank),
           NEW take, take = Taken(held, n, rank, Locations)
    PROVE  IF Short(rs, take, Locations)
           THEN \E rs2 \in Rows, m \in Int : TakingReserved(Open(rs, n), rank) = Thrown(rs2, m)
           ELSE TakingReserved(Open(rs, n), rank)
                    = Open(Consumed(rs, take, NoQuantities), Left(held, n, Locations))
<1>1. PICK cap \in Quantities : cap = held
  OBVIOUS
<1>2. PICK start \in Drafts : start = Open(rs, n)
  BY CountedAreRows, OpenIn
<1>3. PICK g : TakingReserved(start, rank) = g[Locations] /\ TakeReservedRun(start, rank, g)
  BY TakeReservedLoop
<1>4. PICK zero : zero = NoQuantities /\ \A l \in Locations : zero[l] = 0
  <2>1. \A l \in Locations : NoQuantities[l] = 0
    BY DEF NoQuantities
  <2> QED BY <2>1
<1> DEFINE At(S) == Taken(cap, n, rank, S)
           Good(S) == IF Short(rs, At(S), S)
                      THEN \E rs2 \in Rows, m \in Int : g[S] = Thrown(rs2, m)
                      ELSE g[S] = Open(Consumed(rs, At(S), zero), Left(cap, n, S))
<1>5. PICK D \in SUBSET SUBSET Locations : D = {S \in SUBSET Locations : Good(S)}
  OBVIOUS
<1>6. {} \in D
  <2>1. At({}) = zero /\ Left(cap, n, {}) = n
    BY <1>4, NothingTaken
  <2>2. g[{}] = Open(rs, n)
    BY <1>2, <1>3 DEF TakeReservedRun
  <2>3. Consumed(rs, zero, zero) = rs
    BY <1>4, NothingConsumed
  <2>4. g[{}] = Open(Consumed(rs, At({}), zero), Left(cap, n, {}))
    BY <2>1, <2>2, <2>3, Zenon
  <2>5. ~Short(rs, At({}), {})
    BY DEF Short
  <2> QED BY <1>5, <2>4, <2>5
<1>7. ASSUME NEW S \in SUBSET Locations, S # {}, S \ {LastOf(rank, S)} \in D PROVE S \in D
  <2>1. PICK l \in S : l = LastOf(rank, S)
    BY <1>7, LastLocation
  <2>2. PICK T \in SUBSET Locations : T = S \ {l} /\ T \in D
    BY <1>5, <1>7, <2>1
  <2>3. PICK f, t : f = At(T) /\ t = At(S)
    OBVIOUS
  <2>4. PICK left \in Nat : left = Left(cap, n, T)
    BY TakenTypes
  <2>5. \A m \in Locations : f[m] \in Nat /\ t[m] \in Nat
    BY <2>3, TakenTypes
  <2>6. PICK before \in Rows, after \in Rows :
            before = Consumed(rs, f, zero) /\ after = Consumed(rs, t, zero)
    BY <1>4, <2>5, ConsumedTyped
  <2>7. PICK h \in Nat, r \in Nat : rs[l] = Units(h, r) /\ rs[l].onHand = h /\ rs[l].reserved = r
    BY CountedUnits
  <2>8. PICK amount \in Nat, w \in Nat : amount = (IF w <= left THEN w ELSE left) /\ w = cap[l]
    BY DEF Quantities
  <2>9. /\ t[l] = amount /\ f[l] = 0
        /\ \A m \in Locations \ {l} : t[m] = f[m]
        /\ Left(cap, n, S) = left - amount
    BY <1>7, <2>1, <2>2, <2>3, <2>4, <2>8, TakenStep
  <2>10. before[l] = Units(h, r) /\ after[l] = Units(h - amount, r - amount)
    <3>1. Consumed(rs, f, zero)[l] = Units(h - f[l] - zero[l], r - f[l])
      BY <2>7, ConsumedRows
    <3>2. Consumed(rs, t, zero)[l] = Units(h - t[l] - zero[l], r - t[l])
      BY <2>7, ConsumedRows
    <3>3. h - f[l] - zero[l] = h /\ r - f[l] = r /\ h - t[l] - zero[l] = h - amount /\ r - t[l] = r - amount
      BY <1>4, <2>9
    <3> QED BY <2>6, <3>1, <3>2, <3>3, Zenon
  <2>11. \A m \in Locations \ {l} : after[m] = before[m]
    BY <2>6, <2>9 DEF Consumed
  <2>12. PICK h2 \in Int, r2 \in Int : h2 = h - amount /\ r2 = r - amount
    OBVIOUS
  <2>13. /\ Put(before, l, h2, r2) = after
         /\ before[l] = Units(h2, r2) => after = before
    <3>1. after = [m \in Locations |-> after[m]]
      BY DEF Rows
    <3> QED BY <2>10, <2>11, <2>12, <3>1, PutIs
  <2>14. Short(rs, t, S) <=> Short(rs, f, T) \/ amount > h \/ amount > r
    <3>1. \A m \in T : t[m] = f[m]
      BY <2>2, <2>9
    <3>2. Short(rs, t, S) <=> Short(rs, t, T) \/ t[l] > rs[l].onHand \/ t[l] > rs[l].reserved
      BY <2>2 DEF Short
    <3>3. Short(rs, t, T) <=> Short(rs, f, T)
      BY <3>1 DEF Short
    <3> QED BY <2>7, <2>9, <3>2, <3>3
  <2>15. g[S] = TakeReserved(g[T], l)
    BY <1>3, <1>7, <2>1, <2>2 DEF TakeReservedRun
  <2>16. CASE Short(rs, f, T)
    <3>1. PICK rs2 \in Rows, m \in Int : g[T] = Thrown(rs2, m)
      BY <1>5, <2>2, <2>3, <2>16
    <3>2. PICK h3 \in Int, r3 \in Int : rs2[l] = Units(h3, r3)
      BY RowUnits
    <3>3. PICK take3 \in Int : take3 = Smaller(w, m)
      BY SmallerInt
    <3>4. TakeReserved(Thrown(rs2, m), l) = Thrown(rs2, m)
      BY <1>1, <2>8, <3>2, <3>3, TakeReservedCases
    <3>5. g[S] = Thrown(rs2, m)
      BY <2>15, <3>1, <3>4, Zenon
    <3> QED BY <1>5, <2>3, <2>14, <2>16, <3>5
  <2>17. CASE ~Short(rs, f, T)
    <3>1. g[T] = Open(before, left)
      BY <1>5, <2>2, <2>3, <2>4, <2>6, <2>17
    <3>2. amount = Smaller(w, left)
      BY <2>8 DEF Smaller
    <3>3. w = held[l]
      BY <1>1, <2>8
    <3>4. /\ left <= 0 \/ w = 0 => TakeReserved(Open(before, left), l) = Open(before, left)
          /\ left > 0 /\ w # 0 /\ (h < amount \/ r < amount) =>
                TakeReserved(Open(before, left), l) = Thrown(before, left)
          /\ left > 0 /\ w # 0 /\ amount <= h /\ amount <= r =>
                TakeReserved(Open(before, left), l) = Open(Put(before, l, h - amount, r - amount), left - amount)
      BY <2>10, <3>2, <3>3, TakeReservedCases
    <3>5. g[S] = TakeReserved(Open(before, left), l)
      BY <2>15, <3>1, Zenon
    <3>6. CASE left <= 0 \/ w = 0
      <4>1. amount = 0
        BY <2>8, <3>6
      <4>2. h2 = h /\ r2 = r /\ left - amount = left
        BY <2>12, <4>1
      <4>3. after = before
        BY <2>10, <2>13, <4>2, Zenon
      <4>4. g[S] = Open(after, left - amount)
        BY <3>4, <3>5, <3>6, <4>2, <4>3, Zenon
      <4>5. ~Short(rs, t, S)
        BY <2>14, <2>17, <4>1
      <4>6. g[S] = Open(Consumed(rs, At(S), zero), Left(cap, n, S))
        BY <2>3, <2>6, <2>9, <4>4, Zenon
      <4> QED BY <1>5, <2>3, <4>5, <4>6
    <3>7. CASE left > 0 /\ w # 0 /\ (h < amount \/ r < amount)
      <4>1. g[S] = Thrown(before, left)
        BY <3>4, <3>5, <3>7, Zenon
      <4>2. Short(rs, t, S)
        BY <2>14, <3>7
      <4> QED BY <1>5, <2>3, <4>1, <4>2
    <3>8. CASE left > 0 /\ w # 0 /\ amount <= h /\ amount <= r
      <4>1. g[S] = Open(after, left - amount)
        BY <2>12, <2>13, <3>4, <3>5, <3>8, Zenon
      <4>2. ~Short(rs, t, S)
        BY <2>14, <2>17, <3>8
      <4>3. g[S] = Open(Consumed(rs, At(S), zero), Left(cap, n, S))
        BY <2>3, <2>6, <2>9, <4>1, Zenon
      <4> QED BY <1>5, <2>3, <4>2, <4>3
    <3> QED BY <3>6, <3>7, <3>8
  <2> QED BY <2>16, <2>17
<1>8. Locations \in D
  BY <1>6, <1>7, LoopInduction
<1>9. Good(Locations)
  BY <1>5, <1>8
<1>10. TakingReserved(Open(rs, n), rank) = g[Locations] /\ At(Locations) = take
  BY <1>1, <1>2, <1>3
<1> HIDE DEF At
<1>11. IF Short(rs, take, Locations)
       THEN \E rs2 \in Rows, m \in Int : g[Locations] = Thrown(rs2, m)
       ELSE g[Locations] = Open(Consumed(rs, take, zero), Left(cap, n, Locations))
  BY <1>9, <1>10, Zenon
<1> QED BY <1>1, <1>4, <1>10, <1>11, Zenon

(* The second loop takes the units that were free before the call: a        *)
(* reserved unit that the first loop took has left on hand and reserved     *)
(* alike. After a throw it does nothing.                                    *)
LEMMA SecondLoop ==
    ASSUME NEW rs \in CountedRows, NEW fr, \A l \in Locations : fr[l] \in Nat,
           NEW n \in Nat, NEW rank, Ranks(rank)
    PROVE  TakingFree(Open(Consumed(rs, fr, NoQuantities), n), rank)
               = Open(Consumed(rs, fr, Taken(Free(rs), n, rank, Locations)), Left(Free(rs), n, Locations))
<1>1. PICK cap \in Quantities : cap = Free(rs)
  BY FreeCounts
<1>2. PICK zero : zero = NoQuantities /\ \A l \in Locations : zero[l] = 0
  <2>1. \A l \in Locations : NoQuantities[l] = 0
    BY DEF NoQuantities
  <2> QED BY <2>1
<1>3. PICK base \in Rows : base = Consumed(rs, fr, zero)
  BY <1>2, ConsumedTyped
<1>4. PICK start \in Drafts : start = Open(base, n)
  BY OpenIn
<1>5. PICK g : TakingFree(start, rank) = g[Locations] /\ TakeFreeRun(start, rank, g)
  BY TakeFreeLoop
<1>6. PICK D \in SUBSET SUBSET Locations :
          D = {S \in SUBSET Locations :
                  g[S] = Open(Consumed(rs, fr, Taken(cap, n, rank, S)), Left(cap, n, S))}
  OBVIOUS
<1>7. {} \in D
  <2>1. Taken(cap, n, rank, {}) = zero /\ Left(cap, n, {}) = n
    BY <1>2, NothingTaken
  <2>2. g[{}] = Open(base, n)
    BY <1>4, <1>5 DEF TakeFreeRun
  <2>3. g[{}] = Open(Consumed(rs, fr, Taken(cap, n, rank, {})), Left(cap, n, {}))
    BY <1>3, <2>1, <2>2, Zenon
  <2> QED BY <1>6, <2>3
<1>8. ASSUME NEW S \in SUBSET Locations, S # {}, S \ {LastOf(rank, S)} \in D PROVE S \in D
  <2>1. PICK l \in S : l = LastOf(rank, S)
    BY <1>8, LastLocation
  <2>2. PICK T \in SUBSET Locations : T = S \ {l} /\ T \in D
    BY <1>6, <1>8, <2>1
  <2>3. PICK f, t : f = Taken(cap, n, rank, T) /\ t = Taken(cap, n, rank, S)
    OBVIOUS
  <2>4. PICK left \in Nat : left = Left(cap, n, T)
    BY TakenTypes
  <2>5. \A m \in Locations : f[m] \in Nat /\ t[m] \in Nat
    BY <2>3, TakenTypes
  <2>6. PICK before \in Rows, after \in Rows :
            before = Consumed(rs, fr, f) /\ after = Consumed(rs, fr, t)
    BY <2>5, ConsumedTyped
  <2>7. PICK h \in Nat, r \in Nat : rs[l] = Units(h, r) /\ cap[l] = IF h > r THEN h - r ELSE 0
    BY <1>1, CountedUnits
  <2>8. PICK amount \in Nat : amount = IF cap[l] <= left THEN cap[l] ELSE left
    BY <2>7
  <2>9. /\ t[l] = amount /\ f[l] = 0
        /\ \A m \in Locations \ {l} : t[m] = f[m]
        /\ Left(cap, n, S) = left - amount
    BY <1>8, <2>1, <2>2, <2>3, <2>4, <2>8, TakenStep
  <2>10. PICK h1 \in Int, r1 \in Int, h2 \in Int : h1 = h - fr[l] /\ r1 = r - fr[l] /\ h2 = h1 - amount
    <3>1. PICK x \in Nat : x = fr[l]
      OBVIOUS
    <3>2. PICK a \in Int, b \in Int, c \in Int : a = h - x /\ b = r - x /\ c = a - amount
      OBVIOUS
    <3> QED BY <3>1, <3>2, Zenon
  <2>11. before[l] = Units(h1, r1) /\ after[l] = Units(h2, r1)
    <3>1. Consumed(rs, fr, f)[l] = Units(h - fr[l] - f[l], r - fr[l])
      BY <2>7, ConsumedRows
    <3>2. Consumed(rs, fr, t)[l] = Units(h - fr[l] - t[l], r - fr[l])
      BY <2>7, ConsumedRows
    <3>3. h - fr[l] - f[l] = h1 /\ h - fr[l] - t[l] = h2
      BY <2>9, <2>10
    <3> QED BY <2>6, <2>10, <3>1, <3>2, <3>3, Zenon
  <2>12. \A m \in Locations \ {l} : after[m] = before[m]
    BY <2>6, <2>9 DEF Consumed
  <2>13. /\ Put(before, l, h2, r1) = after
         /\ before[l] = Units(h2, r1) => after = before
    <3>1. after = [m \in Locations |-> after[m]]
      BY DEF Rows
    <3> QED BY <2>11, <2>12, <3>1, PutIs
  <2>14. g[S] = TakeFree(Open(before, left), l)
    <3>1. g[T] = Open(before, left)
      BY <1>6, <2>2, <2>3, <2>4, <2>6
    <3>2. g[S] = TakeFree(g[T], l)
      BY <1>5, <1>8, <2>1, <2>2 DEF TakeFreeRun
    <3> QED BY <3>1, <3>2, Zenon
  <2>15. PICK take \in Int : take = Smaller(h1 - r1, left)
    BY SmallerInt
  <2>16. /\ left <= 0 \/ take <= 0 => TakeFree(Open(before, left), l) = Open(before, left)
         /\ left > 0 /\ take > 0 =>
               TakeFree(Open(before, left), l) = Open(Put(before, l, h1 - take, r1), left - take)
    BY <2>11, <2>15, TakeFreeCases
  <2>17. take = Smaller(h - r, left)
    <3>1. h1 - r1 = h - r
      <4>1. PICK x \in Nat : x = fr[l]
        OBVIOUS
      <4> QED BY <2>10, <4>1
    <3> QED BY <2>15, <3>1, Zenon
  <2>18. g[S] = Open(after, left - amount)
    <3>1. CASE left <= 0 \/ take <= 0
      <4>1. amount = 0
        BY <2>7, <2>8, <2>17, <3>1 DEF Smaller
      <4>2. h2 = h1 /\ left - amount = left
        BY <2>10, <4>1
      <4>3. after = before
        BY <2>11, <2>13, <4>2, Zenon
      <4> QED BY <2>14, <2>16, <3>1, <4>2, <4>3, Zenon
    <3>2. CASE left > 0 /\ take > 0
      <4>1. amount = take
        BY <2>7, <2>8, <2>17, <3>2 DEF Smaller
      <4>2. g[S] = Open(Put(before, l, h1 - take, r1), left - take)
        BY <2>14, <2>16, <3>2, Zenon
      <4> QED BY <2>10, <2>13, <4>1, <4>2, Zenon
    <3> QED BY <3>1, <3>2
  <2>19. g[S] = Open(Consumed(rs, fr, Taken(cap, n, rank, S)), Left(cap, n, S))
    BY <2>3, <2>6, <2>9, <2>18, Zenon
  <2> QED BY <1>6, <2>19
<1>9. Locations \in D
  BY <1>7, <1>8, LoopInduction
<1>10. g[Locations] = Open(Consumed(rs, fr, Taken(cap, n, rank, Locations)), Left(cap, n, Locations))
  BY <1>6, <1>9
<1> QED BY <1>1, <1>2, <1>3, <1>4, <1>5, <1>10, Zenon

LEMMA SecondLoopThrown ==
    ASSUME NEW rs \in Rows, NEW n \in Int, NEW rank, Ranks(rank)
    PROVE  TakingFree(Thrown(rs, n), rank) = Thrown(rs, n)
<1>1. PICK start \in Drafts : start = Thrown(rs, n)
  BY ThrownIn
<1>2. PICK g : TakingFree(start, rank) = g[Locations] /\ TakeFreeRun(start, rank, g)
  BY TakeFreeLoop
<1>3. PICK D \in SUBSET SUBSET Locations : D = {S \in SUBSET Locations : g[S] = start}
  OBVIOUS
<1>4. {} \in D
  BY <1>2, <1>3 DEF TakeFreeRun
<1>5. ASSUME NEW S \in SUBSET Locations, S # {}, S \ {LastOf(rank, S)} \in D PROVE S \in D
  <2>1. PICK l \in S : l = LastOf(rank, S)
    BY <1>5, LastLocation
  <2>2. PICK h \in Int, r \in Int : rs[l] = Units(h, r)
    BY RowUnits
  <2>3. PICK take \in Int : take = Smaller(h - r, n)
    BY SmallerInt
  <2>4. TakeFree(Thrown(rs, n), l) = Thrown(rs, n)
    BY <2>2, <2>3, TakeFreeCases
  <2>5. PICK T \in SUBSET Locations : T = S \ {l} /\ g[T] = start
    BY <1>3, <1>5, <2>1
  <2>6. g[S] = TakeFree(g[T], l)
    BY <1>2, <1>5, <2>1, <2>5 DEF TakeFreeRun
  <2>7. g[S] = start
    BY <1>1, <2>4, <2>5, <2>6, Zenon
  <2> QED BY <1>3, <2>7
<1>6. Locations \in D
  BY <1>4, <1>5, LoopInduction
<1> QED BY <1>1, <1>2, <1>3, <1>6

LEMMA DeliverResult ==
    ASSUME NEW rs \in CountedRows, held \in Quantities, NEW n \in Nat,
           NEW taken, taken = Taken(held, n, ById, Locations),
           NEW rest, rest = Left(held, n, Locations),
           NEW free, free = Taken(Free(rs), rest, ById, Locations),
           NEW end, end = deliverFromReservations(rs, n)
    PROVE  /\ end.failed \in BOOLEAN
           /\ end.failed <=> Short(rs, taken, Locations) \/ Left(Free(rs), rest, Locations) > 0
           /\ ~end.failed => end.rows = Consumed(rs, taken, free)
<1>1. Ranks(ById)
  BY TheRanks
<1>2. PICK cap \in Quantities : cap = held
  OBVIOUS
<1>3. rest \in Nat /\ \A l \in Locations : taken[l] \in Nat
  BY <1>2, TakenTypes
<1>4. PICK first : first = TakingReserved(Open(rs, n), ById)
  OBVIOUS
<1>5. PICK st : st = TakingFree(first, ById)
  OBVIOUS
<1>6. end = [st EXCEPT !.failed = st.failed \/ st.remaining > 0]
  BY <1>4, <1>5, Zenon DEF deliverFromReservations, TakingFree, TakingReserved, Open, Draft
<1>7. CASE Short(rs, taken, Locations)
  <2>1. PICK rs2 \in Rows, m \in Int : first = Thrown(rs2, m)
    BY <1>1, <1>4, <1>7, FirstLoop
  <2>2. st = Thrown(rs2, m)
    BY <1>1, <1>5, <2>1, SecondLoopThrown
  <2>3. end.failed = TRUE
    BY <1>6, <2>2 DEF Thrown, Draft
  <2> QED BY <1>7, <2>3
<1>8. CASE ~Short(rs, taken, Locations)
  <2>1. first = Open(Consumed(rs, taken, NoQuantities), rest)
    BY <1>1, <1>4, <1>8, FirstLoop
  <2>2. PICK left \in Nat : left = Left(Free(rs), rest, Locations)
    BY <1>3, FreeCounts, TakenTypes
  <2>3. PICK after : after = Consumed(rs, taken, free)
    OBVIOUS
  <2>4. st = Open(after, left)
    BY <1>1, <1>3, <1>5, <2>1, <2>2, <2>3, SecondLoop
  <2>5. st.failed = FALSE /\ st.remaining = left /\ st.rows = after
    BY <2>4 DEF Open, Draft
  <2>6. end.failed = (left > 0) /\ end.rows = after
    BY <1>6, <2>4, <2>5 DEF Open, Draft
  <2>7. CASE left > 0
    <3>1. end.failed = TRUE
      BY <2>6, <2>7
    <3> QED BY <1>8, <2>2, <2>7, <3>1
  <2>8. CASE ~(left > 0)
    <3>4. (left > 0) = FALSE
      BY <2>8
    <3>1. end.failed = FALSE
      BY <2>6, <3>4, Zenon
    <3>2. end.rows = Consumed(rs, taken, free)
      BY <2>3, <2>6
    <3>3. ~(Left(Free(rs), rest, Locations) > 0)
      BY <2>2, <2>8
    <3> QED BY <1>8, <3>1, <3>2, <3>3, Zenon
  <2> QED BY <2>7, <2>8
<1> QED BY <1>7, <1>8

(* What the loops return is what the operators of the stock engine state.   *)
LEMMA ReserveComputes ==
    ASSUME NEW rs \in CountedRows, NEW n \in 0..MaxQty
    PROVE  \E take \in Reservations(rs, n) :
               /\ Reservations(rs, n) = {take}
               /\ reserveBestEffort(rs, n) = [rows |-> WithReserved(rs, take), remaining |-> n - Total(take)]
<1>1. PICK cap \in Quantities : cap = Free(rs)
  BY FreeCounts
<1>2. PICK take : take = Taken(cap, n, ShowroomFirst, Locations)
  OBVIOUS
<1>3. Reservations(rs, n) = {take}
  BY <1>1, <1>2, GreedyIs DEF Reservations
<1>4. n \in Nat
  BY MaxQtyAssumption
<1>5. Left(cap, n, Locations) = n - Total(take)
  <2>1. Total(take) = n - Left(cap, n, Locations)
    BY <1>2, <1>4, TheRanks, TakenTotal
  <2>2. Left(cap, n, Locations) \in Nat
    BY <1>4, TakenTypes
  <2> QED BY <1>4, <2>1, <2>2
<1>6. reserveBestEffort(rs, n) = Stock(WithReserved(rs, take), n - Total(take))
  BY <1>1, <1>2, <1>4, <1>5, ReserveResult
<1> QED BY <1>3, <1>6 DEF Stock

LEMMA DeliverComputes ==
    ASSUME NEW rs \in CountedRows, held \in Quantities, NEW n \in 0..MaxQty,
           NEW end, end = deliverFromReservations(rs, n)
    PROVE  /\ end.failed <=> ~CanDeliver(rs, held, n)
           /\ ~end.failed =>
                 \E taken \in FromReserved(rs, held, n) :
                     \E free \in FromFree(rs, taken, n) : end.rows = Consumed(rs, taken, free)
<1>1. PICK cap \in Quantities : cap = Free(rs)
  BY FreeCounts
<1>2. n \in Nat /\ Ranks(ById)
  BY MaxQtyAssumption, TheRanks
<1>3. PICK taken : taken = Taken(held, n, ById, Locations)
  OBVIOUS
<1>4. PICK rest \in Nat : rest = Left(held, n, Locations) /\ rest <= n
  BY <1>2, TakenTypes
<1>5. PICK free : free = Taken(cap, rest, ById, Locations)
  OBVIOUS
<1>6. PICK short \in Nat : short = Left(cap, rest, Locations)
  BY TakenTypes
<1>7. rest \in 0..MaxQty
  BY <1>4, MaxQtyAssumption
<1>8. Greedy(held, n, ById) = {taken} /\ Greedy(cap, rest, ById) = {free}
  BY <1>3, <1>5, <1>7, GreedyIs
<1>9. n - Total(taken) = rest /\ Total(free) = rest - short
  <2>1. Total(taken) = n - rest
    BY <1>2, <1>3, <1>4, TakenTotal
  <2>2. Total(free) = rest - short
    BY <1>2, <1>5, <1>6, TakenTotal
  <2> QED BY <1>2, <1>4, <2>1, <2>2
<1>10. FromReserved(rs, held, n) = IF Short(rs, taken, Locations) THEN {} ELSE {taken}
  <2>1. \A l \in Locations : /\ rs[l].onHand \in Int /\ rs[l].reserved \in Int
                             /\ taken[l] \in Int
    BY <1>2, <1>3, TakenTypes DEF CountedRows
  <2>2. Short(rs, taken, Locations) <=> ~(\A l \in Locations : taken[l] <= rs[l].onHand /\ taken[l] <= rs[l].reserved)
    BY <2>1 DEF Short
  <2> QED BY <1>8, <2>2 DEF FromReserved
<1>11. FromFree(rs, taken, n) = IF short > 0 THEN {} ELSE {free}
  <2>1. FromFree(rs, taken, n) = {take \in {free} : Total(take) = rest}
    BY <1>1, <1>8, <1>9, Zenon DEF FromFree
  <2>2. Total(free) = rest <=> ~(short > 0)
    BY <1>9
  <2> QED BY <2>1, <2>2
<1>12. CanDeliver(rs, held, n) <=> ~(Short(rs, taken, Locations) \/ short > 0)
  BY <1>10, <1>11 DEF CanDeliver
<1>13. /\ end.failed \in BOOLEAN
       /\ end.failed <=> Short(rs, taken, Locations) \/ short > 0
       /\ ~end.failed => end.rows = Consumed(rs, taken, free)
  BY <1>1, <1>2, <1>3, <1>4, <1>5, <1>6, DeliverResult
<1> QED BY <1>10, <1>11, <1>12, <1>13

-----------------------------------------------------------------------------
(* Money. A product is named before it is rounded: the provers then meet    *)
(* only sums of names.                                                      *)
Share(a, p) == Rounded(a * p, Hundred)

LEMMA ProductInt == ASSUME NEW a \in Int, NEW b \in Int PROVE a * b \in Int
OBVIOUS

LEMMA ProductSum ==
    ASSUME NEW a \in Int, NEW b \in Int, NEW p \in Int
    PROVE  (a + b) * p = a * p + b * p
OBVIOUS

LEMMA ProductBounds ==
    ASSUME NEW a \in Nat, NEW p \in 0..Hundred
    PROVE  0 <= a * p /\ a * p <= a * Hundred
<1>1. 0 <= a * p
  OBVIOUS
<1>2. PICK q \in Nat : q = Hundred - p /\ p + q = Hundred
  BY DEF Hundred
<1>3. a * (p + q) = a * p + a * q
  OBVIOUS
<1>4. 0 <= a * q
  OBVIOUS
<1>5. a * p \in Int /\ a * q \in Int
  BY ProductInt
<1>6. a * Hundred = a * p + a * q
  BY <1>2, <1>3
<1> QED BY <1>1, <1>4, <1>5, <1>6

(* Math.round is off by at most a half, and a half goes up.                 *)
LEMMA RoundedIs ==
    ASSUME NEW n \in Int
    PROVE  /\ Rounded(n, Hundred) \in Int
           /\ Hundred * Rounded(n, Hundred) <= n + 5000
           /\ n + 5000 < Hundred * Rounded(n, Hundred) + Hundred
<1>1. PICK m \in Int : m = 2 * n + 10000
  OBVIOUS
<1>2. PICK r \in Int : r = m \div 20000
  OBVIOUS
<1>3. 20000 * r <= m /\ m < 20000 * r + 20000
  BY <1>2
<1>4. Rounded(n, Hundred) = r
  BY <1>1, <1>2 DEF Rounded, Hundred
<1> QED BY <1>1, <1>3, <1>4 DEF Hundred

LEMMA ShareInt ==
    ASSUME NEW a \in Int, NEW p \in Int
    PROVE  Share(a, p) \in Int
BY ProductInt, RoundedIs DEF Share

(* A percentage of an amount is an amount between nothing and all of it,    *)
(* within half a cent of what it should be.                                 *)
LEMMA ShareOf ==
    ASSUME NEW a \in Nat, NEW p \in 0..Hundred
    PROVE  0 <= Share(a, p) /\ Share(a, p) <= a
<1>1. PICK x \in Int : x = a * p
  BY ProductInt
<1>2. PICK r \in Int : r = Share(a, p) /\ Hundred * r <= x + 5000 /\ x + 5000 < Hundred * r + Hundred
  BY <1>1, RoundedIs DEF Share
<1>3. 0 <= x /\ x <= a * Hundred
  BY <1>1, ProductBounds
<1> QED BY <1>2, <1>3 DEF Hundred

LEMMA ShareNear ==
    ASSUME NEW a \in Int, NEW p \in Int
    PROVE  2 * Apart(Share(a, p) * Hundred, a * p) <= Hundred
<1>1. PICK x \in Int : x = a * p
  BY ProductInt
<1>2. PICK r \in Int : r = Share(a, p) /\ Hundred * r <= x + 5000 /\ x + 5000 < Hundred * r + Hundred
  BY <1>1, RoundedIs DEF Share
<1>3. PICK e : e = r * Hundred - x
  OBVIOUS
<1>4. e \in Int /\ -5000 <= e /\ e <= 5000
  BY <1>2, <1>3 DEF Hundred
<1>5. 2 * AbsInt(e) <= Hundred
  BY <1>4 DEF AbsInt, Hundred
<1>6. e = Share(a, p) * Hundred - a * p
  BY <1>1, <1>2, <1>3
<1>7. Apart(Share(a, p) * Hundred, a * p) = AbsInt(e)
  BY <1>6 DEF Apart
<1> QED BY <1>5, <1>7, Zenon

(* A larger amount has a larger share, by no more than the amount grows.    *)
LEMMA ShareGrows ==
    ASSUME NEW a \in Int, NEW k \in Nat, NEW p \in 0..Hundred
    PROVE  Share(a, p) <= Share(a + k, p) /\ Share(a + k, p) <= Share(a, p) + k
<1>0. p \in Int
  OBVIOUS
<1>1. PICK x \in Int : x = a * p
  BY <1>0, ProductInt
<1>2. PICK y \in Int : y = k * p
  BY <1>0, ProductInt
<1>3. 0 <= y /\ y <= k * Hundred
  BY <1>2, ProductBounds
<1>4. (a + k) * p = x + y
  BY <1>0, <1>1, <1>2, ProductSum
<1>5. PICK r \in Int : r = Share(a, p) /\ Hundred * r <= x + 5000 /\ x + 5000 < Hundred * r + Hundred
  BY <1>1, RoundedIs DEF Share
<1>6. PICK s \in Int : s = Share(a + k, p) /\ Hundred * s <= x + y + 5000 /\ x + y + 5000 < Hundred * s + Hundred
  BY <1>4, RoundedIs DEF Share
<1>7. r <= s /\ s <= r + k
  BY <1>3, <1>5, <1>6 DEF Hundred
<1> QED BY <1>5, <1>6, <1>7

(* The shares of two amounts that nearly cancel nearly cancel too.          *)
LEMMA SharesCancel ==
    ASSUME NEW a \in Int, NEW b \in Int, NEW k \in Int, a + b = k, NEW p \in 0..Hundred
    PROVE  /\ k = -1 => -1 <= Share(a, p) + Share(b, p) /\ Share(a, p) + Share(b, p) <= 1
           /\ k = 0 => 0 <= Share(a, p) + Share(b, p) /\ Share(a, p) + Share(b, p) <= 1
           /\ k > 0 => 0 <= Share(a, p) + Share(b, p) /\ Share(a, p) + Share(b, p) <= k
<1>0. p \in Int
  OBVIOUS
<1>1. PICK x \in Int : x = a * p
  BY <1>0, ProductInt
<1>2. PICK y \in Int : y = b * p
  BY <1>0, ProductInt
<1>3. PICK z \in Int : z = k * p
  BY <1>0, ProductInt
<1>4. z = x + y
  BY <1>0, <1>1, <1>2, <1>3, ProductSum
<1>5. PICK r \in Int : r = Share(a, p) /\ Hundred * r <= x + 5000 /\ x + 5000 < Hundred * r + Hundred
  BY <1>1, RoundedIs DEF Share
<1>6. PICK s \in Int : s = Share(b, p) /\ Hundred * s <= y + 5000 /\ y + 5000 < Hundred * s + Hundred
  BY <1>2, RoundedIs DEF Share
<1>7. CASE k = -1
  <2>1. z = -p /\ 0 <= p /\ p <= Hundred
    BY <1>3, <1>7
  <2>2. -1 <= r + s /\ r + s <= 1
    BY <1>4, <1>5, <1>6, <2>1 DEF Hundred
  <2> QED BY <1>5, <1>6, <1>7, <2>2
<1>8. CASE k = 0
  <2>1. z = 0
    BY <1>3, <1>8
  <2> QED BY <1>4, <1>5, <1>6, <1>8, <2>1 DEF Hundred
<1>9. CASE k > 0 /\ p = Hundred
  <2>1. x = a * Hundred /\ y = b * Hundred
    BY <1>1, <1>2, <1>9
  <2>2. r = a /\ s = b
    BY <1>5, <1>6, <2>1 DEF Hundred
  <2> QED BY <1>5, <1>6, <1>9, <2>2
<1>10. CASE k > 0 /\ p # Hundred
  <2>1. p + 1 \in 0..Hundred
    BY <1>10 DEF Hundred
  <2>2. k \in Nat
    BY <1>10
  <2>3. k * (p + 1) <= k * Hundred
    BY <2>1, <2>2, ProductBounds
  <2>4. k * (p + 1) = z + k
    BY <1>0, <1>3
  <2>5. 0 <= z
    BY <1>3, <2>2, ProductBounds
  <2>6. z + k <= 10000 * k
    <3>1. z + k <= k * Hundred
      BY <2>3, <2>4, Zenon
    <3> QED BY <3>1 DEF Hundred
  <2>7. 0 <= r + s /\ r + s <= k
    BY <1>4, <1>5, <1>6, <1>10, <2>5, <2>6 DEF Hundred
  <2> QED BY <1>5, <1>6, <1>10, <2>7
<1>11. CASE ~(k = -1) /\ ~(k = 0) /\ ~(k > 0)
  BY <1>11
<1> QED BY <1>7, <1>8, <1>9, <1>10, <1>11

(* The grand total of lines that add up to a.                               *)
Grand(a, d, v) == a - Share(a, d) + Share(a - Share(a, d), v)

LEMMA TotalsAre ==
    ASSUME NEW f, NEW a, a = SumFunctionOnSet(f, DOMAIN f), NEW d, NEW v
    PROVE  computeQuotationTotals(f, d, v) =
               [subtotal |-> a, discount |-> Share(a, d), vat |-> Share(a - Share(a, d), v),
                grand |-> Grand(a, d, v)]
BY Zenon DEF computeQuotationTotals, SumFunction, Share, Grand

LEMMA GrandInt ==
    ASSUME NEW a \in Int, NEW d \in 0..Hundred, NEW v \in 0..Hundred
    PROVE  Grand(a, d, v) \in Int
<1>1. d \in Int /\ v \in Int
  OBVIOUS
<1>2. PICK r \in Int : r = Share(a, d)
  BY <1>1, ShareInt
<1>3. PICK b \in Int : b = a - r
  OBVIOUS
<1>4. PICK t \in Int : t = Share(b, v)
  BY <1>1, ShareInt
<1>5. Grand(a, d, v) = b + t
  BY <1>2, <1>3, <1>4 DEF Grand
<1> QED BY <1>5

(* A grand total grows with the amount of the lines, by at most twice as    *)
(* much: the VAT comes on top.                                              *)
LEMMA GrandGrows ==
    ASSUME NEW a \in Int, NEW k \in Nat, NEW d \in 0..Hundred, NEW v \in 0..Hundred
    PROVE  Grand(a, d, v) <= Grand(a + k, d, v) /\ Grand(a + k, d, v) <= Grand(a, d, v) + 2 * k
<1>1. d \in Int /\ v \in Int
  OBVIOUS
<1>2. PICK r \in Int : r = Share(a, d)
  BY <1>1, ShareInt
<1>3. PICK s \in Int : s = Share(a + k, d)
  BY <1>1, ShareInt
<1>4. r <= s /\ s <= r + k
  BY <1>2, <1>3, ShareGrows
<1>5. PICK b \in Int : b = a - r
  OBVIOUS
<1>6. PICK j \in Nat : j = k - (s - r)
  BY <1>4
<1>7. (a + k) - s = b + j
  BY <1>5, <1>6
<1>8. PICK t \in Int : t = Share(b, v)
  BY <1>1, ShareInt
<1>9. PICK u \in Int : u = Share(b + j, v)
  BY <1>1, ShareInt
<1>10. t <= u /\ u <= t + j
  BY <1>8, <1>9, ShareGrows
<1>11. Grand(a, d, v) = b + t
  BY <1>2, <1>5, <1>8 DEF Grand
<1>12. Grand(a + k, d, v) = (b + j) + u
  BY <1>3, <1>7, <1>9, Zenon DEF Grand
<1>13. j <= k
  BY <1>4, <1>6
<1> QED BY <1>10, <1>11, <1>12, <1>13

LEMMA GrandWithin ==
    ASSUME NEW a \in Int, NEW b \in Int, NEW n \in Nat, a <= b + n, b <= a + n,
           NEW d \in 0..Hundred, NEW v \in 0..Hundred
    PROVE  Apart(Grand(a, d, v), Grand(b, d, v)) <= 2 * n
<1>1. PICK g \in Int : g = Grand(a, d, v)
  BY GrandInt
<1>2. PICK h \in Int : h = Grand(b, d, v)
  BY GrandInt
<1>3. g <= h + 2 * n /\ h <= g + 2 * n
  <2>1. CASE a <= b
    <3>1. PICK k \in Nat : k = b - a /\ b = a + k /\ k <= n
      BY <2>1
    <3>2. g <= h /\ h <= g + 2 * k
      BY <1>1, <1>2, <3>1, GrandGrows
    <3> QED BY <3>1, <3>2
  <2>2. CASE b <= a
    <3>1. PICK k \in Nat : k = a - b /\ a = b + k /\ k <= n
      BY <2>2
    <3>2. h <= g /\ g <= h + 2 * k
      BY <1>1, <1>2, <3>1, GrandGrows
    <3> QED BY <3>1, <3>2
  <2> QED BY <2>1, <2>2
<1>4. Apart(g, h) <= 2 * n
  BY <1>3 DEF Apart, AbsInt
<1> QED BY <1>1, <1>2, <1>4, Zenon

(* Documents whose lines nearly cancel nearly cancel as a whole.            *)
LEMMA GrandCancel ==
    ASSUME NEW a \in Int, NEW b \in Int, NEW k \in Nat, a + b = k,
           NEW n \in Nat, k <= n, 1 <= n, NEW d \in 0..Hundred, NEW v \in 0..Hundred
    PROVE  Apart(Grand(a, d, v), -Grand(b, d, v)) <= 2 * n
<1>1. d \in Int /\ v \in Int /\ k \in Int
  OBVIOUS
<1>2. PICK r \in Int : r = Share(a, d)
  BY <1>1, ShareInt
<1>3. PICK s \in Int : s = Share(b, d)
  BY <1>1, ShareInt
<1>4. (k = 0 => 0 <= r + s /\ r + s <= 1) /\ (k > 0 => 0 <= r + s /\ r + s <= k)
  BY <1>1, <1>2, <1>3, SharesCancel
<1>5. PICK x \in Int : x = a - r
  OBVIOUS
<1>6. PICK y \in Int : y = b - s
  OBVIOUS
<1>7. PICK j \in Int : j = k - (r + s) /\ x + y = j
  BY <1>5, <1>6
<1>8. PICK t \in Int : t = Share(x, v)
  BY <1>1, ShareInt
<1>9. PICK u \in Int : u = Share(y, v)
  BY <1>1, ShareInt
<1>10. /\ j = -1 => -1 <= t + u /\ t + u <= 1
       /\ j = 0 => 0 <= t + u /\ t + u <= 1
       /\ j > 0 => 0 <= t + u /\ t + u <= j
  BY <1>7, <1>8, <1>9, SharesCancel
<1>11. PICK g \in Int : g = Grand(a, d, v) /\ g = x + t
  BY <1>2, <1>5, <1>8 DEF Grand
<1>12. PICK h \in Int : h = Grand(b, d, v) /\ h = y + u
  BY <1>3, <1>6, <1>9 DEF Grand
<1>13. g + h <= 2 * n /\ -(2 * n) <= g + h
  <2>1. g + h = j + (t + u)
    BY <1>7, <1>11, <1>12
  <2>2. j \in {-1, 0} \/ (j > 0 /\ j <= n)
    BY <1>4, <1>7
  <2> QED BY <1>10, <2>1, <2>2
<1>14. Apart(g, -h) <= 2 * n
  BY <1>13 DEF Apart, AbsInt
<1> QED BY <1>11, <1>12, <1>14, Zenon

(* One line: its exact price is a number of cents in hundredths of a        *)
(* percent.                                                                 *)
AnyLine == [qty : Nat, price : Nat, discount : 0..Hundred]
Exact(line) == line.qty * line.price * (Hundred - line.discount)

LEMMA LineParts ==
    ASSUME NEW line \in AnyLine
    PROVE  \E a \in Nat, x \in Nat, y \in Nat :
               /\ a = line.qty * line.price
               /\ x = Exact(line) /\ y = a * line.discount /\ x + y = a * Hundred
<1>1. PICK q \in Nat, p \in Nat, d \in 0..Hundred : q = line.qty /\ p = line.price /\ d = line.discount
  BY DEF AnyLine
<1>2. PICK a \in Nat : a = q * p
  OBVIOUS
<1>3. PICK e \in Nat : e = Hundred - d
  BY DEF Hundred
<1>4. PICK x \in Nat : x = a * e
  OBVIOUS
<1>5. PICK y \in Nat : y = a * d
  OBVIOUS
<1>6. x + y = a * Hundred
  <2>1. e \in Int /\ d \in Int /\ e + d = Hundred
    BY <1>3 DEF Hundred
  <2>2. a * (e + d) = a * e + a * d
    BY <2>1
  <2> QED BY <1>4, <1>5, <2>1, <2>2
<1>7. a = line.qty * line.price /\ x = Exact(line) /\ y = a * line.discount
  BY <1>1, <1>2, <1>3, <1>4, <1>5, Zenon DEF Exact
<1> QED BY <1>6, <1>7

LEMMA NearestIs ==
    ASSUME NEW x \in Int, NEW m \in Nearest(x, Hundred)
    PROVE  m \in Int /\ Hundred * m <= x + 5000 /\ x <= Hundred * m + 5000
<1>1. PICK e \in Int : e = m * Hundred - x /\ m \in Int
  BY DEF Nearest, Hundred
<1>2. 2 * AbsInt(e) <= Hundred
  BY <1>1 DEF Nearest
<1>3. -5000 <= e /\ e <= 5000
  BY <1>2 DEF AbsInt, Hundred
<1> QED BY <1>1, <1>3 DEF Hundred

LEMMA InvoicedNat ==
    ASSUME NEW line \in AnyLine
    PROVE  Invoiced(line) \in Nat
<1>1. PICK a \in Nat, x \in Nat, y \in Nat : x = Exact(line)
  BY LineParts
<1>2. Invoiced(line) = Rounded(x, Hundred)
  BY <1>1 DEF Invoiced, Exact
<1>3. PICK r \in Int : r = Rounded(x, Hundred) /\ Hundred * r <= x + 5000 /\ x + 5000 < Hundred * r + Hundred
  BY RoundedIs
<1> QED BY <1>2, <1>3 DEF Hundred

(* toFixed and Math.round differ by at most a cent on a line, and the two   *)
(* parts of a quoted line make up its price within a cent.                  *)
LEMMA QuotedLine ==
    ASSUME NEW line \in AnyLine, NEW part \in Quoted(line)
    PROVE  /\ part.after \in Int
           /\ part.after <= Invoiced(line) + 1 /\ Invoiced(line) <= part.after + 1
           /\ Apart(part.after + part.discountAmount, line.qty * line.price) <= 1
<1>1. PICK a \in Nat, x \in Nat, y \in Nat :
          /\ a = line.qty * line.price
          /\ x = Exact(line) /\ y = a * line.discount /\ x + y = a * Hundred
  BY LineParts
<1>2. part.after \in Nearest(x, Hundred) /\ part.discountAmount \in Nearest(y, Hundred)
  BY <1>1 DEF Quoted, Exact
<1>3. PICK m \in Int : m = part.after /\ Hundred * m <= x + 5000 /\ x <= Hundred * m + 5000
  BY <1>2, NearestIs
<1>4. PICK o \in Int : o = part.discountAmount /\ Hundred * o <= y + 5000 /\ y <= Hundred * o + 5000
  BY <1>2, NearestIs
<1>5. Invoiced(line) = Rounded(x, Hundred)
  BY <1>1 DEF Invoiced, Exact
<1>6. PICK r \in Int : r = Rounded(x, Hundred) /\ Hundred * r <= x + 5000 /\ x + 5000 < Hundred * r + Hundred
  BY RoundedIs
<1>7. m <= r + 1 /\ r <= m + 1
  BY <1>3, <1>6 DEF Hundred
<1>8. Apart(m + o, a) <= 1
  <2>1. m + o - a <= 1 /\ -1 <= m + o - a
    BY <1>1, <1>3, <1>4 DEF Hundred
  <2> QED BY <2>1 DEF Apart, AbsInt
<1>9. Apart(part.after + part.discountAmount, line.qty * line.price) <= 1
  <2>1. m = part.after /\ o = part.discountAmount /\ a = line.qty * line.price
    BY <1>1, <1>3, <1>4
  <2> QED BY <1>8, <2>1, Zenon
<1> QED BY <1>3, <1>5, <1>6, <1>7, <1>9

(* The rounded amounts of a line and of the line credited add up to nothing *)
(* or, on a half, to a cent.                                                *)
LEMMA RoundedCancel ==
    ASSUME NEW x \in Int
    PROVE  0 <= Rounded(x, Hundred) + Rounded(-x, Hundred) /\ Rounded(x, Hundred) + Rounded(-x, Hundred) <= 1
<1>1. PICK r \in Int : r = Rounded(x, Hundred) /\ Hundred * r <= x + 5000 /\ x + 5000 < Hundred * r + Hundred
  BY RoundedIs
<1>2. PICK s \in Int : s = Rounded(-x, Hundred) /\ Hundred * s <= -x + 5000 /\ -x + 5000 < Hundred * s + Hundred
  BY RoundedIs
<1>3. 0 <= r + s /\ r + s <= 1
  BY <1>1, <1>2 DEF Hundred
<1> QED BY <1>1, <1>2, <1>3

LEMMA NegatedLine ==
    ASSUME NEW line \in AnyLine
    PROVE  /\ Exact(Credited(line)) = -Exact(line) /\ Exact(Returned(line)) = -Exact(line)
           /\ Credited(line).qty = line.qty /\ Returned(line).qty = -line.qty
<1>1. PICK q \in Nat, p \in Nat, d \in 0..Hundred :
          line = [qty |-> q, price |-> p, discount |-> d]
  BY DEF AnyLine
<1>2. PICK e \in Int : e = Hundred - d
  BY DEF Hundred
<1>3. PICK a \in Int : a = q * p
  OBVIOUS
<1>4. q * (-p) = -a /\ (-q) * p = -a /\ (-a) * e = -(a * e)
  BY <1>3
<1>5. /\ Exact(line) = a * e
      /\ Exact(Credited(line)) = (q * (-p)) * e /\ Credited(line).qty = q
      /\ Exact(Returned(line)) = ((-q) * p) * e /\ Returned(line).qty = -q
  BY <1>1, <1>2, <1>3 DEF Exact, Credited, Returned
<1>6. Exact(Credited(line)) = -(a * e) /\ Exact(Returned(line)) = -(a * e)
  BY <1>4, <1>5, Zenon
<1> QED BY <1>1, <1>5, <1>6

LEMMA CreditedLine ==
    ASSUME NEW line \in AnyLine
    PROVE  /\ Entered(line) \in Int /\ Entered(Credited(line)) \in Int
           /\ 0 <= Entered(line) + Entered(Credited(line))
           /\ Entered(line) + Entered(Credited(line)) <= 1
           /\ Apart(Entered(Returned(line)), Entered(line)) <= 1
           /\ Apart(Entered(Credited(line)), -Entered(line)) <= 1
<1>1. PICK a \in Nat, x \in Nat, y \in Nat : x = Exact(line)
  BY LineParts
<1>2. PICK r \in Int : r = Rounded(x, Hundred)
  BY RoundedIs
<1>3. PICK s \in Int : s = Rounded(-x, Hundred)
  BY RoundedIs
<1>4. 0 <= r + s /\ r + s <= 1
  BY <1>2, <1>3, RoundedCancel
<1>5. Invoiced(line) = r /\ Invoiced(Credited(line)) = s /\ Invoiced(Returned(line)) = s
  <2>1. Exact(Credited(line)) = -x /\ Exact(Returned(line)) = -x
    BY <1>1, NegatedLine
  <2>2. \A any : Invoiced(any) = Rounded(Exact(any), Hundred)
    BY DEF Invoiced, Exact
  <2> QED BY <1>1, <1>2, <1>3, <2>1, <2>2
<1>6. PICK q \in Nat : q = line.qty
  BY DEF AnyLine
<1>7. Credited(line).qty = q /\ Returned(line).qty = -q
  BY <1>6, NegatedLine
<1>8. /\ Entered(line) = r * Sign(q) /\ Entered(Credited(line)) = s * Sign(q)
      /\ Entered(Returned(line)) = s * Sign(-q)
  BY <1>5, <1>6, <1>7 DEF Entered
<1>9. CASE q = 0
  <2>1. Sign(q) = 0 /\ Sign(-q) = 0
    <3>1. -q = 0
      <4>1. PICK w \in Int : w = -q
        OBVIOUS
      <4>2. w + q = 0
        BY <4>1
      <4>3. w = 0
        BY <1>9, <4>2
      <4> QED BY <4>1, <4>3
    <3>2. Sign(0) = 0
      BY DEF Sign
    <3> QED BY <1>9, <3>1, <3>2
  <2>2. Entered(line) = 0 /\ Entered(Credited(line)) = 0 /\ Entered(Returned(line)) = 0
    BY <1>8, <2>1
  <2> QED BY <2>2 DEF Apart, AbsInt
<1>10. CASE q > 0
  <2>1. Sign(q) = 1 /\ Sign(-q) = -1
    BY <1>10 DEF Sign
  <2>2. Entered(line) = r /\ Entered(Credited(line)) = s /\ Entered(Returned(line)) = -s
    BY <1>8, <2>1
  <2>3. Apart(-s, r) <= 1 /\ Apart(s, -r) <= 1
    BY <1>4 DEF Apart, AbsInt
  <2> QED BY <1>4, <2>2, <2>3
<1> QED BY <1>9, <1>10

(* The document: its lines are counted, and its percentages are such.       *)
LEMMA SheetIs ==
    ASSUME sheet \in Sheets
    PROVE  /\ DOMAIN sheet.lines = 1..LineCount
           /\ \A k \in 1..LineCount : sheet.lines[k] \in AnyLine
           /\ sheet.discount \in 0..Hundred /\ sheet.vat \in 0..Hundred
<1>1. PICK lines \in [1..LineCount -> Lines] : lines = sheet.lines
  BY DEF Sheets
<1>2. DOMAIN lines = 1..LineCount /\ \A k \in 1..LineCount : lines[k] \in Lines
  OBVIOUS
<1>3. Lines \subseteq AnyLine
  BY SheetAssumption DEF Lines, AnyLine
<1>4. sheet.discount \in Percents /\ sheet.vat \in Percents
  BY DEF Sheets
<1> QED BY <1>1, <1>2, <1>3, <1>4, SheetAssumption

LEMMA LineNumbers == IsFiniteSet(1..LineCount) /\ Cardinality(1..LineCount) = LineCount
BY FS_Interval, SheetAssumption

LEMMA TotalsOf ==
    ASSUME sheet \in Sheets, NEW f, DOMAIN f = 1..LineCount, \A k \in 1..LineCount : f[k] \in Int
    PROVE  /\ SumFunctionOnSet(f, 1..LineCount) \in Int
           /\ Totals(f) = [subtotal |-> SumFunctionOnSet(f, 1..LineCount),
                           discount |-> Share(SumFunctionOnSet(f, 1..LineCount), sheet.discount),
                           vat |-> Share(SumFunctionOnSet(f, 1..LineCount)
                                         - Share(SumFunctionOnSet(f, 1..LineCount), sheet.discount), sheet.vat),
                           grand |-> Grand(SumFunctionOnSet(f, 1..LineCount), sheet.discount, sheet.vat)]
<1>1. SumFunctionOnSet(f, 1..LineCount) \in Int
  BY LineNumbers, SumInt
<1>2. PICK a : a = SumFunctionOnSet(f, 1..LineCount)
  OBVIOUS
<1>3. a = SumFunctionOnSet(f, DOMAIN f)
  BY <1>2, Zenon
<1>4. Totals(f) = [subtotal |-> a, discount |-> Share(a, sheet.discount),
                   vat |-> Share(a - Share(a, sheet.discount), sheet.vat),
                   grand |-> Grand(a, sheet.discount, sheet.vat)]
  <2>1. computeQuotationTotals(f, sheet.discount, sheet.vat) =
            [subtotal |-> a, discount |-> Share(a, sheet.discount),
             vat |-> Share(a - Share(a, sheet.discount), sheet.vat),
             grand |-> Grand(a, sheet.discount, sheet.vat)]
    BY <1>3, TotalsAre
  <2> QED BY <2>1, Zenon DEF Totals
<1> QED BY <1>1, <1>2, <1>4, Zenon

(* The amounts of the invoice.                                              *)
LEMMA InvoiceLines ==
    ASSUME sheet \in Sheets
    PROVE  \E f : /\ f = Each(Invoiced) /\ DOMAIN f = 1..LineCount
                  /\ \A k \in 1..LineCount : f[k] = Invoiced(sheet.lines[k]) /\ f[k] \in Nat
<1>1. PICK f : f = [k \in 1..LineCount |-> Invoiced(sheet.lines[k])]
  OBVIOUS
<1>2. DOMAIN f = 1..LineCount /\ \A k \in 1..LineCount : f[k] = Invoiced(sheet.lines[k])
  BY <1>1
<1>3. \A k \in 1..LineCount : Invoiced(sheet.lines[k]) \in Nat
  BY SheetIs, InvoicedNat
<1>4. f = Each(Invoiced)
  BY <1>1, SheetIs DEF Each
<1> QED BY <1>2, <1>3, <1>4

LEMMA RoundedTotals == sheet \in Sheets => TotalsRounded
<1> SUFFICES ASSUME sheet \in Sheets PROVE TotalsRounded
  OBVIOUS
<1>1. PICK f : /\ f = Each(Invoiced) /\ DOMAIN f = 1..LineCount
               /\ \A k \in 1..LineCount : f[k] = Invoiced(sheet.lines[k]) /\ f[k] \in Nat
  BY InvoiceLines
<1>2. PICK d \in 0..Hundred, v \in 0..Hundred : d = sheet.discount /\ v = sheet.vat
  BY SheetIs
<1>3. PICK a \in Nat : a = SumFunctionOnSet(f, 1..LineCount)
  BY <1>1, LineNumbers, SumOfSome
<1>4. d \in Int /\ v \in Int
  BY <1>2
<1>5. PICK r \in Nat : r = Share(a, d) /\ r <= a
  <2>1. Share(a, d) \in Int
    BY <1>4, ShareInt
  <2>2. 0 <= Share(a, d) /\ Share(a, d) <= a
    BY ShareOf
  <2> QED BY <2>1, <2>2
<1>6. PICK b \in Nat : b = a - r
  BY <1>5
<1>7. PICK t \in Nat : t = Share(b, v)
  BY <1>4, ShareInt, ShareOf
<1>8. Totals(f) = [subtotal |-> a, discount |-> r, vat |-> t, grand |-> Grand(a, d, v)]
  <2>1. \A k \in 1..LineCount : f[k] \in Int
    <3> SUFFICES ASSUME NEW k \in 1..LineCount PROVE f[k] \in Int
      OBVIOUS
    <3>1. f[k] \in Nat
      BY <1>1, Zenon
    <3> QED BY <3>1
  <2> QED BY <1>1, <1>2, <1>3, <1>5, <1>6, <1>7, <2>1, TotalsOf
<1>9. /\ 2 * Apart(r * Hundred, a * d) <= Hundred
      /\ 2 * Apart(t * Hundred, b * v) <= Hundred
  BY <1>4, <1>5, <1>7, ShareNear
<1>10. PICK total : total = Totals(f)
  OBVIOUS
<1>11. total.subtotal = a /\ total.discount = r /\ total.vat = t
  BY <1>8, <1>10
<1>12. /\ 2 * Apart(total.discount * Hundred, total.subtotal * sheet.discount) <= Hundred
       /\ 2 * Apart(total.vat * Hundred, (total.subtotal - total.discount) * sheet.vat) <= Hundred
       /\ 0 <= total.discount /\ total.discount <= total.subtotal /\ 0 <= total.vat
  <2>1. 0 <= r /\ r <= a /\ 0 <= t
    BY <1>5
  <2> QED BY <1>2, <1>6, <1>9, <1>11, <2>1, Zenon
<1> QED BY <1>1, <1>10, <1>12, Zenon DEF TotalsRounded

LEMMA GrandOf ==
    ASSUME sheet \in Sheets, NEW f, DOMAIN f = 1..LineCount, \A k \in 1..LineCount : f[k] \in Int,
           NEW a, a = SumFunctionOnSet(f, 1..LineCount)
    PROVE  Totals(f).grand = Grand(a, sheet.discount, sheet.vat)
<1>1. PICK total : total = Totals(f)
  OBVIOUS
<1>2. total = [subtotal |-> a, discount |-> Share(a, sheet.discount),
               vat |-> Share(a - Share(a, sheet.discount), sheet.vat),
               grand |-> Grand(a, sheet.discount, sheet.vat)]
  BY <1>1, TotalsOf
<1>3. total.grand = Grand(a, sheet.discount, sheet.vat)
  BY <1>2
<1> QED BY <1>1, <1>3

(* Lines that are apart by at most a cent.                                  *)
LEMMA TotalsWithin ==
    ASSUME sheet \in Sheets,
           NEW f, DOMAIN f = 1..LineCount, NEW g, DOMAIN g = 1..LineCount,
           \A k \in 1..LineCount : f[k] \in Int /\ g[k] \in Int /\ f[k] <= g[k] + 1 /\ g[k] <= f[k] + 1
    PROVE  Apart(Totals(f).grand, Totals(g).grand) <= 2 * LineCount
<1>1. IsFiniteSet(1..LineCount) /\ Cardinality(1..LineCount) = LineCount
  BY LineNumbers
<1>2. \A k \in 1..LineCount : f[k] \in Int /\ g[k] \in Int /\ f[k] <= g[k] + 1
  OBVIOUS
<1>3. \A k \in 1..LineCount : g[k] \in Int /\ f[k] \in Int /\ g[k] <= f[k] + 1
  OBVIOUS
<1>4. PICK a \in Int : a = SumFunctionOnSet(f, 1..LineCount)
  BY <1>1, <1>2, SumInt
<1>5. PICK b \in Int : b = SumFunctionOnSet(g, 1..LineCount)
  BY <1>1, <1>3, SumInt
<1>6. a <= b + LineCount
  <2>1. SumFunctionOnSet(f, 1..LineCount) <= SumFunctionOnSet(g, 1..LineCount) + Cardinality(1..LineCount)
    BY <1>1, <1>2, SumWithin
  <2> QED BY <1>1, <1>4, <1>5, <2>1
<1>7. b <= a + LineCount
  <2>1. SumFunctionOnSet(g, 1..LineCount) <= SumFunctionOnSet(f, 1..LineCount) + Cardinality(1..LineCount)
    BY <1>1, <1>3, SumWithin
  <2> QED BY <1>1, <1>4, <1>5, <2>1
<1>8. /\ Totals(f).grand = Grand(a, sheet.discount, sheet.vat)
      /\ Totals(g).grand = Grand(b, sheet.discount, sheet.vat)
  BY <1>2, <1>4, <1>5, GrandOf
<1>9. Apart(Grand(a, sheet.discount, sheet.vat), Grand(b, sheet.discount, sheet.vat)) <= 2 * LineCount
  BY <1>6, <1>7, SheetIs, SheetAssumption, GrandWithin
<1> QED BY <1>8, <1>9, Zenon

(* Lines that add up to nothing or a cent.                                  *)
LEMMA TotalsCancel ==
    ASSUME sheet \in Sheets,
           NEW f, DOMAIN f = 1..LineCount, NEW g, DOMAIN g = 1..LineCount,
           \A k \in 1..LineCount : f[k] \in Int /\ g[k] \in Int /\ 0 <= f[k] + g[k] /\ f[k] + g[k] <= 1
    PROVE  Apart(Totals(f).grand, -Totals(g).grand) <= 2 * LineCount
<1>1. IsFiniteSet(1..LineCount) /\ Cardinality(1..LineCount) = LineCount
  BY LineNumbers
<1>2. \A k \in 1..LineCount : f[k] \in Int /\ g[k] \in Int
  OBVIOUS
<1>3. PICK a \in Int : a = SumFunctionOnSet(f, 1..LineCount)
  BY <1>1, <1>2, SumInt
<1>4. PICK b \in Int : b = SumFunctionOnSet(g, 1..LineCount)
  BY <1>1, <1>2, SumInt
<1>5. /\ 0 <= SumFunctionOnSet(f, 1..LineCount) + SumFunctionOnSet(g, 1..LineCount)
      /\ SumFunctionOnSet(f, 1..LineCount) + SumFunctionOnSet(g, 1..LineCount) <= Cardinality(1..LineCount)
  BY <1>1, SumsCancel
<1>6. LineCount \in Nat /\ 1 <= LineCount
  BY SheetAssumption
<1>7. PICK k \in Nat : k = a + b /\ k <= LineCount
  BY <1>1, <1>3, <1>4, <1>5, <1>6
<1>8. /\ Totals(f).grand = Grand(a, sheet.discount, sheet.vat)
      /\ Totals(g).grand = Grand(b, sheet.discount, sheet.vat)
  BY <1>2, <1>3, <1>4, GrandOf
<1>9. Apart(Grand(a, sheet.discount, sheet.vat), -Grand(b, sheet.discount, sheet.vat)) <= 2 * LineCount
  BY <1>6, <1>7, SheetIs, GrandCancel
<1> QED BY <1>8, <1>9, Zenon

LEMMA QuotedTotals == sheet \in Sheets => InvoicedAsQuoted
<1> SUFFICES ASSUME sheet \in Sheets, NEW parts \in Offers
             PROVE  /\ \A k \in DOMAIN sheet.lines :
                          Apart(parts[k].after + parts[k].discountAmount,
                                sheet.lines[k].qty * sheet.lines[k].price) <= 1
                    /\ Apart(Totals([k \in DOMAIN sheet.lines |-> parts[k].after]).grand,
                             Totals(Each(Invoiced)).grand) <= 2 * LineCount
  BY DEF InvoicedAsQuoted
<1>1. DOMAIN sheet.lines = 1..LineCount /\ \A k \in 1..LineCount : sheet.lines[k] \in AnyLine
  BY SheetIs
<1>2. \A k \in 1..LineCount : parts[k] \in Quoted(sheet.lines[k])
  BY <1>1 DEF Offers
<1>3. ASSUME NEW k \in 1..LineCount
      PROVE  /\ parts[k].after \in Int
             /\ parts[k].after <= Invoiced(sheet.lines[k]) + 1
             /\ Invoiced(sheet.lines[k]) <= parts[k].after + 1
             /\ Apart(parts[k].after + parts[k].discountAmount,
                      sheet.lines[k].qty * sheet.lines[k].price) <= 1
  <2>0. PICK line \in AnyLine : line = sheet.lines[k]
    BY <1>1
  <2>1. PICK part \in Quoted(line) : part = parts[k]
    BY <1>2, <2>0
  <2>2. /\ part.after \in Int
        /\ part.after <= Invoiced(line) + 1 /\ Invoiced(line) <= part.after + 1
        /\ Apart(part.after + part.discountAmount, line.qty * line.price) <= 1
    BY QuotedLine
  <2> QED BY <2>0, <2>1, <2>2, Zenon
<1>4. PICK f : /\ f = Each(Invoiced) /\ DOMAIN f = 1..LineCount
               /\ \A k \in 1..LineCount : f[k] = Invoiced(sheet.lines[k]) /\ f[k] \in Nat
  BY InvoiceLines
<1>5. PICK o : o = [k \in 1..LineCount |-> parts[k].after]
  OBVIOUS
<1>6. DOMAIN o = 1..LineCount /\ \A k \in 1..LineCount : o[k] = parts[k].after
  BY <1>5
<1>7. \A k \in 1..LineCount : o[k] \in Int /\ f[k] \in Int /\ o[k] <= f[k] + 1 /\ f[k] <= o[k] + 1
  <2> SUFFICES ASSUME NEW k \in 1..LineCount
               PROVE  o[k] \in Int /\ f[k] \in Int /\ o[k] <= f[k] + 1 /\ f[k] <= o[k] + 1
    OBVIOUS
  <2>1. PICK i, q : i = Invoiced(sheet.lines[k]) /\ q = parts[k].after
    OBVIOUS
  <2>2. f[k] = i /\ i \in Nat /\ o[k] = q
    BY <1>4, <1>6, <2>1, Zenon
  <2>3. q \in Int /\ q <= i + 1 /\ i <= q + 1
    BY <1>3, <2>1, Zenon
  <2> QED BY <2>2, <2>3
<1>8. Apart(Totals(o).grand, Totals(f).grand) <= 2 * LineCount
  BY <1>4, <1>6, <1>7, TotalsWithin
<1>9. o = [k \in DOMAIN sheet.lines |-> parts[k].after]
  BY <1>1, <1>5
<1> QED BY <1>1, <1>3, <1>4, <1>8, <1>9

LEMMA CreditedTotals == sheet \in Sheets => CreditsCancel
<1> SUFFICES ASSUME sheet \in Sheets PROVE CreditsCancel
  OBVIOUS
<1>1. DOMAIN sheet.lines = 1..LineCount /\ \A k \in 1..LineCount : sheet.lines[k] \in AnyLine
  BY SheetIs
<1>2. ASSUME NEW k \in 1..LineCount
      PROVE  /\ Entered(sheet.lines[k]) \in Int /\ Entered(Credited(sheet.lines[k])) \in Int
             /\ 0 <= Entered(sheet.lines[k]) + Entered(Credited(sheet.lines[k]))
             /\ Entered(sheet.lines[k]) + Entered(Credited(sheet.lines[k])) <= 1
             /\ Apart(Entered(Returned(sheet.lines[k])), Entered(sheet.lines[k])) <= 1
             /\ Apart(Entered(Credited(sheet.lines[k])), -Entered(sheet.lines[k])) <= 1
  BY <1>1, CreditedLine
<1>3. PICK f : f = [k \in 1..LineCount |-> Entered(Credited(sheet.lines[k]))]
  OBVIOUS
<1>4. PICK g : g = [k \in 1..LineCount |-> Entered(sheet.lines[k])]
  OBVIOUS
<1>5. /\ DOMAIN f = 1..LineCount /\ DOMAIN g = 1..LineCount
      /\ \A k \in 1..LineCount : f[k] = Entered(Credited(sheet.lines[k])) /\ g[k] = Entered(sheet.lines[k])
  BY <1>3, <1>4
<1>6. \A k \in 1..LineCount : f[k] \in Int /\ g[k] \in Int /\ 0 <= f[k] + g[k] /\ f[k] + g[k] <= 1
  <2> SUFFICES ASSUME NEW k \in 1..LineCount
               PROVE  f[k] \in Int /\ g[k] \in Int /\ 0 <= f[k] + g[k] /\ f[k] + g[k] <= 1
    OBVIOUS
  <2>1. PICK c, e : c = Entered(Credited(sheet.lines[k])) /\ e = Entered(sheet.lines[k])
    OBVIOUS
  <2>2. f[k] = c /\ g[k] = e
    BY <1>5, <2>1, Zenon
  <2>3. e \in Int /\ c \in Int /\ 0 <= e + c /\ e + c <= 1
    BY <1>2, <2>1, Zenon
  <2> QED BY <2>2, <2>3
<1>7. Apart(Totals(f).grand, -Totals(g).grand) <= 2 * LineCount
  BY <1>5, <1>6, TotalsCancel
<1>8. f = Each(LAMBDA line : Entered(Credited(line))) /\ g = Each(Entered)
  BY <1>1, <1>3, <1>4, Zenon DEF Each
<1>9. Apart(Totals(Each(LAMBDA line : Entered(Credited(line)))).grand,
            -Totals(Each(Entered)).grand) <= 2 * LineCount
  BY <1>7, <1>8, Zenon
<1>10. \A k \in DOMAIN sheet.lines :
          /\ Apart(Entered(Returned(sheet.lines[k])), Entered(sheet.lines[k])) <= 1
          /\ Apart(Entered(Credited(sheet.lines[k])), -Entered(sheet.lines[k])) <= 1
  BY <1>1, <1>2, Zenon
<1> QED BY <1>9, <1>10, Zenon DEF CreditsCancel

-----------------------------------------------------------------------------
(* Every behaviour is one call: the inputs stay, and call holds what the    *)
(* function returned for them.                                              *)
Inputs ==
    /\ rows \in CountedRows
    /\ held \in Quantities
    /\ qty \in 1..MaxQty
    /\ call.fn = "totals" => sheet \in Sheets

Called ==
    \/ call = [fn |-> "none"]
    \/ call = [fn |-> "totals"]
    \/ call = [fn |-> "reserve", result |-> reserveBestEffort(rows, qty)]
    \/ call = [fn |-> "deliver", result |-> deliverFromReservations(rows, qty)]

IInv == Inputs /\ Called

LEMMA InitCalled == Init => IInv
<1> SUFFICES ASSUME Init PROVE IInv
  OBVIOUS
<1>1. CASE CallInit
  <2>1. rows \in CountedRows /\ held \in Quantities /\ qty \in 1..MaxQty
    BY <1>1, MaxUnitsAssumption DEF CallInit, CountedRows, Quantities
  <2>2. call = [fn |-> "none"]
    BY <1>1 DEF CallInit
  <2> QED BY <2>1, <2>2 DEF IInv, Inputs, Called
<1>2. CASE /\ rows = [l \in Locations |-> EmptyRow] /\ held = NoQuantities /\ qty = 1
           /\ call = [fn |-> "totals"]
           /\ sheet \in Sheets
  <2>1. rows \in CountedRows /\ held \in Quantities /\ qty \in 1..MaxQty
    BY <1>2, MaxQtyAssumption DEF CountedRows, EmptyRow, Quantities, NoQuantities
  <2> QED BY <1>2, <2>1 DEF IInv, Inputs, Called
<1> QED BY <1>1, <1>2 DEF Init

LEMMA StepCalled == IInv /\ [Next]_<<callVars, sheet>> => IInv'
<1> SUFFICES ASSUME IInv, [Next]_<<callVars, sheet>> PROVE IInv'
  OBVIOUS
<1>1. CASE Reserve /\ UNCHANGED sheet
  <2>1. /\ rows' = rows /\ held' = held /\ qty' = qty /\ sheet' = sheet
        /\ call' = [fn |-> "reserve", result |-> reserveBestEffort(rows, qty)]
    BY <1>1 DEF Reserve
  <2>2. reserveBestEffort(rows, qty)' = reserveBestEffort(rows, qty)
    BY <2>1 DEF reserveBestEffort
  <2>3. Called'
    BY <2>1, <2>2 DEF Called
  <2>4. Inputs'
    BY <2>1 DEF IInv, Inputs
  <2> QED BY <2>3, <2>4 DEF IInv
<1>2. CASE Deliver /\ UNCHANGED sheet
  <2>1. /\ rows' = rows /\ held' = held /\ qty' = qty /\ sheet' = sheet
        /\ call' = [fn |-> "deliver", result |-> deliverFromReservations(rows, qty)]
    BY <1>2 DEF Deliver
  <2>2. deliverFromReservations(rows, qty)' = deliverFromReservations(rows, qty)
    <3>1. rows' = rows /\ held' = held /\ qty' = qty
      BY <2>1
    <3> QED BY <3>1, SMT DEF deliverFromReservations, Loop, MapThenFoldSet, TakeReserved, TakeFree
  <2>3. Called'
    BY <2>1, <2>2 DEF Called
  <2>4. Inputs'
    BY <2>1 DEF IInv, Inputs
  <2> QED BY <2>3, <2>4 DEF IInv
<1>3. CASE UNCHANGED <<callVars, sheet>>
  <2>1. rows' = rows /\ held' = held /\ qty' = qty /\ sheet' = sheet /\ call' = call
    BY <1>3 DEF callVars
  <2>2. reserveBestEffort(rows, qty)' = reserveBestEffort(rows, qty)
    BY <2>1 DEF reserveBestEffort
  <2>3. deliverFromReservations(rows, qty)' = deliverFromReservations(rows, qty)
    BY <2>1, SMT DEF deliverFromReservations, Loop, MapThenFoldSet, TakeReserved, TakeFree
  <2>4. Called'
    BY <2>1, <2>2, <2>3 DEF IInv, Called
  <2>5. Inputs'
    BY <2>1 DEF IInv, Inputs
  <2> QED BY <2>4, <2>5 DEF IInv
<1> QED BY <1>1, <1>2, <1>3 DEF Next, CallNext

LEMMA AlwaysCalled == Spec => []IInv
BY InitCalled, StepCalled, PTL DEF Spec

(* The greedy operators that the rest of the model uses state what the loop *)
(* of reserveBestEffort in stock-engine.ts computes: for any locations,     *)
(* rows and quantity it reserves the one allocation that Reservations       *)
(* admits and returns the shortage.                                         *)
THEOREM ReserveIsGreedy == Spec => []ReserveAgrees
<1>1. IInv => ReserveAgrees
  <2> SUFFICES ASSUME IInv, call.fn = "reserve"
               PROVE  \E take \in Reservations(rows, qty) :
                          /\ Reservations(rows, qty) = {take}
                          /\ call.result = [rows |-> WithReserved(rows, take), remaining |-> qty - Total(take)]
    BY DEF ReserveAgrees
  <2>1. call.result = reserveBestEffort(rows, qty)
    BY DEF IInv, Called
  <2>2. rows \in CountedRows /\ qty \in 0..MaxQty
    BY MaxQtyAssumption DEF IInv, Inputs
  <2> QED BY <2>1, <2>2, ReserveComputes
<1> QED BY <1>1, AlwaysCalled, PTL

(* deliverFromReservations throws exactly when CanDeliver is false, and     *)
(* otherwise its two loops leave the rows that Consumed states.             *)
THEOREM DeliverIsGreedy == Spec => []DeliverAgrees
<1>1. IInv => DeliverAgrees
  <2> SUFFICES ASSUME IInv, call.fn = "deliver"
               PROVE  /\ call.result.failed <=> ~CanDeliver(rows, held, qty)
                      /\ ~call.result.failed =>
                            \E taken \in FromReserved(rows, held, qty) :
                                \E free \in FromFree(rows, taken, qty) :
                                    call.result.rows = Consumed(rows, taken, free)
    BY DEF DeliverAgrees
  <2>1. PICK end : end = call.result
    OBVIOUS
  <2>2. end = deliverFromReservations(rows, qty)
    BY <2>1 DEF IInv, Called
  <2>3. rows \in CountedRows /\ held \in Quantities /\ qty \in 0..MaxQty
    BY MaxQtyAssumption DEF IInv, Inputs
  <2>4. /\ end.failed <=> ~CanDeliver(rows, held, qty)
        /\ ~end.failed =>
              \E taken \in FromReserved(rows, held, qty) :
                  \E free \in FromFree(rows, taken, qty) : end.rows = Consumed(rows, taken, free)
    BY <2>2, <2>3, DeliverComputes
  <2> QED BY <2>1, <2>4
<1> QED BY <1>1, AlwaysCalled, PTL

(* The amounts of a document agree for any lines, prices and percentages:   *)
(* the discount and the VAT of an ordinary invoice are within half a cent   *)
(* of their percentages and never negative, the invoice of what a quotation *)
(* offered is within two cents a line of it, and a credit note takes back   *)
(* what it credits, within two cents a line.                                *)
THEOREM MoneyIsConsistent == Spec => []MoneyAgrees
<1>1. IInv => MoneyAgrees
  <2> SUFFICES ASSUME IInv, call.fn = "totals" PROVE TotalsRounded /\ InvoicedAsQuoted /\ CreditsCancel
    BY DEF MoneyAgrees
  <2>1. sheet \in Sheets
    BY DEF IInv, Inputs
  <2> QED BY <2>1, RoundedTotals, QuotedTotals, CreditedTotals
<1> QED BY <1>1, AlwaysCalled, PTL
=============================================================================
