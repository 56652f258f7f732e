---------------------------- MODULE SumTheorems ----------------------------
(***************************************************************************)
(* Sums over finite sets. The books of the ERP are sums: stock over         *)
(* locations, reservations over orders, money over invoices. The models     *)
(* write them SumFunctionOnSet(f, S); this module proves how such a sum     *)
(* changes when an element is added or a summand changes.                   *)
(*                                                                         *)
(* Induction over a finite set is used in the form of a set of subsets that *)
(* holds the empty set and grows element by element (FiniteInduction): it   *)
(* follows from the strict subset relation being well founded.              *)
(***************************************************************************)
EXTENDS Integers, FiniteSets, Functions, FiniteSetTheorems, WellFoundedInduction, TLAPS

LEMMA MinimalSubset ==
    ASSUME NEW S, IsFiniteSet(S), NEW T \in SUBSET SUBSET S, T # {}
    PROVE  \E U \in T : \A V \in T : V \subseteq U => V = U
<1>1. IsWellFoundedOn(StrictSubsetOrdering(S), SUBSET S)
  BY FS_StrictSubsetOrderingWellFounded, FS_FiniteSubsetsOfFinite
<1>2. PICK U \in T : \A V \in T : <<V, U>> \notin StrictSubsetOrdering(S)
  BY <1>1, WFMin
<1>3. ASSUME NEW V \in T, V \subseteq U, V # U PROVE FALSE
  BY <1>2, <1>3 DEF StrictSubsetOrdering
<1> QED BY <1>3

(* What holds of the empty set and is kept when an element of S is added    *)
(* holds of S.                                                              *)
LEMMA FiniteInduction ==
    ASSUME NEW S, IsFiniteSet(S), NEW T \in SUBSET SUBSET S,
           {} \in T, \A U \in T, x \in S : U \cup {x} \in T
    PROVE  S \in T
<1>1. SUFFICES ASSUME S \notin T PROVE FALSE
  OBVIOUS
<1>2. PICK Missing \in SUBSET SUBSET S : Missing = (SUBSET S) \ T
  OBVIOUS
<1>3. PICK U \in Missing : \A V \in Missing : V \subseteq U => V = U
  BY <1>1, <1>2, MinimalSubset
<1>4. PICK x \in U : TRUE
  BY <1>2, <1>3
<1>5. U \ {x} \in T
  BY <1>2, <1>3, <1>4
<1>6. (U \ {x}) \cup {x} = U /\ x \in S
  BY <1>2, <1>3, <1>4
<1> QED BY <1>2, <1>3, <1>5, <1>6

-----------------------------------------------------------------------------
(* The function that the fold computes, on the subsets of S.                *)
Pick(s) == CHOOSE x \in s : TRUE
Unfolds(f, D, g) ==
    g = [s \in D |-> IF s = {} THEN 0 ELSE f[Pick(s)] + g[s \ {Pick(s)}]]
Iter(f, S) == CHOOSE g : Unfolds(f, SUBSET S, g)

LEMMA SumIsIter == \A f, S : SumFunctionOnSet(f, S) = Iter(f, S)[S]
BY DEF SumFunctionOnSet, FoldFunctionOnSet, MapThenFoldSet, Iter, Unfolds, Pick

LEMMA PickIn == \A s : s # {} => Pick(s) \in s
BY DEF Pick

(* Two such functions agree wherever both are defined.                      *)
LEMMA UnfoldsUnique ==
    ASSUME NEW f, NEW A, IsFiniteSet(A), NEW B, NEW g, NEW h,
           Unfolds(f, SUBSET A, g), Unfolds(f, SUBSET B, h)
    PROVE  \A s \in (SUBSET A) \cap (SUBSET B) : g[s] = h[s]
<1>1. PICK Differ \in SUBSET SUBSET A :
          Differ = {s \in (SUBSET A) \cap (SUBSET B) : g[s] # h[s]}
  OBVIOUS
<1>2. SUFFICES ASSUME Differ # {} PROVE FALSE
  BY <1>1
<1>3. PICK s \in Differ : \A t \in Differ : t \subseteq s => t = s
  BY <1>2, MinimalSubset
<1>4. s # {}
  BY <1>1, <1>3 DEF Unfolds
<1>5. Pick(s) \in s
  BY <1>4, PickIn
<1>6. s \ {Pick(s)} \in (SUBSET A) \cap (SUBSET B) /\ s \ {Pick(s)} \notin Differ
  BY <1>1, <1>3, <1>5
<1>7. g[s \ {Pick(s)}] = h[s \ {Pick(s)}]
  BY <1>1, <1>6
<1>8. g[s] = f[Pick(s)] + g[s \ {Pick(s)}] /\ h[s] = f[Pick(s)] + h[s \ {Pick(s)}]
  BY <1>1, <1>3, <1>4 DEF Unfolds
<1> QED BY <1>1, <1>3, <1>7, <1>8

(* On the subsets of a finite set there is such a function.                 *)
LEMMA IterUnfolds ==
    ASSUME NEW f, NEW S, IsFiniteSet(S)
    PROVE  Unfolds(f, SUBSET S, Iter(f, S))
<1>1. PICK Missing \in SUBSET SUBSET S :
          Missing = {U \in SUBSET S : ~ Unfolds(f, SUBSET U, Iter(f, U))}
  OBVIOUS
<1>2. SUFFICES ASSUME Missing # {} PROVE FALSE
  BY <1>1
<1>3. PICK U \in Missing : \A V \in Missing : V \subseteq U => V = U
  BY <1>2, MinimalSubset
<1>4. \A V \in SUBSET U : V # U => Unfolds(f, SUBSET V, Iter(f, V)) /\ IsFiniteSet(V)
  BY <1>1, <1>3, FS_Subset
<1>5. PICK h : h = [s \in SUBSET U |-> IF s = {} THEN 0
                       ELSE f[Pick(s)] + Iter(f, s \ {Pick(s)})[s \ {Pick(s)}]]
  OBVIOUS
<1>6. ASSUME NEW t \in SUBSET U, t # U PROVE h[t] = Iter(f, t)[t]
  <2>1. CASE t = {}
    BY <1>4, <1>5, <1>6, <2>1 DEF Unfolds
  <2>2. CASE t # {}
    <3>1. PICK v \in SUBSET t : v = t \ {Pick(t)}
      OBVIOUS
    <3>2. v # U /\ v \in SUBSET U /\ v \in SUBSET v
      BY <1>6, <3>1
    <3>3. Unfolds(f, SUBSET t, Iter(f, t)) /\ Unfolds(f, SUBSET v, Iter(f, v)) /\ IsFiniteSet(t)
      BY <1>4, <1>6, <3>2
    <3>4. \A s \in (SUBSET t) \cap (SUBSET v) : Iter(f, t)[s] = Iter(f, v)[s]
      BY <3>3, UnfoldsUnique
    <3>5. Iter(f, t)[t] = f[Pick(t)] + Iter(f, t)[v]
      BY <2>2, <3>1, <3>3 DEF Unfolds
    <3>6. h[t] = f[Pick(t)] + Iter(f, v)[v]
      BY <1>5, <2>2, <3>1
    <3> QED BY <3>1, <3>4, <3>5, <3>6
  <2> QED BY <2>1, <2>2
<1>7. ASSUME NEW s \in SUBSET U, s # {}
      PROVE  h[s] = f[Pick(s)] + h[s \ {Pick(s)}]
  <2>1. PICK t \in SUBSET U : t = s \ {Pick(s)}
    OBVIOUS
  <2>2. t # U
    BY <1>7, <2>1, PickIn
  <2> QED BY <1>5, <1>6, <1>7, <2>1, <2>2
<1>8. Unfolds(f, SUBSET U, h)
  BY <1>5, <1>7 DEF Unfolds
<1>9. Unfolds(f, SUBSET U, Iter(f, U))
  BY <1>8 DEF Iter
<1> QED BY <1>1, <1>3, <1>9

LEMMA SumUnfolds ==
    ASSUME NEW f, NEW S, IsFiniteSet(S)
    PROVE  SumFunctionOnSet(f, S) =
               IF S = {} THEN 0 ELSE f[Pick(S)] + SumFunctionOnSet(f, S \ {Pick(S)})
<1>1. Unfolds(f, SUBSET S, Iter(f, S))
  BY IterUnfolds
<1>2. PICK t \in SUBSET S : t = S \ {Pick(S)}
  OBVIOUS
<1>3. Unfolds(f, SUBSET t, Iter(f, t)) /\ IsFiniteSet(t)
  BY IterUnfolds, FS_Subset
<1>4. \A s \in (SUBSET S) \cap (SUBSET t) : Iter(f, S)[s] = Iter(f, t)[s]
  BY <1>1, <1>3, UnfoldsUnique
<1>5. Iter(f, S)[S] = IF S = {} THEN 0 ELSE f[Pick(S)] + Iter(f, S)[t]
  BY <1>1, <1>2 DEF Unfolds
<1> QED BY <1>2, <1>4, <1>5, SumIsIter

-----------------------------------------------------------------------------
(* What the models need of a sum.                                           *)

LEMMA SumEmpty == \A f : SumFunctionOnSet(f, {}) = 0
BY SumUnfolds, FS_EmptySet

LEMMA SumInt ==
    ASSUME NEW f, NEW S, IsFiniteSet(S), \A x \in S : f[x] \in Int
    PROVE  SumFunctionOnSet(f, S) \in Int
<1>1. PICK Missing \in SUBSET SUBSET S :
          Missing = {U \in SUBSET S : SumFunctionOnSet(f, U) \notin Int}
  OBVIOUS
<1>2. SUFFICES ASSUME Missing # {} PROVE FALSE
  BY <1>1
<1>3. PICK U \in Missing : \A V \in Missing : V \subseteq U => V = U
  BY <1>2, MinimalSubset
<1>4. SumFunctionOnSet(f, U) =
          IF U = {} THEN 0 ELSE f[Pick(U)] + SumFunctionOnSet(f, U \ {Pick(U)})
  BY <1>1, <1>3, SumUnfolds, FS_Subset
<1>5. U # {}
  BY <1>1, <1>3, <1>4
<1>6. Pick(U) \in U
  BY <1>5, PickIn
<1>7. SumFunctionOnSet(f, U \ {Pick(U)}) \in Int /\ f[Pick(U)] \in Int
  BY <1>1, <1>3, <1>6
<1> QED BY <1>1, <1>3, <1>4, <1>5, <1>7

(* Any element can be taken out of a sum.                                   *)
LEMMA SumRemove ==
    ASSUME NEW f, NEW S, IsFiniteSet(S), \A x \in S : f[x] \in Int
    PROVE  \A x \in S : SumFunctionOnSet(f, S) = f[x] + SumFunctionOnSet(f, S \ {x})
<1>1. PICK Missing \in SUBSET SUBSET S :
          Missing = {U \in SUBSET S : \E x \in U :
                       SumFunctionOnSet(f, U) # f[x] + SumFunctionOnSet(f, U \ {x})}
  OBVIOUS
<1>2. SUFFICES ASSUME Missing # {} PROVE FALSE
  BY <1>1
<1>3. PICK U \in Missing : \A V \in Missing : V \subseteq U => V = U
  BY <1>2, MinimalSubset
<1>4. PICK x \in U : SumFunctionOnSet(f, U) # f[x] + SumFunctionOnSet(f, U \ {x})
  BY <1>1, <1>3
<1>5. U \subseteq S /\ IsFiniteSet(U)
  BY <1>1, <1>3, FS_Subset
<1>6. PICK p \in U : p = Pick(U)
  BY <1>4, PickIn
<1>7. SumFunctionOnSet(f, U) = f[p] + SumFunctionOnSet(f, U \ {p})
  BY <1>4, <1>5, <1>6, SumUnfolds
<1>8. p # x
  BY <1>4, <1>7
<1>9. U \ {p} \notin Missing /\ U \ {x} \notin Missing
  BY <1>3, <1>4
<1>10. SumFunctionOnSet(f, U \ {p}) = f[x] + SumFunctionOnSet(f, (U \ {p}) \ {x})
  BY <1>1, <1>4, <1>5, <1>8, <1>9
<1>11. SumFunctionOnSet(f, U \ {x}) = f[p] + SumFunctionOnSet(f, (U \ {x}) \ {p})
  BY <1>1, <1>5, <1>6, <1>8, <1>9
<1>12. SumFunctionOnSet(f, (U \ {p}) \ {x}) = SumFunctionOnSet(f, (U \ {x}) \ {p})
  <2>1. (U \ {p}) \ {x} = (U \ {x}) \ {p}
    OBVIOUS
  <2> QED BY <2>1, Zenon
<1>13. SumFunctionOnSet(f, (U \ {p}) \ {x}) \in Int
  <2>1. IsFiniteSet((U \ {p}) \ {x}) /\ \A y \in (U \ {p}) \ {x} : f[y] \in Int
    BY <1>5, FS_Subset
  <2> QED BY <2>1, SumInt
<1>14. f[x] \in Int /\ f[p] \in Int
  BY <1>4, <1>5, <1>6
<1> QED BY <1>4, <1>7, <1>10, <1>11, <1>12, <1>13, <1>14

LEMMA SumAddElement ==
    ASSUME NEW f, NEW S, IsFiniteSet(S), NEW x, x \notin S,
           \A y \in S \cup {x} : f[y] \in Int
    PROVE  SumFunctionOnSet(f, S \cup {x}) = SumFunctionOnSet(f, S) + f[x]
<1>1. IsFiniteSet(S \cup {x}) /\ x \in S \cup {x} /\ (S \cup {x}) \ {x} = S
  BY FS_AddElement
<1>2. SumFunctionOnSet(f, S \cup {x}) = f[x] + SumFunctionOnSet(f, (S \cup {x}) \ {x})
  BY <1>1, SumRemove
<1>3. SumFunctionOnSet(f, (S \cup {x}) \ {x}) = SumFunctionOnSet(f, S)
  BY <1>1, Zenon
<1>4. SumFunctionOnSet(f, S) \in Int
  BY SumInt
<1> QED BY <1>2, <1>3, <1>4

(* Equal summands give equal sums.                                          *)
LEMMA SumEqual ==
    ASSUME NEW f, NEW g, NEW S, IsFiniteSet(S),
           \A x \in S : f[x] \in Int /\ f[x] = g[x]
    PROVE  SumFunctionOnSet(f, S) = SumFunctionOnSet(g, S)
<1>1. PICK T \in SUBSET SUBSET S :
          T = {U \in SUBSET S : SumFunctionOnSet(f, U) = SumFunctionOnSet(g, U)}
  OBVIOUS
<1>2. {} \in T
  BY <1>1, SumEmpty
<1>3. ASSUME NEW U \in T, NEW x \in S PROVE U \cup {x} \in T
  <2>1. CASE x \in U
    BY <1>1, <2>1
  <2>2. CASE x \notin U
    <3>1. IsFiniteSet(U) /\ U \subseteq S
      BY <1>1, FS_Subset
    <3>2. SumFunctionOnSet(f, U \cup {x}) = SumFunctionOnSet(f, U) + f[x]
      BY <2>2, <3>1, SumAddElement
    <3>3. SumFunctionOnSet(g, U \cup {x}) = SumFunctionOnSet(g, U) + g[x]
      <4>1. \A y \in U \cup {x} : g[y] \in Int
        BY <3>1
      <4> QED BY <2>2, <3>1, <4>1, SumAddElement
    <3> QED BY <1>1, <3>2, <3>3
  <2> QED BY <2>1, <2>2
<1> QED BY <1>1, <1>2, <1>3, FiniteInduction

(* A sum of sums is the sum over both.                                      *)
LEMMA SumPlus ==
    ASSUME NEW f, NEW g, NEW h, NEW S, IsFiniteSet(S),
           \A x \in S : f[x] \in Int /\ g[x] \in Int /\ h[x] = f[x] + g[x]
    PROVE  SumFunctionOnSet(h, S) = SumFunctionOnSet(f, S) + SumFunctionOnSet(g, S)
<1>1. PICK T \in SUBSET SUBSET S :
          T = {U \in SUBSET S : SumFunctionOnSet(h, U)
                   = SumFunctionOnSet(f, U) + SumFunctionOnSet(g, U)}
  OBVIOUS
<1>2. {} \in T
  BY <1>1, SumEmpty
<1>3. ASSUME NEW U \in T, NEW x \in S PROVE U \cup {x} \in T
  <2>1. CASE x \in U
    BY <1>1, <2>1
  <2>2. CASE x \notin U
    <3>1. IsFiniteSet(U) /\ U \subseteq S
      BY <1>1, FS_Subset
    <3>2. SumFunctionOnSet(f, U \cup {x}) = SumFunctionOnSet(f, U) + f[x]
      BY <2>2, <3>1, SumAddElement
    <3>3. SumFunctionOnSet(g, U \cup {x}) = SumFunctionOnSet(g, U) + g[x]
      BY <2>2, <3>1, SumAddElement
    <3>4. SumFunctionOnSet(h, U \cup {x}) = SumFunctionOnSet(h, U) + h[x]
      <4>1. \A y \in U \cup {x} : h[y] \in Int
        BY <3>1
      <4> QED BY <2>2, <3>1, <4>1, SumAddElement
    <3>5. SumFunctionOnSet(f, U) \in Int /\ SumFunctionOnSet(g, U) \in Int
      BY <3>1, SumInt
    <3>6. SumFunctionOnSet(h, U) = SumFunctionOnSet(f, U) + SumFunctionOnSet(g, U)
      BY <1>1
    <3>7. SumFunctionOnSet(h, U \cup {x})
            = SumFunctionOnSet(f, U \cup {x}) + SumFunctionOnSet(g, U \cup {x})
      BY <3>2, <3>3, <3>4, <3>5, <3>6
    <3> QED BY <1>1, <3>7
  <2> QED BY <2>1, <2>2
<1> QED BY <1>1, <1>2, <1>3, FiniteInduction

(* When one summand changes, the sum changes by as much.                    *)
LEMMA SumChange ==
    ASSUME NEW f, NEW g, NEW S, IsFiniteSet(S), NEW x \in S,
           g[x] \in Int, \A y \in S : f[y] \in Int, \A y \in S \ {x} : g[y] = f[y]
    PROVE  SumFunctionOnSet(g, S) = SumFunctionOnSet(f, S) + g[x] - f[x]
<1>1. \A y \in S : g[y] \in Int
  OBVIOUS
<1>2. IsFiniteSet(S \ {x}) /\ \A y \in S \ {x} : f[y] \in Int
  BY FS_Subset
<1>3. SumFunctionOnSet(f, S) = f[x] + SumFunctionOnSet(f, S \ {x})
  BY SumRemove
<1>4. SumFunctionOnSet(g, S) = g[x] + SumFunctionOnSet(g, S \ {x})
  BY <1>1, SumRemove
<1>5. SumFunctionOnSet(f, S \ {x}) = SumFunctionOnSet(g, S \ {x})
  BY <1>2, SumEqual
<1>6. SumFunctionOnSet(f, S \ {x}) \in Int
  BY <1>2, SumInt
<1> QED BY <1>3, <1>4, <1>5, <1>6

(* Larger summands give a larger sum.                                       *)
LEMMA SumMonotone ==
    ASSUME NEW f, NEW g, NEW S, IsFiniteSet(S),
           \A x \in S : f[x] \in Int /\ g[x] \in Int /\ f[x] <= g[x]
    PROVE  SumFunctionOnSet(f, S) <= SumFunctionOnSet(g, S)
<1>1. PICK T \in SUBSET SUBSET S :
          T = {U \in SUBSET S : SumFunctionOnSet(f, U) <= SumFunctionOnSet(g, U)}
  OBVIOUS
<1>2. {} \in T
  BY <1>1, SumEmpty
<1>3. ASSUME NEW U \in T, NEW x \in S PROVE U \cup {x} \in T
  <2>1. CASE x \in U
    BY <1>1, <2>1
  <2>2. CASE x \notin U
    <3>1. IsFiniteSet(U) /\ U \subseteq S
      BY <1>1, FS_Subset
    <3>2. SumFunctionOnSet(f, U \cup {x}) = SumFunctionOnSet(f, U) + f[x]
      BY <2>2, <3>1, SumAddElement
    <3>3. SumFunctionOnSet(g, U \cup {x}) = SumFunctionOnSet(g, U) + g[x]
      BY <2>2, <3>1, SumAddElement
    <3>4. SumFunctionOnSet(f, U) \in Int /\ SumFunctionOnSet(g, U) \in Int
      BY <3>1, SumInt
    <3>5. SumFunctionOnSet(f, U) <= SumFunctionOnSet(g, U)
      BY <1>1
    <3>6. SumFunctionOnSet(f, U \cup {x}) <= SumFunctionOnSet(g, U \cup {x})
      BY <3>2, <3>3, <3>4, <3>5
    <3> QED BY <1>1, <3>6
  <2> QED BY <2>1, <2>2
<1> QED BY <1>1, <1>2, <1>3, FiniteInduction

(* Sums of smaller numbers are equal only if the numbers are.              *)
LEMMA SumTight ==
    ASSUME NEW f, NEW g, NEW S, IsFiniteSet(S),
           \A x \in S : f[x] \in Int /\ g[x] \in Int /\ f[x] <= g[x],
           SumFunctionOnSet(f, S) = SumFunctionOnSet(g, S)
    PROVE  \A x \in S : f[x] = g[x]
<1> SUFFICES ASSUME NEW x \in S PROVE f[x] = g[x]
  OBVIOUS
<1>1. IsFiniteSet(S \ {x})
  BY FS_Subset
<1>2. /\ SumFunctionOnSet(f, S) = f[x] + SumFunctionOnSet(f, S \ {x})
      /\ SumFunctionOnSet(g, S) = g[x] + SumFunctionOnSet(g, S \ {x})
  BY SumRemove
<1>3. SumFunctionOnSet(f, S \ {x}) <= SumFunctionOnSet(g, S \ {x})
  BY <1>1, SumMonotone
<1>4. SumFunctionOnSet(f, S \ {x}) \in Int /\ SumFunctionOnSet(g, S \ {x}) \in Int
  BY <1>1, SumInt
<1>5. f[x] \in Int /\ g[x] \in Int /\ f[x] <= g[x]
  OBVIOUS
<1>6. f[x] + SumFunctionOnSet(f, S \ {x}) = g[x] + SumFunctionOnSet(g, S \ {x})
  BY <1>2
<1>7. ASSUME NEW a \in Int, NEW b \in Int, NEW c \in Int, NEW d \in Int, a + c = b + d, a <= b, c <= d
      PROVE  a = b
  BY <1>7
<1> QED BY <1>3, <1>4, <1>5, <1>6, <1>7

(* Summands that are apart by at most one make sums that are apart by at    *)
(* most their number.                                                       *)
LEMMA SumWithin ==
    ASSUME NEW f, NEW g, NEW S, IsFiniteSet(S),
           \A x \in S : f[x] \in Int /\ g[x] \in Int /\ f[x] <= g[x] + 1
    PROVE  SumFunctionOnSet(f, S) <= SumFunctionOnSet(g, S) + Cardinality(S)
<1>1. PICK T \in SUBSET SUBSET S :
          T = {U \in SUBSET S : SumFunctionOnSet(f, U) <= SumFunctionOnSet(g, U) + Cardinality(U)}
  OBVIOUS
<1>2. {} \in T
  BY <1>1, SumEmpty, FS_EmptySet
<1>3. ASSUME NEW U \in T, NEW x \in S PROVE U \cup {x} \in T
  <2>1. CASE x \in U
    <3>1. U \cup {x} = U
      BY <2>1
    <3> QED BY <3>1, Zenon
  <2>2. CASE x \notin U
    <3>1. IsFiniteSet(U) /\ U \subseteq S
      BY <1>1, FS_Subset
    <3>2. /\ SumFunctionOnSet(f, U \cup {x}) = SumFunctionOnSet(f, U) + f[x]
          /\ SumFunctionOnSet(g, U \cup {x}) = SumFunctionOnSet(g, U) + g[x]
      BY <2>2, <3>1, SumAddElement
    <3>3. Cardinality(U \cup {x}) = Cardinality(U) + 1 /\ Cardinality(U) \in Nat
      BY <2>2, <3>1, FS_AddElement, FS_CardinalityType
    <3>4. SumFunctionOnSet(f, U) \in Int /\ SumFunctionOnSet(g, U) \in Int
      BY <3>1, SumInt
    <3>5. f[x] \in Int /\ g[x] \in Int /\ f[x] <= g[x] + 1
      OBVIOUS
    <3>6. SumFunctionOnSet(f, U) <= SumFunctionOnSet(g, U) + Cardinality(U)
      BY <1>1
    <3>7. SumFunctionOnSet(f, U \cup {x}) <= SumFunctionOnSet(g, U \cup {x}) + Cardinality(U \cup {x})
      BY <3>2, <3>3, <3>4, <3>5, <3>6
    <3> QED BY <1>1, <3>1, <3>7
  <2> QED BY <2>1, <2>2
<1> QED BY <1>1, <1>2, <1>3, FiniteInduction

(* A sum of zeros is zero.                                                  *)
LEMMA SumZero ==
    ASSUME NEW f, NEW S, IsFiniteSet(S), \A x \in S : f[x] = 0
    PROVE  SumFunctionOnSet(f, S) = 0
<1>1. \A x \in S : f[x] \in Int
  OBVIOUS
<1>2. PICK T \in SUBSET SUBSET S :
          T = {U \in SUBSET S : SumFunctionOnSet(f, U) = 0}
  OBVIOUS
<1>3. {} \in T
  BY <1>2, SumEmpty
<1>4. ASSUME NEW U \in T, NEW x \in S PROVE U \cup {x} \in T
  <2>1. CASE x \in U
    BY <1>2, <2>1
  <2>2. CASE x \notin U
    <3>1. IsFiniteSet(U) /\ U \subseteq S
      BY <1>2, FS_Subset
    <3>2. SumFunctionOnSet(f, U \cup {x}) = SumFunctionOnSet(f, U) + f[x]
      BY <1>1, <2>2, <3>1, SumAddElement
    <3> QED BY <1>2, <3>2
  <2> QED BY <2>1, <2>2
<1> QED BY <1>2, <1>3, <1>4, FiniteInduction

(* Summands that cancel up to one make sums that cancel up to their number. *)
LEMMA SumsCancel ==
    ASSUME NEW f, NEW g, NEW S, IsFiniteSet(S),
           \A x \in S : f[x] \in Int /\ g[x] \in Int /\ 0 <= f[x] + g[x] /\ f[x] + g[x] <= 1
    PROVE  /\ 0 <= SumFunctionOnSet(f, S) + SumFunctionOnSet(g, S)
           /\ SumFunctionOnSet(f, S) + SumFunctionOnSet(g, S) <= Cardinality(S)
<1>1. PICK h : h = [x \in S |-> f[x] + g[x]]
  OBVIOUS
<1>2. PICK z : z = [x \in S |-> 0]
  OBVIOUS
<1>3. \A x \in S : f[x] \in Int /\ g[x] \in Int /\ h[x] = f[x] + g[x]
  BY <1>1
<1>4. \A x \in S : z[x] \in Int /\ h[x] \in Int /\ z[x] <= h[x]
  BY <1>1, <1>2
<1>5. \A x \in S : h[x] \in Int /\ z[x] \in Int /\ h[x] <= z[x] + 1
  BY <1>1, <1>2
<1>6. SumFunctionOnSet(h, S) = SumFunctionOnSet(f, S) + SumFunctionOnSet(g, S)
  BY <1>3, SumPlus
<1>7. SumFunctionOnSet(z, S) = 0
  BY <1>2, SumZero
<1>8. SumFunctionOnSet(z, S) <= SumFunctionOnSet(h, S)
  BY <1>4, SumMonotone
<1>9. SumFunctionOnSet(h, S) <= SumFunctionOnSet(z, S) + Cardinality(S)
  BY <1>5, SumWithin
<1>10. SumFunctionOnSet(h, S) \in Int /\ Cardinality(S) \in Nat
  BY <1>4, SumInt, FS_CardinalityType
<1> QED BY <1>6, <1>7, <1>8, <1>9, <1>10

(* Summands that are zero may be left out.                                  *)
LEMMA SumSubset ==
    ASSUME NEW f, NEW S, IsFiniteSet(S), NEW T \in SUBSET S,
           \A x \in T : f[x] \in Int, \A x \in S \ T : f[x] = 0
    PROVE  SumFunctionOnSet(f, S) = SumFunctionOnSet(f, T)
<1>0. PICK R \in SUBSET S : R = S \ T
  OBVIOUS
<1>1. PICK D \in SUBSET SUBSET R :
          D = {U \in SUBSET R : SumFunctionOnSet(f, T \cup U) = SumFunctionOnSet(f, T)}
  OBVIOUS
<1>2. {} \in D
  <2>1. T \cup {} = T
    OBVIOUS
  <2>2. SumFunctionOnSet(f, T \cup {}) = SumFunctionOnSet(f, T)
    BY <2>1, Zenon
  <2> QED BY <1>1, <2>2
<1>3. ASSUME NEW U \in D, NEW x \in R PROVE U \cup {x} \in D
  <2>1. CASE x \in U
    <3>1. U \cup {x} = U
      BY <2>1
    <3> QED BY <3>1, Zenon
  <2>2. CASE x \notin U
    <3>1. PICK A \in SUBSET S : A = T \cup U
      BY <1>1
    <3>2. IsFiniteSet(A) /\ x \notin A /\ \A y \in A \cup {x} : f[y] \in Int
      BY <1>0, <1>1, <2>2, <3>1, FS_Subset
    <3>3. SumFunctionOnSet(f, A \cup {x}) = SumFunctionOnSet(f, A) + f[x] /\ f[x] = 0
      BY <1>0, <3>2, SumAddElement
    <3>4. SumFunctionOnSet(f, A) \in Int
      BY <3>2, SumInt
    <3>5. SumFunctionOnSet(f, A \cup {x}) = SumFunctionOnSet(f, A)
      BY <3>3, <3>4
    <3>6. SumFunctionOnSet(f, A) = SumFunctionOnSet(f, T)
      <4>1. SumFunctionOnSet(f, T \cup U) = SumFunctionOnSet(f, T)
        BY <1>1
      <4> QED BY <3>1, <4>1, Zenon
    <3>7. A \cup {x} = T \cup (U \cup {x})
      BY <3>1
    <3>8. SumFunctionOnSet(f, T \cup (U \cup {x})) = SumFunctionOnSet(f, T)
      BY <3>5, <3>6, <3>7, Zenon
    <3>9. U \cup {x} \in SUBSET R
      BY <1>1
    <3> QED BY <1>1, <3>8, <3>9
  <2> QED BY <2>1, <2>2
<1>4. IsFiniteSet(R)
  BY FS_Subset
<1>5. R \in D
  BY <1>2, <1>3, <1>4, FiniteInduction
<1>6. T \cup R = S
  BY <1>0
<1>7. SumFunctionOnSet(f, T \cup R) = SumFunctionOnSet(f, T)
  BY <1>1, <1>5
<1> QED BY <1>6, <1>7, Zenon

(* A sum of counts is at least the sum of some of them.                     *)
LEMMA SumOfSome ==
    ASSUME NEW f, NEW S, IsFiniteSet(S), NEW T \in SUBSET S, \A x \in S : f[x] \in Nat
    PROVE  /\ SumFunctionOnSet(f, T) <= SumFunctionOnSet(f, S)
           /\ SumFunctionOnSet(f, T) \in Nat
<1> DEFINE g == [x \in S |-> IF x \in T THEN f[x] ELSE 0]
           z == [x \in S |-> 0]
<1>1. /\ \A x \in S : g[x] \in Int /\ f[x] \in Int /\ z[x] \in Int /\ z[x] = 0
      /\ \A x \in S : g[x] <= f[x] /\ z[x] <= g[x]
      /\ \A x \in T : g[x] = f[x] /\ g[x] \in Int
      /\ \A x \in S \ T : g[x] = 0
  OBVIOUS
<1>2. IsFiniteSet(T)
  BY FS_Subset
<1> HIDE DEF g, z
<1>3. SumFunctionOnSet(g, S) = SumFunctionOnSet(g, T)
  BY <1>1, SumSubset
<1>4. SumFunctionOnSet(g, T) = SumFunctionOnSet(f, T)
  BY <1>1, <1>2, SumEqual
<1>5. SumFunctionOnSet(g, S) <= SumFunctionOnSet(f, S)
  BY <1>1, SumMonotone
<1>6. SumFunctionOnSet(z, S) <= SumFunctionOnSet(g, S)
  BY <1>1, SumMonotone
<1>7. SumFunctionOnSet(z, S) = 0
  BY <1>1, SumZero
<1>8. SumFunctionOnSet(g, S) \in Int
  BY <1>1, SumInt
<1> QED BY <1>3, <1>4, <1>5, <1>6, <1>7, <1>8

-----------------------------------------------------------------------------
(* An amount that is spread over balances in an order, to each as much as   *)
(* it can take: pre[i] are those before i, a strict total order.            *)
StrictOrder(pre, S) ==
    /\ pre \in [S -> SUBSET S]
    /\ \A i \in S : i \notin pre[i]
    /\ \A i, j \in S : j \in pre[i] => pre[j] \subseteq pre[i]
    /\ \A i, j \in S : i # j => i \in pre[j] \/ j \in pre[i]

LEMMA LastElement ==
    ASSUME NEW S, IsFiniteSet(S), NEW pre, StrictOrder(pre, S), NEW U \in SUBSET S, U # {}
    PROVE  \E m \in U : \A i \in U \ {m} : i \in pre[m]
<1>1. PICK T \in SUBSET SUBSET U :
          T = {V \in SUBSET U : V = {} \/ \E m \in V : \A i \in V \ {m} : i \in pre[m]}
  OBVIOUS
<1>2. ASSUME NEW V \in T, NEW x \in U PROVE V \cup {x} \in T
  <2>1. CASE V = {}
    BY <1>1, <2>1
  <2>2. CASE V # {}
    <3>1. PICK m \in V : \A i \in V \ {m} : i \in pre[m]
      BY <1>1, <2>2
    <3>2. m \in S /\ x \in S /\ V \subseteq U
      BY <1>1
    <3>3. CASE x = m \/ x \in pre[m]
      BY <1>1, <3>1, <3>2, <3>3
    <3>4. CASE m \in pre[x]
      <4>1. pre[m] \subseteq pre[x]
        BY <3>2, <3>4 DEF StrictOrder
      <4>2. \A i \in (V \cup {x}) \ {x} : i \in pre[x]
        BY <3>1, <3>4, <4>1
      <4> QED BY <1>1, <3>2, <4>2
    <3> QED BY <3>2, <3>3, <3>4 DEF StrictOrder
  <2> QED BY <2>1, <2>2
<1>3. {} \in T /\ IsFiniteSet(U)
  BY <1>1, FS_Subset
<1>4. U \in T
  BY <1>2, <1>3, FiniteInduction
<1> QED BY <1>1, <1>4

LEMMA GreedyTotal ==
    ASSUME NEW S, IsFiniteSet(S), NEW pre, StrictOrder(pre, S),
           NEW bal, \A i \in S : bal[i] \in Nat, NEW n \in Nat, NEW take,
           \A i \in S : take[i] =
               LET remaining == n - SumFunctionOnSet(bal, pre[i]) IN
               IF remaining <= 0 THEN 0 ELSE IF remaining > bal[i] THEN bal[i] ELSE remaining
    PROVE  SumFunctionOnSet(take, S) =
               IF n <= SumFunctionOnSet(bal, S) THEN n ELSE SumFunctionOnSet(bal, S)
<1> DEFINE Good(P) ==
        SumFunctionOnSet(take, P) =
            IF n <= SumFunctionOnSet(bal, P) THEN n ELSE SumFunctionOnSet(bal, P)
<1>1. \A P \in SUBSET S : IsFiniteSet(P) /\ SumFunctionOnSet(bal, P) \in Nat
  BY FS_Subset, SumOfSome
<1>2. \A i \in S : take[i] \in Nat
  <2>1. \A i \in S : SumFunctionOnSet(bal, pre[i]) \in Nat
    BY <1>1 DEF StrictOrder
  <2> QED BY <2>1
<1>3. \A P \in SUBSET S : SumFunctionOnSet(take, P) \in Int
  BY <1>1, <1>2, SumOfSome
<1>4. PICK Bad \in SUBSET SUBSET S :
          Bad = {P \in SUBSET S : (\A i \in P : pre[i] \subseteq P) /\ ~Good(P)}
  OBVIOUS
<1>5. SUFFICES ASSUME Bad # {} PROVE FALSE
  <2>1. S \in SUBSET S /\ \A i \in S : pre[i] \subseteq S
    BY DEF StrictOrder
  <2> QED BY <1>4, <2>1
<1>6. PICK U \in Bad : \A V \in Bad : V \subseteq U => V = U
  BY <1>5, MinimalSubset
<1>7. U \in SUBSET S /\ \A i \in U : pre[i] \subseteq U
  BY <1>4
<1>8. ~Good(U)
  BY <1>4
<1>9. U # {}
  <2>1. SUFFICES ASSUME U = {} PROVE FALSE
    OBVIOUS
  <2>2. SumFunctionOnSet(take, U) = 0 /\ SumFunctionOnSet(bal, U) = 0
    BY <2>1, SumEmpty, Zenon
  <2> QED BY <1>8, <2>2
<1>10. PICK m \in U : \A i \in U \ {m} : i \in pre[m]
  BY <1>7, <1>9, LastElement
<1>11. PICK V \in SUBSET S : V = pre[m]
  BY <1>7 DEF StrictOrder
<1>12. m \in S /\ U \ {m} = V /\ m \notin V
  BY <1>7, <1>10, <1>11 DEF StrictOrder
<1>13. Good(V)
  <2>1. \A i \in V : pre[i] \subseteq V
    BY <1>7, <1>11, <1>12 DEF StrictOrder
  <2>2. V \notin Bad
    BY <1>6, <1>12
  <2> QED BY <1>4, <2>1, <2>2
<1>14. SumFunctionOnSet(take, U) = take[m] + SumFunctionOnSet(take, V)
  <2>1. SumFunctionOnSet(take, U) = take[m] + SumFunctionOnSet(take, U \ {m})
    <3>1. \A x \in U : take[x] \in Int
      BY <1>2, <1>7
    <3> QED BY <1>1, <1>7, <3>1, SumRemove
  <2> QED BY <1>12, <2>1, Zenon
<1>15. SumFunctionOnSet(bal, U) = bal[m] + SumFunctionOnSet(bal, V)
  <2>1. SumFunctionOnSet(bal, U) = bal[m] + SumFunctionOnSet(bal, U \ {m})
    <3>1. \A x \in U : bal[x] \in Int
      BY <1>7
    <3> QED BY <1>1, <1>7, <3>1, SumRemove
  <2> QED BY <1>12, <2>1, Zenon
<1>16. take[m] = IF n - SumFunctionOnSet(bal, V) <= 0 THEN 0
                 ELSE IF n - SumFunctionOnSet(bal, V) > bal[m] THEN bal[m]
                 ELSE n - SumFunctionOnSet(bal, V)
  BY <1>11, <1>12, Zenon
<1>17. SumFunctionOnSet(bal, V) \in Nat /\ bal[m] \in Nat
  BY <1>1, <1>12
<1> QED BY <1>8, <1>13, <1>14, <1>15, <1>16, <1>17
=============================================================================
