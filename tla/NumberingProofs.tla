-------------------------- MODULE NumberingProofs --------------------------
(***************************************************************************)
(* For any number of creations: the sequence never falls behind the         *)
(* documents, and a creation that found its row issues a fresh number.      *)
(***************************************************************************)
EXTENDS Numbering, TLAPS

(* The last number derived from the documents is the top of the sequence.   *)
LEMMA InitValueIsTop ==
    ASSUME NumberingInv
    PROVE  initValue = Top /\ Top \in Nat /\ Top >= LastNumber
<1>1. Top \in Nat /\ Top >= LastNumber /\ docs = (LastNumber + 1)..Top
  BY NumberAssumption DEF NumberingInv, TypeOK, Top
<1>2. Top \in Used /\ \A m \in Used : m <= Top
  BY <1>1, NumberAssumption DEF Used
<1>3. \A n \in Used : (\A m \in Used : m <= n) => n = Top
  BY <1>1, <1>2, NumberAssumption DEF Used
<1>4. initValue \in Used /\ \A m \in Used : m <= initValue
  BY <1>2 DEF initValue
<1> QED BY <1>1, <1>3, <1>4

LEMMA Initially == Init => NumberingInv
BY NumberAssumption DEF Init, NumberingInv, TypeOK, Step, Issued, Top, ReceivedWell

(* A creation that ends leaves the others as they were. *)
LEMMA EndKeeps ==
    ASSUME NumberingInv, NEW r \in Requests, End(r)
    PROVE  /\ pc' \in [Requests -> Step] /\ base' \in [Requests -> Nat] /\ got' \in [Requests -> Nat]
           /\ owner' \in Requests \cup {NoRequest}
           /\ pc'[r] = "idle"
           /\ \A s \in Requests \ {r} :
                 /\ pc'[s] = pc[s] /\ base'[s] = base[s] /\ got'[s] = got[s]
                 /\ owner = s => owner' = s
BY DEF NumberingInv, TypeOK, End, Step

LEMMA CreateKeeps ==
    ASSUME NumberingInv, NEW r \in Requests, Create(r)
    PROVE  NumberingInv'
<1> USE NumberAssumption
<1>1. ReceivedWell(r) /\ row \in Nat /\ got[r] \in Nat /\ base[r] \in Nat
  BY DEF NumberingInv, TypeOK
<1>2. pc[r] # "same"
  BY <1>1 DEF Create, NumberingInv, ReceivedWell, Top, TypeOK
<1>3. row' = got[r] /\ got[r] = Top + 1
  BY <1>1, <1>2 DEF Create, Issued, NumberingInv, ReceivedWell, Top
<1>4. owner = r
  BY <1>1, <1>2 DEF Create, Issued, ReceivedWell
<1>5. docs' = (LastNumber + 1)..Top' /\ row' > LastNumber /\ Top' = Top + 1 /\ row' # 0
  BY <1>1, <1>3 DEF Create, NumberingInv, Top, TypeOK
<1>6. TypeOK'
  BY <1>1, <1>3, EndKeeps DEF Create, NumberingInv, TypeOK
<1>7. ASSUME NEW s \in Requests PROVE ReceivedWell(s)'
  <2>1. CASE s = r
    BY <2>1, EndKeeps DEF Create, ReceivedWell
  <2>2. CASE s # r
    <3>1. ReceivedWell(s) /\ owner # s /\ base[s] \in Nat /\ got[s] \in Nat
      BY <2>2, <1>4 DEF NumberingInv, TypeOK
    <3>2. pc'[s] = pc[s] /\ base'[s] = base[s] /\ got'[s] = got[s]
      BY <2>2, EndKeeps DEF Create
    <3> QED BY <3>1, <3>2, <1>1, <1>3, <1>5 DEF ReceivedWell, Top
  <2> QED BY <2>1, <2>2
<1> QED BY <1>5, <1>6, <1>7 DEF NumberingInv

LEMMA FailKeeps ==
    ASSUME NumberingInv, NEW r \in Requests, Fail(r)
    PROVE  NumberingInv'
<1>1. TypeOK'
  BY EndKeeps DEF Fail, NumberingInv, TypeOK
<1>2. ASSUME NEW s \in Requests PROVE ReceivedWell(s)'
  <2>1. CASE s = r
    BY <2>1, EndKeeps DEF Fail, ReceivedWell
  <2>2. CASE s # r
    BY <2>2, EndKeeps DEF Fail, NumberingInv, ReceivedWell, Top
  <2> QED BY <2>1, <2>2
<1> QED BY <1>1, <1>2 DEF Fail, NumberingInv, Top

(* The steps before a creation commits write no table. *)
LEMMA WorkKeeps ==
    ASSUME NumberingInv, NEW r \in Requests,
           \/ FindNone(r) \/ FindRow(r) \/ DeriveLast(r)
           \/ SaveSelect(r) \/ SaveInsert(r) \/ SaveOverwrite(r)
    PROVE  NumberingInv'
<1> USE NumberAssumption, InitValueIsTop
<1>1. UNCHANGED <<row, docs>> /\ Top' = Top
  BY DEF FindNone, FindRow, DeriveLast, SaveSelect, SaveInsert, SaveOverwrite, Top
<1>2. TypeOK'
  <2>1. pc' \in [Requests -> Step] /\ owner' \in Requests \cup {NoRequest}
    BY DEF FindNone, FindRow, DeriveLast, SaveSelect, SaveInsert, SaveOverwrite,
       NumberingInv, TypeOK, Step, Issued
  <2>2. base' \in [Requests -> Nat]
    BY DEF FindNone, FindRow, DeriveLast, SaveSelect, SaveInsert, SaveOverwrite,
       NumberingInv, TypeOK
  <2>3. got' \in [Requests -> Nat]
    <3>1. row + 1 \in Nat /\ base[r] + 1 \in Nat
      BY DEF NumberingInv, TypeOK
    <3> QED
      BY <3>1 DEF FindNone, FindRow, DeriveLast, SaveSelect, SaveInsert, SaveOverwrite,
         NumberingInv, TypeOK
  <2> QED BY <1>1, <2>1, <2>2, <2>3 DEF NumberingInv, TypeOK
<1>3. ASSUME NEW s \in Requests \ {r} PROVE ReceivedWell(s)'
  <2>1. pc'[s] = pc[s] /\ base'[s] = base[s] /\ got'[s] = got[s] /\ (owner = s => owner' = s)
    BY DEF FindNone, FindRow, DeriveLast, SaveSelect, SaveInsert, SaveOverwrite,
       NumberingInv, TypeOK
  <2> QED BY <1>1, <2>1 DEF NumberingInv, ReceivedWell, Top
<1>4. ReceivedWell(r)'
  <2> USE <1>1 DEF NumberingInv, TypeOK, ReceivedWell
  <2>1. CASE FindNone(r) BY <2>1 DEF FindNone
  <2>2. CASE FindRow(r) BY <2>2 DEF FindRow
  <2>3. CASE DeriveLast(r) BY <2>3 DEF DeriveLast
  <2>4. CASE SaveSelect(r) BY <2>4 DEF SaveSelect, Top
  <2>5. CASE SaveInsert(r) BY <2>5 DEF SaveInsert
  <2>6. CASE SaveOverwrite(r) BY <2>6 DEF SaveOverwrite
  <2> QED BY <2>1, <2>2, <2>3, <2>4, <2>5, <2>6
<1> QED BY <1>1, <1>2, <1>3, <1>4 DEF NumberingInv

THEOREM NumberingInvariance == Spec => []NumberingInv
<1>1. NumberingInv /\ [Next]_vars => NumberingInv'
  <2> SUFFICES ASSUME NumberingInv, [Next]_vars PROVE NumberingInv'
    OBVIOUS
  <2>1. CASE Next
    BY <2>1, WorkKeeps, CreateKeeps, FailKeeps DEF Next
  <2>2. CASE UNCHANGED vars
    BY <2>2 DEF vars, NumberingInv, TypeOK, Top, ReceivedWell
  <2> QED BY <2>1, <2>2
<1> QED BY Initially, <1>1, PTL DEF Spec

(* A committed sequence is never behind a document of its scope.            *)
THEOREM SequenceNeverBehind == Spec => []SequenceCovers
<1>1. NumberingInv => SequenceCovers
  BY NumberAssumption DEF NumberingInv, TypeOK, SequenceCovers, Used, Top
<1> QED BY <1>1, NumberingInvariance, PTL

(* A creation that found the sequence row issues a number that no committed *)
(* document has.                                                            *)
THEOREM FoundNumbersFresh == Spec => []FoundIsFresh
<1>1. NumberingInv => FoundIsFresh
  BY NumberAssumption DEF NumberingInv, TypeOK, FoundIsFresh, ReceivedWell, Used, Top
<1> QED BY <1>1, NumberingInvariance, PTL

(* The sequence, the documents and the creations keep their form.           *)
THEOREM NumberingIsWellTyped == Spec => []TypeOK
<1>1. NumberingInv => TypeOK
  BY DEF NumberingInv
<1> QED BY <1>1, NumberingInvariance, PTL
=============================================================================
