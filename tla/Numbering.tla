----------------------------- MODULE Numbering -----------------------------
(***************************************************************************)
(* NumberingService.next (src/src/common/services/numbering.service.ts) for *)
(* one scope, as a document creation calls it inside its transaction: the   *)
(* sequence row is read FOR UPDATE; the first creation of a scope finds     *)
(* none, derives the last number from the documents and saves a new row.    *)
(* The document is inserted with its number, which is a unique column, and  *)
(* row and document are committed together.                                 *)
(*                                                                         *)
(* save(row) of an entity that was created, not loaded, selects the row by  *)
(* its primary key first: it inserts when there is none, updates when there *)
(* is one with another value, and writes nothing when the value is equal.   *)
(***************************************************************************)
EXTENDS Integers

CONSTANTS
    Requests,    \* creations of documents running at the same time
    NoRequest,
    LastNumber,  \* highest number of the documents older than the sequence
    MaxNumber    \* bound: highest number that is issued

ASSUME NumberAssumption == LastNumber \in Nat /\ MaxNumber \in Nat /\ NoRequest \notin Requests

VARIABLES
    row,    \* number_sequences.next_value (0: the scope has no row)
    docs,   \* numbers of the documents committed since
    pc,     \* where a creation is
    base,   \* the last used number that it derived
    got,    \* the number that it received
    owner   \* the creation that has the row locked, or inserted and not committed

vars == <<row, docs, pc, base, got, owner>>

(* "found": read FOR UPDATE; "inserted", "overwritten", "same": the three   *)
(* ways in which save(row) ends when the row was not found.                 *)
Issued == {"found", "inserted", "overwritten", "same"}
Step == {"idle", "missing", "based", "insert", "overwrite"} \cup Issued

TypeOK ==
    /\ row \in Nat
    /\ docs \subseteq Nat
    /\ pc \in [Requests -> Step]
    /\ base \in [Requests -> Nat]
    /\ got \in [Requests -> Nat]
    /\ owner \in Requests \cup {NoRequest}

Init ==
    /\ row = 0
    /\ docs = {}
    /\ pc = [r \in Requests |-> "idle"]
    /\ base = [r \in Requests |-> 0]
    /\ got = [r \in Requests |-> 0]
    /\ owner = NoRequest

(* initValue: SELECT MAX of the numbers in the document table.              *)
Used == docs \cup {LastNumber}
\* Mutant: off by one.
initValueOffByOne == (CHOOSE n \in Used : \A m \in Used : m <= n) - 1
initValue == CHOOSE n \in Used : \A m \in Used : m <= n

FindNone(r) ==
    /\ pc[r] = "idle"
    /\ row = 0
    /\ pc' = [pc EXCEPT ![r] = "missing"]
    /\ UNCHANGED <<row, docs, base, got, owner>>

\* Mutant: the row is read without FOR UPDATE.
FindUnlocked(r) ==
    /\ pc[r] = "idle"
    /\ row # 0 /\ row < MaxNumber
    /\ pc' = [pc EXCEPT ![r] = "found"]
    /\ got' = [got EXCEPT ![r] = row + 1]
    /\ UNCHANGED <<row, docs, base, owner>>

FindRow(r) ==
    /\ pc[r] = "idle"
    /\ row # 0 /\ row < MaxNumber
    /\ owner = NoRequest
    /\ owner' = r
    /\ pc' = [pc EXCEPT ![r] = "found"]
    /\ got' = [got EXCEPT ![r] = row + 1]
    /\ UNCHANGED <<row, docs, base>>

DeriveLast(r) ==
    /\ pc[r] = "missing"
    /\ initValue < MaxNumber
    /\ pc' = [pc EXCEPT ![r] = "based"]
    /\ base' = [base EXCEPT ![r] = initValue]
    /\ UNCHANGED <<row, docs, got, owner>>

(* The select of save(row). *)
SaveSelect(r) ==
    /\ pc[r] = "based"
    /\ pc' = [pc EXCEPT ![r] = IF row = 0 THEN "insert"
                               ELSE IF row = base[r] + 1 THEN "same" ELSE "overwrite"]
    /\ got' = [got EXCEPT ![r] = base[r] + 1]
    /\ UNCHANGED <<row, docs, base, owner>>

(* Its insert waits for another one of the same key to commit or roll back. *)
SaveInsert(r) ==
    /\ pc[r] = "insert"
    /\ owner = NoRequest
    /\ row = 0
    /\ owner' = r
    /\ pc' = [pc EXCEPT ![r] = "inserted"]
    /\ UNCHANGED <<row, docs, base, got>>

SaveOverwrite(r) ==
    /\ pc[r] = "overwrite"
    /\ owner = NoRequest
    /\ owner' = r
    /\ pc' = [pc EXCEPT ![r] = "overwritten"]
    /\ UNCHANGED <<row, docs, base, got>>

End(r) ==
    /\ pc' = [pc EXCEPT ![r] = "idle"]
    /\ base' = [base EXCEPT ![r] = 0]
    /\ got' = [got EXCEPT ![r] = 0]
    /\ owner' = IF owner = r THEN NoRequest ELSE owner

(* The document is inserted, unless its number is taken, and committed.     *)
\* Mutant: the document's number column is not unique.
CreateAnyway(r) ==
    /\ pc[r] \in Issued
    /\ docs' = docs \cup {got[r]}
    /\ row' = IF pc[r] = "same" THEN row ELSE got[r]
    /\ End(r)

Create(r) ==
    /\ pc[r] \in Issued
    /\ got[r] \notin docs
    /\ docs' = docs \cup {got[r]}
    /\ row' = IF pc[r] = "same" THEN row ELSE got[r]
    /\ End(r)

(* Rolled back: the number is taken, the key is, or anything else failed.   *)
Fail(r) ==
    /\ pc[r] # "idle"
    /\ End(r)
    /\ UNCHANGED <<row, docs>>

Next ==
    \E r \in Requests :
        \/ FindNone(r) \/ FindRow(r) \/ DeriveLast(r)
        \/ SaveSelect(r) \/ SaveInsert(r) \/ SaveOverwrite(r)
        \/ Create(r) \/ Fail(r)

Spec == Init /\ [][Next]_vars

-----------------------------------------------------------------------------
(* A committed sequence is never behind a document of its scope, although a *)
(* late first creation may write a lower value over it: then its document   *)
(* is refused and both are rolled back.                                     *)
SequenceCovers == row # 0 => \A n \in Used : n <= row

(* Once the row exists, the lock does what it is for: the number of a       *)
(* creation that found the row is new, whatever the others, late first      *)
(* creations included, commit before it.                                    *)
FoundIsFresh == \A r \in Requests : pc[r] = "found" => \A n \in Used : n < got[r]

(* The inductive invariant: row and documents grow together and without a   *)
(* gap, and what a creation has received fits the way it received it.       *)
Top == IF row = 0 THEN LastNumber ELSE row

ReceivedWell(r) ==
    /\ pc[r] = "found" => owner = r /\ row # 0 /\ got[r] = row + 1
    /\ pc[r] = "inserted" => owner = r /\ row = 0
    /\ pc[r] \in {"overwrite", "overwritten"} => row # 0
    /\ pc[r] = "overwritten" => owner = r
    /\ pc[r] = "same" => row # 0 /\ got[r] <= row
    /\ pc[r] \in {"based", "insert", "overwrite", "inserted", "overwritten", "same"} =>
          LastNumber <= base[r] /\ base[r] <= Top
    /\ pc[r] \in {"insert", "overwrite", "inserted", "overwritten", "same"} =>
          got[r] = base[r] + 1

NumberingInv ==
    /\ TypeOK
    /\ row # 0 => row > LastNumber
    /\ docs = (LastNumber + 1)..Top
    /\ \A r \in Requests : ReceivedWell(r)
=============================================================================
