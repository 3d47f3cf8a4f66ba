-------------------------- MODULE DocumentDBProofs --------------------------
(***************************************************************************)
(* Theorems about DocumentDB, for any URLs, records and bound on the IDs.  *)
(***************************************************************************)
EXTENDS DocumentDB, TLAPS

LEMMA Constants ==
  /\ \A id \in DocIDs : id \in Nat /\ id # NoDocID /\ id >= FirstDocID /\ id <= MaxDocID
  /\ \A r \in Refs : r # NoRef /\ r.url \in URLs
  /\ MaxDocID \in Nat /\ FirstDocID = 2 /\ MaxDocID >= 2
BY RefsAssumption, MaxDocIDAssumption DEF DocIDs, FirstDocID, NEXT_DOC_ID_RECORD, NoDocID

(* Put keeps the types of the three tables. *)
LEMMA PutType ==
  ASSUME TypeOK, NEW id \in DocIDs, NEW ref \in Refs, NEW h \in BOOLEAN, Put(id, ref, h)
  PROVE  /\ dbf' \in [DocIDs -> Refs \cup {NoRef}]
         /\ i_dbf' \in [URLs -> DocIDs \cup {NoDocID}]
         /\ h_dbf' \subseteq DocIDs
BY DEF TypeOK, Put

LEMMA TypeStep == TypeOK /\ [Next]_vars => TypeOK'
<1> SUFFICES ASSUME TypeOK, [Next]_vars PROVE TypeOK'
  OBVIOUS
<1> USE Constants
<1>1. CASE Open
  BY <1>1 DEF Open, TypeOK, tables, NoDocID
<1>2. CASE OpenErased
  BY <1>2 DEF OpenErased, TypeOK
<1>3. CASE Close
  BY <1>3 DEF Close, TypeOK, tables
<1>4. CASE NextDocID /\ UNCHANGED tables
  BY <1>4 DEF NextDocID, TypeOK, tables
<1>5. ASSUME NEW id \in DocIDs, NEW ref \in Refs, NEW h \in BOOLEAN,
             Add(id, ref, h)
      PROVE  TypeOK'
  <2>1. Put(id, ref, h) /\ UNCHANGED <<isopen, nextDocID, savedDocID>>
    BY <1>5 DEF Add
  <2> QED BY <2>1, PutType DEF TypeOK
<1>6. ASSUME NEW id \in DocIDs, NEW ref \in Refs, NEW h \in BOOLEAN,
             NextDocIDAndAdd(id, ref, h)
      PROVE  TypeOK'
  <2>1. Put(id, ref, h) /\ NextDocID
    BY <1>6 DEF NextDocIDAndAdd
  <2>2. isopen' \in BOOLEAN /\ nextDocID' \in FirstDocID .. MaxDocID + 1
        /\ savedDocID' = savedDocID
    BY <2>1 DEF NextDocID, TypeOK
  <2> QED BY <2>1, <2>2, PutType DEF TypeOK
<1>7. ASSUME NEW id \in DocIDs, Delete(id) PROVE TypeOK'
  BY <1>7 DEF Delete, Deletable, Stored, TypeOK
<1>8. CASE UNCHANGED vars
  BY <1>8 DEF vars, TypeOK
<1> QED BY <1>1, <1>2, <1>3, <1>4, <1>5, <1>6, <1>7, <1>8 DEF Next

LEMMA TypeInit == Init => TypeOK
<1> SUFFICES ASSUME Init PROVE TypeOK
  OBVIOUS
<1>1. isopen \in BOOLEAN
  BY DEF Init
<1>2. /\ nextDocID \in FirstDocID .. MaxDocID + 1
      /\ savedDocID \in {NoDocID} \cup FirstDocID .. MaxDocID + 1
  BY Constants DEF Init
<1>3. /\ dbf \in [DocIDs -> Refs \cup {NoRef}]
      /\ i_dbf \in [URLs -> DocIDs \cup {NoDocID}]
      /\ h_dbf \subseteq DocIDs
  BY DEF Init, NoTables
<1> QED BY <1>1, <1>2, <1>3 DEF TypeOK

(* The tables and the counter always have their types, so a record is       *)
(* indexed under a URL that exists and no ID leaves the range handed out.   *)
THEOREM TypeCorrect == Spec => []TypeOK
<1>1. Init => TypeOK
  BY TypeInit
<1>2. TypeOK /\ [Next]_vars => TypeOK'
  BY TypeStep
<1> QED BY <1>1, <1>2, PTL DEF Spec
-----------------------------------------------------------------------------
(* The safety invariants are inductive together, given the types: the URL   *)
(* index and the excerpts follow the records, and records stay below the    *)
(* counter, whether it is in memory or in its record.                       *)
Consistent == NextIDFresh /\ IndexConsistent /\ ExcerptsOwned

IInv == TypeOK /\ Consistent

LEMMA InitConsistent == Init => Consistent
BY Constants DEF Init, NoTables, Consistent, NextIDFresh, IndexConsistent, ExcerptsOwned

(* The tables after Put, for a record that keeps its URL. *)
LEMMA PutConsistent ==
  ASSUME IInv, NEW id \in DocIDs, NEW ref \in Refs, NEW h \in BOOLEAN,
         MayHold(id, ref), Put(id, ref, h)
  PROVE  IndexConsistent' /\ ExcerptsOwned'
<1> USE Constants DEF IInv, Consistent, TypeOK, Put, Stored
<1>1. IndexConsistent'
  <2> SUFFICES ASSUME NEW u \in URLs, i_dbf'[u] # NoDocID
               PROVE  i_dbf'[u] \in DocIDs /\ dbf'[i_dbf'[u]] # NoRef
                        /\ dbf'[i_dbf'[u]].url = u
    BY DEF IndexConsistent
  <2>1. CASE u = ref.url
    BY <2>1
  <2>2. CASE u # ref.url
    <3>1. i_dbf'[u] = i_dbf[u]
      BY <2>2
    <3>2. i_dbf[u] \in DocIDs /\ dbf[i_dbf[u]] # NoRef /\ dbf[i_dbf[u]].url = u
      BY <3>1 DEF IndexConsistent
    <3>3. i_dbf[u] # id
      BY <3>2, <2>2 DEF MayHold
    <3> QED BY <3>1, <3>2, <3>3
  <2> QED BY <2>1, <2>2
<1>2. ExcerptsOwned'
  BY DEF ExcerptsOwned
<1> QED BY <1>1, <1>2

LEMMA ConsistentStep == IInv /\ [Next]_vars => Consistent'
<1> SUFFICES ASSUME IInv, [Next]_vars PROVE Consistent'
  OBVIOUS
<1> USE Constants DEF IInv, Consistent
<1> DEFINE SameTables == UNCHANGED <<dbf, i_dbf, h_dbf>>
<1>0. SameTables /\ Counter' >= Counter /\ Counter \in Nat /\ Counter' \in Nat => Consistent'
  <2>1. SameTables => IndexConsistent' /\ ExcerptsOwned'
    BY DEF IndexConsistent, ExcerptsOwned, Stored
  <2>2. SameTables /\ Counter' >= Counter /\ Counter \in Nat /\ Counter' \in Nat => NextIDFresh'
    BY DEF NextIDFresh
  <2> QED BY <2>1, <2>2
<1>1. CASE Open
  BY <1>0, <1>1 DEF Open, tables, Counter, TypeOK
<1>2. CASE OpenErased
  BY <1>2 DEF OpenErased, NextIDFresh, IndexConsistent, ExcerptsOwned
<1>3. CASE Close
  BY <1>0, <1>3 DEF Close, tables, Counter, TypeOK, NoDocID
<1>4. CASE NextDocID /\ UNCHANGED tables
  BY <1>0, <1>4 DEF NextDocID, tables, Counter, TypeOK
<1>5. ASSUME NEW id \in DocIDs, NEW ref \in Refs, NEW h \in BOOLEAN,
             id < nextDocID, MayHold(id, ref), Add(id, ref, h)
      PROVE  Consistent'
  <2>1. IndexConsistent' /\ ExcerptsOwned'
    BY <1>5, PutConsistent DEF Add
  <2>2. NextIDFresh'
    BY <1>5 DEF Add, Put, NextIDFresh, Counter, TypeOK
  <2> QED BY <2>1, <2>2
<1>6. ASSUME NEW id \in DocIDs, NEW ref \in Refs, NEW h \in BOOLEAN,
             id <= nextDocID, MayHold(id, ref), NextDocIDAndAdd(id, ref, h)
      PROVE  Consistent'
  <2>1. IndexConsistent' /\ ExcerptsOwned'
    BY <1>6, PutConsistent DEF NextDocIDAndAdd
  <2>2. NextIDFresh'
    BY <1>6 DEF NextDocIDAndAdd, NextDocID, Put, NextIDFresh, Counter, TypeOK
  <2> QED BY <2>1, <2>2
<1>7. ASSUME NEW id \in DocIDs, Delete(id) PROVE Consistent'
  <2> USE <1>7 DEF Delete, Deletable, TypeOK
  <2>1. NextIDFresh'
    BY DEF NextIDFresh, Counter
  <2>2. IndexConsistent'
    BY DEF IndexConsistent, Stored
  <2>3. ExcerptsOwned'
    BY DEF ExcerptsOwned, Stored
  <2> QED BY <2>1, <2>2, <2>3
<1>8. CASE UNCHANGED vars
  BY <1>0, <1>8 DEF vars, Counter, TypeOK
<1> QED BY <1>1, <1>2, <1>3, <1>4, <1>5, <1>6, <1>7, <1>8 DEF Next

LEMMA Invariance == Spec => []IInv
<1>1. Init => IInv
  BY TypeInit, InitConsistent DEF IInv
<1>2. IInv /\ [Next]_vars => IInv'
  BY TypeStep, ConsistentStep DEF IInv
<1> QED BY <1>1, <1>2, PTL DEF Spec

(* NextDocID never hands out an ID that names a document, in this session   *)
(* or in one that opens the files later.                                    *)
THEOREM IDsAreFresh == Spec => []NextIDFresh
<1>1. IInv => NextIDFresh
  BY DEF IInv, Consistent
<1> QED BY <1>1, Invariance, PTL

(* The URL index leads from every URL it has to that URL's own record. *)
THEOREM IndexIsConsistent == Spec => []IndexConsistent
<1>1. IInv => IndexConsistent
  BY DEF IInv, Consistent
<1> QED BY <1>1, Invariance, PTL

(* No excerpt is left behind by a record that is gone. *)
THEOREM ExcerptsAreOwned == Spec => []ExcerptsOwned
<1>1. IInv => ExcerptsOwned
  BY DEF IInv, Consistent
<1> QED BY <1>1, Invariance, PTL

(* Only erasing the files takes the counter back. *)
THEOREM CounterIsMonotone == Spec => CounterNeverBack
<1>1. ASSUME TypeOK, [Next]_vars
      PROVE  [OpenErased \/ Counter' >= Counter]_vars
  <2> USE <1>1, Constants DEF Counter, TypeOK, NoDocID
  <2>1. CASE Open
    BY <2>1 DEF Open
  <2>2. CASE Close
    BY <2>2 DEF Close
  <2>3. CASE NextDocID
    BY <2>3 DEF NextDocID
  <2>4. CASE UNCHANGED <<isopen, nextDocID, savedDocID>>
    BY <2>4
  <2>5. CASE UNCHANGED vars
    BY <2>5
  <2> QED BY <2>1, <2>2, <2>3, <2>4, <2>5 DEF Next, Add, NextDocIDAndAdd, Delete
<1> QED BY <1>1, TypeCorrect, PTL DEF Spec, CounterNeverBack
=============================================================================
