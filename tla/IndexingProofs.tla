--------------------------- MODULE IndexingProofs ---------------------------
(***************************************************************************)
(* What a dig keeps of a collection's databases: the document database     *)
(* stays consistent and every posting tells the truth about its document,  *)
(* for any pages.  The steps are proved apart, because the programs that   *)
(* take them differ (CollectionProofs).                                    *)
(***************************************************************************)
EXTENDS Indexing, DocumentDBProofs

(* A document that was never retrieved has no date.                         *)
UnreadUndated ==
  \A id \in DocIDs : Stored(id) /\ ~dbf[id].accessed => dbf[id].time = NoTime

WordsTrue == WordsOK /\ PostingsTruthful /\ PostingIDsSpent /\ UnreadUndated

DBInv == IInv /\ WordsTrue

LEMMA IndexingConstants ==
  /\ MaxEdition \in Nat /\ LinkText \in 0 .. MaxEdition /\ NoTime \in 0 .. MaxEdition
  /\ \A e \in Editions : e \in 0 .. MaxEdition
  /\ Refs = DocumentRefs
  /\ LinkText = 0 /\ NoTime = 0
BY IndexingAssumption DEF LinkText, NoTime, Editions

(* The record of a URL, the stored one or a new one. *)
LEMMA RefOfType ==
  ASSUME DBInv, NEW url \in URLs
  PROVE  /\ RefOf(url) \in DocumentRefs /\ RefOf(url).url = url
         /\ ~RefOf(url).accessed => RefOf(url).time = NoTime
         /\ Known(url) => i_dbf[url] \in DocIDs
<1>1. CASE Known(url)
  <2>1. i_dbf[url] \in DocIDs /\ dbf[i_dbf[url]] # NoRef /\ i_dbf[url] # NoDocID
    BY <1>1, Constants DEF Known, Stored
  <2>2. dbf[i_dbf[url]].url = url
    BY <2>1 DEF DBInv, IInv, Consistent, IndexConsistent
  <2>3. dbf[i_dbf[url]] \in DocumentRefs
    BY <2>1, IndexingConstants DEF DBInv, IInv, TypeOK
  <2>4. ~dbf[i_dbf[url]].accessed => dbf[i_dbf[url]].time = NoTime
    BY <2>1 DEF DBInv, WordsTrue, UnreadUndated, Stored
  <2> QED BY <1>1, <2>1, <2>2, <2>3, <2>4 DEF RefOf, Lookup
<1>2. CASE ~Known(url)
  <2>1. RefOf(url) = NewRef(url)
    BY <1>2 DEF RefOf
  <2>2. NewRef(url) \in DocumentRefs
    BY IndexingConstants DEF NewRef, DocumentRefs, States
  <2> QED BY <1>2, <2>1, <2>2 DEF NewRef
<1> QED BY <1>1, <1>2

(* A record is written for its URL, under its old ID or a new one. *)
LEMMA WriteStep ==
  ASSUME DBInv, NEW url \in URLs, NEW ref \in DocumentRefs, NEW h \in BOOLEAN,
         ref.url = url, Write(url, ref, h)
  PROVE  /\ IInv' /\ DocID(url) \in DocIDs /\ Counter' >= Counter /\ DocID(url) < Counter'
         /\ dbf' = [dbf EXCEPT ![DocID(url)] = ref]
         /\ Known(url) => Stored(DocID(url)) /\ dbf[DocID(url)].url = url
         /\ ~Known(url) => DocID(url) = Counter /\ ~Stored(DocID(url))
<1> USE Constants, IndexingConstants
<1>0. IInv /\ TypeOK /\ NextIDFresh /\ IndexConsistent
  BY DEF DBInv, IInv, Consistent
<1>1. CASE Known(url)
  <2>1. i_dbf[url] \in DocIDs /\ dbf[i_dbf[url]] # NoRef /\ i_dbf[url] # NoDocID
    BY <1>1 DEF Known, Stored
  <2>2. dbf[i_dbf[url]].url = url /\ i_dbf[url] < Counter
    BY <1>0, <2>1 DEF IndexConsistent, NextIDFresh
  <2>3. Add(i_dbf[url], ref, h) /\ DocID(url) = i_dbf[url]
    BY <1>1 DEF Write, DocID
  <2>4. isopen /\ Counter = nextDocID /\ Counter' = Counter
        /\ dbf' = [dbf EXCEPT ![i_dbf[url]] = ref]
    BY <2>3 DEF Add, Put, Counter
  <2>5. Next
    BY <2>1, <2>2, <2>3, <2>4 DEF Next, MayHold
  <2>6. IInv'
    BY <1>0, <2>5, TypeStep, ConsistentStep DEF IInv
  <2>7. Counter \in Nat
    BY <1>0, <2>4 DEF TypeOK
  <2> QED BY <1>1, <2>1, <2>2, <2>3, <2>4, <2>6, <2>7 DEF Stored
<1>2. CASE ~Known(url)
  <2>1. NextDocIDAndAdd(nextDocID, ref, h) /\ DocID(url) = nextDocID
    BY <1>2 DEF Write, DocID
  <2>2. isopen /\ Counter = nextDocID /\ Counter' = nextDocID + 1
        /\ dbf' = [dbf EXCEPT ![nextDocID] = ref] /\ nextDocID <= MaxDocID
    BY <2>1 DEF NextDocIDAndAdd, NextDocID, Put, Counter
  <2>3. nextDocID \in DocIDs /\ nextDocID \in Nat
    BY <1>0, <2>2 DEF TypeOK, DocIDs
  <2>4. dbf[nextDocID] = NoRef
    BY <1>0, <2>2, <2>3 DEF NextIDFresh
  <2>5. Next
    BY <2>1, <2>3, <2>4 DEF Next, MayHold
  <2>6. IInv'
    BY <1>0, <2>5, TypeStep, ConsistentStep DEF IInv
  <2> QED BY <1>2, <2>1, <2>2, <2>3, <2>4, <2>6 DEF Stored
<1> QED BY <1>1, <1>2

(* ... and keeps the postings true when it has the date of the old record,  *)
(* or that one had none, and words of its own date are all that is stored.  *)
LEMMA WriteKeeps ==
  ASSUME DBInv, NEW url \in URLs, NEW ref \in DocumentRefs, NEW h \in BOOLEAN,
         ref.url = url, Write(url, ref, h),
         ref.time = RefOf(url).time \/ RefOf(url).time = NoTime,
         ~ref.accessed => ref.time = NoTime,
         NEW e \in {LinkText, ref.time},
         word_db' \subseteq word_db \cup {<<DocID(url), <<url, e>>>>}
  PROVE  DBInv'
<1> USE IndexingConstants
<1> DEFINE id == DocID(url)
<1>1. /\ IInv' /\ id \in DocIDs /\ Counter' >= Counter /\ id < Counter'
      /\ dbf' = [dbf EXCEPT ![id] = ref]
      /\ Known(url) => Stored(id) /\ dbf[id].url = url
      /\ ~Known(url) => id = Counter /\ ~Stored(id)
  BY WriteStep
<1>2. Known(url) => RefOf(url) = dbf[id]
  BY DEF RefOf, Lookup, DocID
<1>0. word_db' \subseteq word_db \cup {<<id, <<url, e>>>>}
  OBVIOUS
<1> HIDE DEF id
<1>3. dbf \in [DocIDs -> DocumentRefs \cup {NoRef}] /\ Counter \in Nat /\ ref # NoRef
      /\ Counter' \in Nat
  BY <1>1, Constants DEF DBInv, IInv, TypeOK, Counter
<1>4. dbf'[id] = ref /\ \A i \in DocIDs \ {id} : dbf'[i] = dbf[i]
  BY <1>1, <1>3
<1>5. WordsOK'
  <2>1. <<id, <<url, e>>>> \in Postings
    BY <1>1 DEF Postings, DocumentRefs
  <2> QED BY <1>0, <2>1 DEF DBInv, WordsTrue, WordsOK
<1>6. ASSUME NEW p \in word_db PROVE p[1] < Counter /\ p[1] \in DocIDs
  BY <1>6 DEF DBInv, WordsTrue, PostingIDsSpent, WordsOK, Postings
<1>7. ASSUME NEW p \in word_db'
      PROVE  p[1] < Counter' /\ (Stored(p[1])' =>
               p[2][1] = dbf'[p[1]].url /\ p[2][2] \in {LinkText, dbf'[p[1]].time})
  <2>1. CASE p = <<id, <<url, e>>>>
    BY <1>1, <1>4, <2>1
  <2>2. CASE p \in word_db /\ p[1] # id
    <3>1. Stored(p[1])' <=> Stored(p[1])
      BY <1>4, <1>6, <2>2 DEF Stored
    <3>2. dbf'[p[1]] = dbf[p[1]]
      BY <1>4, <1>6, <2>2
    <3>3. p[1] < Counter'
      BY <1>1, <1>3, <1>6, <2>2, Constants
    <3> QED BY <2>2, <3>1, <3>2, <3>3 DEF DBInv, WordsTrue, PostingsTruthful
  <2>3. CASE p \in word_db /\ p[1] = id
    <3>1. Known(url)
      BY <1>1, <1>3, <1>6, <2>3
    <3>2. p[2][1] = dbf[id].url /\ p[2][2] \in {LinkText, dbf[id].time}
      BY <1>1, <2>3, <3>1 DEF DBInv, WordsTrue, PostingsTruthful
    <3>3. p[2][1] = url /\ p[2][2] \in {LinkText, ref.time}
      BY <1>1, <1>2, <3>1, <3>2
    <3> QED BY <1>1, <1>4, <2>3, <3>3
  <2> QED BY <1>0, <1>7, <2>1, <2>2, <2>3
<1>8. PostingsTruthful' /\ PostingIDsSpent'
  BY <1>7 DEF PostingsTruthful, PostingIDsSpent
<1>9. UnreadUndated'
  BY <1>4 DEF DBInv, WordsTrue, UnreadUndated, Stored
<1> QED BY <1>1, <1>5, <1>8, <1>9 DEF DBInv, WordsTrue

(* A link or a redirect to a URL. *)
LEMMA LinkKeeps ==
  ASSUME DBInv, NEW url \in URLs, NEW described \in BOOLEAN, LinkTo(url, described)
  PROVE  DBInv'
<1>1. /\ RefOf(url) \in DocumentRefs /\ RefOf(url).url = url
      /\ ~RefOf(url).accessed => RefOf(url).time = NoTime
  BY RefOfType
<1>2. Write(url, RefOf(url), FALSE)
      /\ word_db' \subseteq word_db \cup {<<DocID(url), <<url, LinkText>>>>}
  BY DEF LinkTo
<1> QED BY <1>1, <1>2, WriteKeeps

(* A page that gives no words. *)
LEMMA UnindexedKeeps ==
  ASSUME DBInv, NEW url \in URLs, NEW state \in States,
         Write(url, [Current(url) EXCEPT !.state = state], FALSE), UNCHANGED word_db
  PROVE  DBInv'
<1> DEFINE ref == [Current(url) EXCEPT !.state = state]
<1>1. RefOf(url) \in DocumentRefs /\ RefOf(url).url = url
  BY RefOfType
<1>2. ref \in DocumentRefs /\ ref.url = url /\ ref.time = RefOf(url).time /\ ref.accessed = TRUE
  BY <1>1 DEF Current, DocumentRefs, States
<1> HIDE DEF ref
<1>3. Write(url, ref, FALSE)
  BY DEF ref
<1> QED BY <1>2, <1>3, WriteKeeps

(* A first retrieval. *)
LEMMA IndexKeeps ==
  ASSUME DBInv, NEW url \in URLs, NEW edition \in Editions, NEW kind \in PageKinds,
         Index(url, edition, kind)
  PROVE  DBInv'
<1> DEFINE ref == Dated(Current(url), edition, kind)
<1>1. /\ RefOf(url) \in DocumentRefs /\ RefOf(url).url = url
      /\ RefOf(url).time = NoTime
  BY RefOfType DEF Index
<1>2. /\ ref \in DocumentRefs /\ ref.url = url /\ ref.accessed = TRUE
      /\ kind # "no_parser" => ref.time = edition
  BY <1>1, IndexingConstants DEF Current, Dated, DocumentRefs, States, PageKinds
<1> HIDE DEF ref
<1>3. /\ Write(url, ref, HasExcerpt(kind)) /\ HasExcerpt(kind) \in BOOLEAN
      /\ Store(DocID(url), url, edition, kind)
  BY DEF Index, ref, HasExcerpt
<1>4. PICK e \in {LinkText, ref.time} : word_db' \subseteq word_db \cup {<<DocID(url), <<url, e>>>>}
  BY <1>2, <1>3 DEF Store, PageKinds
<1> QED BY <1>1, <1>2, <1>3, <1>4, WriteKeeps

(* A document that changed. *)
LEMMA ReindexKeeps ==
  ASSUME DBInv, NEW url \in URLs, NEW edition \in Editions, NEW kind \in PageKinds,
         Reindex(url, edition, kind)
  PROVE  DBInv'
<1> USE Constants, IndexingConstants
<1> DEFINE old == [Current(url) EXCEPT !.state = "obsolete"]
           new == Dated([NewRef(url) EXCEPT !.accessed = TRUE], edition, kind)
           i == i_dbf[url]
           n == nextDocID
<1>1. /\ RefOf(url) \in DocumentRefs /\ RefOf(url).url = url /\ Known(url) /\ i \in DocIDs
      /\ RefOf(url) = dbf[i] /\ Stored(i)
  BY RefOfType DEF Reindex, RefOf, Lookup, Known
<1>2. old \in DocumentRefs /\ old.url = url /\ old.time = dbf[i].time /\ old.accessed = TRUE
  BY <1>1 DEF Current, DocumentRefs, States
<1>3. /\ new \in DocumentRefs /\ new.url = url /\ new.accessed = TRUE
      /\ kind # "no_parser" => new.time = edition
  BY DEF NewRef, Dated, DocumentRefs, States, PageKinds
<1>4. /\ isopen /\ n \in DocIDs /\ nextDocID' = n + 1
      /\ dbf' = [dbf EXCEPT ![i] = old, ![n] = new]
      /\ h_dbf' \subseteq h_dbf \cup {n}
      /\ i_dbf' = [i_dbf EXCEPT ![url] = n]
      /\ UNCHANGED <<isopen, savedDocID>>
      /\ Store(n, url, edition, kind)
  BY DEF Reindex
<1> HIDE DEF old, new, i, n
<1>5. /\ TypeOK /\ NextIDFresh /\ IndexConsistent /\ ExcerptsOwned /\ WordsOK
      /\ PostingsTruthful /\ PostingIDsSpent /\ UnreadUndated
  BY DEF DBInv, IInv, Consistent, WordsTrue
<1>6. Counter = n /\ Counter' = n + 1
  BY <1>4 DEF Counter, n
<1>7. dbf[n] = NoRef /\ i # n
  BY <1>1, <1>4, <1>5, <1>6 DEF NextIDFresh, Stored
<1>8. /\ dbf'[i] = old /\ dbf'[n] = new /\ old # NoRef /\ new # NoRef
      /\ \A d \in DocIDs \ {i, n} : dbf'[d] = dbf[d]
      /\ i_dbf'[url] = n /\ \A u \in URLs \ {url} : i_dbf'[u] = i_dbf[u]
  BY <1>1, <1>2, <1>3, <1>4, <1>5, <1>7 DEF TypeOK
<1>9. TypeOK'
  BY <1>2, <1>3, <1>4, <1>5 DEF TypeOK, DocIDs, n
<1>10. NextIDFresh'
  BY <1>1, <1>4, <1>5, <1>6, <1>7, <1>8 DEF NextIDFresh, Stored
<1>11. IndexConsistent'
  <2> SUFFICES ASSUME NEW u \in URLs, i_dbf'[u] # NoDocID
               PROVE  i_dbf'[u] \in DocIDs /\ dbf'[i_dbf'[u]] # NoRef /\ dbf'[i_dbf'[u]].url = u
    BY DEF IndexConsistent, Stored
  <2>1. CASE u = url
    BY <1>3, <1>4, <1>8, <2>1
  <2>2. CASE u # url
    <3>1. i_dbf[u] \in DocIDs /\ dbf[i_dbf[u]] # NoRef /\ dbf[i_dbf[u]].url = u
      BY <1>5, <1>8, <2>2 DEF IndexConsistent, Stored
    <3>2. i_dbf[u] \notin {i, n}
      BY <1>1, <1>7, <2>2, <3>1
    <3> QED BY <1>8, <2>2, <3>1, <3>2
  <2> QED BY <2>1, <2>2
<1>12. ExcerptsOwned'
  BY <1>4, <1>5, <1>8 DEF ExcerptsOwned, Stored, TypeOK
<1>13. PICK e \in {LinkText, new.time} : word_db' \subseteq word_db \cup {<<n, <<url, e>>>>}
  BY <1>3, <1>4 DEF Store, PageKinds
<1>14. WordsOK'
  BY <1>3, <1>4, <1>5, <1>13 DEF WordsOK, Postings, DocumentRefs
<1>15. ASSUME NEW p \in word_db'
       PROVE  p[1] < Counter' /\ (Stored(p[1])' =>
                p[2][1] = dbf'[p[1]].url /\ p[2][2] \in {LinkText, dbf'[p[1]].time})
  <2>1. CASE p = <<n, <<url, e>>>>
    BY <1>3, <1>4, <1>6, <1>8, <2>1
  <2>2. CASE p \in word_db
    <3>1. p[1] < n /\ p[1] \in DocIDs
      BY <1>5, <1>6, <2>2 DEF PostingIDsSpent, WordsOK, Postings
    <3>2. Stored(p[1])' => Stored(p[1]) /\ dbf'[p[1]].url = dbf[p[1]].url
                             /\ dbf'[p[1]].time = dbf[p[1]].time
      <4>1. p[1] # n
        BY <1>4, <3>1
      <4>2. CASE p[1] = i
        BY <1>1, <1>2, <1>8, <4>2
      <4>3. CASE p[1] # i
        BY <1>8, <3>1, <4>1, <4>3 DEF Stored
      <4> QED BY <4>2, <4>3
    <3> QED BY <1>4, <1>5, <1>6, <2>2, <3>1, <3>2 DEF PostingsTruthful
  <2> QED BY <1>13, <1>15, <2>1, <2>2
<1>16. PostingsTruthful' /\ PostingIDsSpent'
  BY <1>15 DEF PostingsTruthful, PostingIDsSpent
<1>17. UnreadUndated'
  BY <1>2, <1>3, <1>5, <1>8 DEF UnreadUndated, Stored
<1> QED BY <1>9, <1>10, <1>11, <1>12, <1>14, <1>16, <1>17 DEF DBInv, IInv, Consistent, WordsTrue

(* Every step of a dig. *)
LEMMA PageKeeps ==
  ASSUME DBInv, Link \/ \E url \in URLs : Page(url)
  PROVE  DBInv'
<1>1. ASSUME NEW url \in URLs, NEW described \in Described, LinkTo(url, described)
      PROVE  DBInv'
  <2>1. described \in BOOLEAN
    BY IndexingAssumption
  <2> QED BY <1>1, <2>1, LinkKeeps
<1>2. ASSUME NEW url \in URLs, NEW state \in States, NotRetrieved(url, state)
      PROVE  DBInv'
  BY <1>2, UnindexedKeeps DEF NotRetrieved
<1>3. ASSUME NEW url \in URLs, Redirected(url) PROVE DBInv'
  <2>1. "obsolete" \in States
    BY DEF States
  <2> QED BY <1>3, <2>1, UnindexedKeeps DEF Redirected
<1>4. ASSUME NEW url \in URLs, NEW e \in Editions, NEW kind \in Kinds[url][e],
             Index(url, e, kind) \/ Reindex(url, e, kind)
      PROVE  DBInv'
  <2>1. kind \in PageKinds
    BY IndexingAssumption
  <2> QED BY <1>4, <2>1, IndexKeeps, ReindexKeeps
<1> QED BY <1>1, <1>2, <1>3, <1>4 DEF Link, Page

(* Opening, with the words kept or erased, and closing. *)
LEMMA OpenKeeps ==
  ASSUME DBInv, ((Open \/ Close) /\ UNCHANGED word_db) \/ (OpenErased /\ word_db' = {})
  PROVE  DBInv'
<1>1. IInv'
  BY TypeStep, ConsistentStep DEF DBInv, IInv, Next
<1>2. CASE OpenErased /\ word_db' = {}
  BY <1>1, <1>2 DEF OpenErased, DBInv, WordsTrue, WordsOK, PostingsTruthful, PostingIDsSpent, UnreadUndated, Stored
<1>3. CASE (Open \/ Close) /\ UNCHANGED word_db
  <2>1. Counter' = Counter /\ UNCHANGED dbf
    BY <1>3, Constants DEF Open, Close, Counter, tables, DBInv, IInv, TypeOK, NoDocID
  <2> QED BY <1>1, <1>3, <2>1 DEF DBInv, WordsTrue, WordsOK, PostingsTruthful, PostingIDsSpent, UnreadUndated, Stored
<1> QED BY <1>2, <1>3
=============================================================================
