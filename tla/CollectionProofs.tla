-------------------------- MODULE CollectionProofs --------------------------
(***************************************************************************)
(* Theorems about Collection, for any pages, any number of digs, purges    *)
(* and merges and any kills between the passes of the tools.               *)
(*                                                                         *)
(* Outside mergeDocs the databases of a collection satisfy DBInv, which    *)
(* IndexingProofs shows a dig to keep.  Inside it the records that hlmerge *)
(* adds lie above the counter; what takes the place of NextIDFresh is that *)
(* every record from docIDOffset on is the shifted copy of one of the      *)
(* other collection, of a URL that is already merged (MergeInv).           *)
(***************************************************************************)
EXTENDS Collection, IndexingProofs

otherP == INSTANCE IndexingProofs
            WITH isopen <- m_isopen, nextDocID <- m_nextDocID,
                 savedDocID <- m_savedDocID, dbf <- m_dbf, i_dbf <- m_i_dbf,
                 h_dbf <- m_h_dbf, word_db <- m_word_db

OpenInv ==
  /\ isopen <=> pc \in {"dig", "purgeDocs", "mergeDocs"}
  /\ m_isopen <=> pc \in {"digOther", "mergeDocs"}

Merging == pc \in {"mergeDocs", "mergeWords"}

(* Stored records are old ones or shifted copies. *)
Copies ==
  \A id \in DocIDs : Stored(id) =>
    id < docIDOffset \/ (id - docIDOffset \in DocIDs /\ dbf[id] = m_dbf[id - docIDOffset])

MergeInv ==
  /\ Merging => /\ docIDOffset >= FirstDocID
                /\ Copies
                /\ \A p \in word_db : p[1] < docIDOffset
  /\ pc = "mergeDocs" =>
       /\ nextDocID = docIDOffset + 1 /\ docIDOffset + m_nextDocID < MaxDocID
       /\ \A id \in DocIDs : Stored(id) /\ id >= docIDOffset => dbf[id].url \notin urls
  /\ pc = "mergeWords" => savedDocID = docIDOffset + m_savedDocID /\ m_savedDocID >= FirstDocID

TablesTrue == TypeOK /\ IndexConsistent /\ ExcerptsOwned /\ WordsTrue

IndInv ==
  /\ CollectionOK /\ OpenInv /\ MergeInv
  /\ TablesTrue /\ IDsFresh
  /\ otherP!DBInv

-----------------------------------------------------------------------------
LEMMA Parts == DBInv <=> TablesTrue /\ NextIDFresh
BY DEF DBInv, IInv, Consistent, TablesTrue

LEMMA OtherParts ==
  otherP!DBInv <=> /\ other!TypeOK /\ other!IndexConsistent /\ other!ExcerptsOwned
                   /\ other!NextIDFresh /\ other!WordsOK /\ other!PostingsTruthful
                   /\ other!PostingIDsSpent /\ otherP!UnreadUndated
BY DEF otherP!DBInv, otherP!IInv, otherP!Consistent, otherP!WordsTrue,
       other!DocIDs, otherP!DocIDs, other!FirstDocID, otherP!FirstDocID, other!NEXT_DOC_ID_RECORD,
       otherP!NEXT_DOC_ID_RECORD, other!NoDocID, otherP!NoDocID, other!States, otherP!States,
       other!Editions, otherP!Editions, other!PageKinds, otherP!PageKinds, other!NoTime, otherP!NoTime,
       other!LinkText, otherP!LinkText, other!DocumentRefs, otherP!DocumentRefs,
       otherP!TypeOK, otherP!IndexConsistent, otherP!ExcerptsOwned, otherP!NextIDFresh,
       otherP!WordsOK, otherP!PostingsTruthful, otherP!PostingIDsSpent, otherP!Stored,
       otherP!Counter, otherP!Postings,
       other!TypeOK, other!IndexConsistent, other!ExcerptsOwned, other!NextIDFresh,
       other!WordsOK, other!PostingsTruthful, other!PostingIDsSpent, other!Stored,
       other!Counter, other!Postings

(* The assumptions, as the instance reads them. *)
LEMMA OtherConstants ==
  /\ MaxDocID \in Nat /\ MaxDocID >= otherP!FirstDocID
  /\ MaxEdition \in Nat \ {0} /\ Refs = otherP!DocumentRefs
  /\ Kinds \in [URLs -> [otherP!Editions -> SUBSET otherP!PageKinds]]
  /\ Described \subseteq BOOLEAN
BY MaxDocIDAssumption, IndexingAssumption
   DEF DocumentRefs, States, Editions, PageKinds, FirstDocID, NEXT_DOC_ID_RECORD,
       otherP!DocumentRefs, otherP!States, otherP!Editions, otherP!PageKinds,
       otherP!FirstDocID, otherP!NEXT_DOC_ID_RECORD

(* The dig of the other collection. *)
LEMMA OtherPageKeeps ==
  ASSUME otherP!DBInv, other!Link \/ \E url \in URLs : other!Page(url)
  PROVE  otherP!DBInv'
<1>1. otherP!Link \/ \E url \in URLs : otherP!Page(url)
  BY DEF other!Link, other!Page, otherP!Link, otherP!Page,
     other!LinkTo, other!NotRetrieved, other!Redirected, other!Index, other!Reindex,
     otherP!LinkTo, otherP!NotRetrieved, otherP!Redirected, otherP!Index, otherP!Reindex,
     other!Write, other!RefOf, other!DocID, other!Current, other!Lookup, other!Known,
     otherP!Write, otherP!RefOf, otherP!DocID, otherP!Current, otherP!Lookup, otherP!Known,
     other!Store, other!Stored, other!Add, other!Put, other!NextDocIDAndAdd, other!NextDocID,
     otherP!Store, otherP!Stored, otherP!Add, otherP!Put, otherP!NextDocIDAndAdd, otherP!NextDocID,
     other!DocIDs, otherP!DocIDs, other!FirstDocID, otherP!FirstDocID, other!NEXT_DOC_ID_RECORD,
     otherP!NEXT_DOC_ID_RECORD, other!NoDocID, otherP!NoDocID, other!States, otherP!States,
     other!Editions, otherP!Editions, other!PageKinds, otherP!PageKinds, other!NoTime, otherP!NoTime,
     other!LinkText, otherP!LinkText, other!DocumentRefs, otherP!DocumentRefs,
     other!NewRef, otherP!NewRef, other!Dated, otherP!Dated, other!HasExcerpt, otherP!HasExcerpt
<1> QED BY <1>1, OtherConstants, otherP!PageKeeps, RefsAssumption

LEMMA OtherOpenKeeps ==
  ASSUME otherP!DBInv, other!Open \/ other!Close, UNCHANGED m_word_db
  PROVE  otherP!DBInv'
<1>1. otherP!Open \/ otherP!Close
  BY DEF other!Open, other!Close, otherP!Open, otherP!Close, other!tables, otherP!tables,
         other!NoDocID, otherP!NoDocID, other!FirstDocID, otherP!FirstDocID,
         other!NEXT_DOC_ID_RECORD, otherP!NEXT_DOC_ID_RECORD
<1> QED BY <1>1, OtherConstants, otherP!OpenKeeps, RefsAssumption

LEMMA OtherStutters ==
  ASSUME otherP!DBInv, UNCHANGED <<m_vars, m_word_db>>
  PROVE  otherP!DBInv'
BY DEF m_vars, otherP!DBInv, otherP!IInv, otherP!Consistent, otherP!WordsTrue,
       otherP!TypeOK, otherP!IndexConsistent, otherP!ExcerptsOwned, otherP!NextIDFresh,
       otherP!WordsOK, otherP!PostingsTruthful, otherP!PostingIDsSpent, otherP!Stored,
       otherP!Counter, otherP!Postings, otherP!UnreadUndated

-----------------------------------------------------------------------------
(* Steps that leave the records or take some away.                          *)
LEMMA FewerWords ==
  ASSUME DBInv, UNCHANGED vars, word_db' \subseteq word_db
  PROVE  DBInv'
BY DEF DBInv, IInv, Consistent, TypeOK, NextIDFresh, IndexConsistent, ExcerptsOwned, Stored, Counter,
       WordsTrue, WordsOK, PostingsTruthful, PostingIDsSpent, UnreadUndated, vars

LEMMA DeleteKeeps ==
  ASSUME DBInv, NEW id \in DocIDs, Delete(id), UNCHANGED word_db
  PROVE  DBInv'
<1>1. IInv'
  BY TypeStep, ConsistentStep DEF DBInv, IInv, Next
<1>2. Counter' = Counter /\ \A i \in DocIDs : Stored(i)' => Stored(i) /\ dbf'[i] = dbf[i]
  BY Constants DEF Delete, Counter, DBInv, IInv, TypeOK, Stored
<1>3. \A p \in word_db : p[1] \in DocIDs
  BY DEF DBInv, WordsTrue, WordsOK, Postings
<1> QED BY <1>1, <1>2, <1>3 DEF DBInv, WordsTrue, WordsOK, PostingsTruthful, PostingIDsSpent,
                                UnreadUndated

-----------------------------------------------------------------------------
(* The whole: initially, and from step to step.                             *)
Numbers == digs \in 0 .. MaxDigs /\ purges \in 0 .. MaxPurges /\ merges \in 0 .. MaxMerges

ToolsOK == PurgeOK /\ MergeOK /\ pc \in Places /\ Numbers /\ fetched \subseteq URLs

LEMMA TypesAre == CollectionOK <=> TypeOK /\ WordsOK /\ other!TypeOK /\ other!WordsOK /\ ToolsOK
BY DEF CollectionOK, ToolsOK, Numbers

LEMMA InitHolds == CollectionInit => IndInv
<1> SUFFICES ASSUME CollectionInit PROVE IndInv
  OBVIOUS
<1> USE Constants DEF CollectionInit
<1>1. IInv
  BY TypeInit, InitConsistent DEF IInv
<1>2. WordsTrue
  BY DEF WordsTrue, WordsOK, PostingsTruthful, PostingIDsSpent, UnreadUndated, Stored, Init, NoTables
<1>3. otherP!DBInv
  <2>1. otherP!Init
    BY DEF other!Init, otherP!Init, other!NoTables, otherP!NoTables, other!FirstDocID, otherP!FirstDocID,
       other!NEXT_DOC_ID_RECORD, otherP!NEXT_DOC_ID_RECORD, other!NoDocID, otherP!NoDocID,
       other!DocIDs, otherP!DocIDs
  <2>2. otherP!IInv
    BY <2>1, OtherConstants, RefsAssumption, otherP!TypeInit, otherP!InitConsistent DEF otherP!IInv
  <2>3. otherP!WordsTrue
    BY <2>1 DEF otherP!WordsTrue, otherP!WordsOK, otherP!PostingsTruthful, otherP!PostingIDsSpent,
                otherP!UnreadUndated, otherP!Stored, otherP!Init, otherP!NoTables
  <2> QED BY <2>2, <2>3 DEF otherP!DBInv
<1>4. ToolsOK
  BY CollectionAssumption DEF ToolsOK, Numbers, PurgeOK, MergeOK, Places
<1>5. TablesTrue /\ NextIDFresh
  BY <1>1, <1>2, Parts DEF DBInv
<1>6. CollectionOK
  BY <1>3, <1>4, <1>5, OtherParts, TypesAre DEF TablesTrue, WordsTrue
<1>7. OpenInv /\ MergeInv
  BY DEF OpenInv, MergeInv, Merging, Init, other!Init
<1> QED BY <1>3, <1>5, <1>6, <1>7 DEF IndInv, IDsFresh

LEMMA OtherTypes == ASSUME otherP!DBInv' PROVE other!TypeOK' /\ other!WordsOK'
BY DEF otherP!DBInv, otherP!IInv, otherP!WordsTrue, otherP!TypeOK, other!TypeOK, otherP!WordsOK,
       other!WordsOK, otherP!Postings, other!Postings, other!DocIDs, otherP!DocIDs,
       other!FirstDocID, otherP!FirstDocID, other!NoDocID, otherP!NoDocID,
       other!NEXT_DOC_ID_RECORD, otherP!NEXT_DOC_ID_RECORD

(* A step that keeps the databases keeps the types. *)
LEMMA KeepsTypes ==
  ASSUME DBInv', otherP!DBInv', ToolsOK'
  PROVE  CollectionOK' /\ TablesTrue' /\ IDsFresh'
<1>1. TypeOK' /\ WordsOK' /\ TablesTrue' /\ NextIDFresh'
  BY DEF DBInv, IInv, Consistent, TablesTrue, WordsTrue
<1>2. other!TypeOK' /\ other!WordsOK'
  BY OtherTypes
<1> QED BY <1>1, <1>2 DEF CollectionOK, ToolsOK, Numbers, IDsFresh

LEMMA Unmerging ==
  ASSUME DBInv', otherP!DBInv', ToolsOK', OpenInv', pc' \notin {"mergeDocs", "mergeWords"}
  PROVE  IndInv'
BY KeepsTypes DEF IndInv, MergeInv, Merging

LEMMA Outside ==
  ASSUME IndInv, pc # "mergeDocs"
  PROVE  DBInv /\ otherP!DBInv /\ ToolsOK /\ OpenInv
BY Parts, TypesAre DEF IndInv, IDsFresh

(* A page changes the tables and the counter only. *)
LEMMA PageStaysOpen ==
  ASSUME Link \/ \E url \in URLs : Page(url)
  PROVE  isopen' = isopen
BY DEF Link, Page, LinkTo, NotRetrieved, Redirected, Index, Reindex, Write, Add, NextDocIDAndAdd,
       NextDocID

LEMMA OtherPageStaysOpen ==
  ASSUME other!Link \/ \E url \in URLs : other!Page(url)
  PROVE  m_isopen' = m_isopen
BY DEF other!Link, other!Page, other!LinkTo, other!NotRetrieved, other!Redirected, other!Index,
       other!Reindex, other!Write, other!Add, other!NextDocIDAndAdd, other!NextDocID

LEMMA DigStep ==
  ASSUME IndInv, DigStart \/ DigPage \/ DigEnd
  PROVE  IndInv'
<1>1. DBInv /\ otherP!DBInv /\ ToolsOK /\ OpenInv
  BY Outside DEF DigStart, DigPage, DigEnd
<1>2. otherP!DBInv' /\ m_isopen' = m_isopen
  BY <1>1, OtherStutters DEF DigStart, DigPage, DigEnd, Unmerged, m_vars
<1>3. ToolsOK'
  <2>1. PurgeOK' /\ MergeOK' /\ purges' \in 0 .. MaxPurges /\ merges' \in 0 .. MaxMerges
    BY <1>1 DEF ToolsOK, Numbers, PurgeOK, MergeOK, DigStart, DigPage, DigEnd, toolVars, purgeVars, mergeVars
  <2>2. digs' \in 0 .. MaxDigs
    <3>1. digs \in 0 .. MaxDigs /\ MaxDigs \in Nat
      BY <1>1, CollectionAssumption DEF ToolsOK, Numbers
    <3>2. digs' = digs \/ (digs < MaxDigs /\ digs' = digs + 1)
      BY DEF DigStart, DigPage, DigEnd
    <3> QED BY <3>1, <3>2
  <2>3. pc' \in Places
    BY <1>1 DEF ToolsOK, Places, DigStart, DigPage, DigEnd
  <2>4. fetched' \subseteq URLs
    <3>1. fetched \subseteq URLs
      BY <1>1 DEF ToolsOK
    <3>2. fetched' \in {fetched, {}} \/ \E url \in URLs : fetched' = fetched \cup {url}
      BY DEF DigStart, DigPage, DigEnd
    <3> QED BY <3>1, <3>2
  <2> QED BY <2>1, <2>2, <2>3, <2>4 DEF ToolsOK, Numbers
<1>4. CASE DigStart
  <2>1. DBInv' /\ isopen' = TRUE
    BY <1>1, <1>4, OpenKeeps DEF DigStart, Open, OpenErased
  <2> QED BY <1>1, <1>2, <1>3, <1>4, <2>1, Unmerging DEF DigStart, OpenInv
<1>5. CASE DigPage
  <2>1. Link \/ \E url \in URLs : Page(url)
    BY <1>5 DEF DigPage
  <2>2. DBInv' /\ isopen' = isopen
    BY <1>1, <2>1, PageKeeps, PageStaysOpen
  <2> QED BY <1>1, <1>2, <1>3, <1>5, <2>2, Unmerging DEF DigPage, OpenInv
<1>6. CASE DigEnd
  <2>1. DBInv' /\ isopen' = FALSE
    BY <1>1, <1>6, OpenKeeps DEF DigEnd, Close
  <2> QED BY <1>1, <1>2, <1>3, <1>6, <2>1, Unmerging DEF DigEnd, OpenInv
<1> QED BY <1>4, <1>5, <1>6

LEMMA DigOtherStep ==
  ASSUME IndInv, DigOther
  PROVE  IndInv'
<1>1. DBInv /\ otherP!DBInv /\ ToolsOK /\ OpenInv /\ UNCHANGED <<vars, word_db>>
  BY Outside DEF DigOther
<1>2. DBInv' /\ isopen' = isopen
  BY <1>1, FewerWords DEF vars
<1>3. ToolsOK'
  BY <1>1 DEF ToolsOK, Numbers, PurgeOK, MergeOK, Places, DigOther, toolVars, purgeVars, mergeVars
<1>4. CASE pc = "idle"
  <2>1. otherP!DBInv' /\ m_isopen' = TRUE /\ pc' = "digOther"
    BY <1>1, <1>4, OtherOpenKeeps DEF DigOther, other!Open
  <2> QED BY <1>1, <1>2, <1>3, <1>4, <2>1, Unmerging DEF OpenInv
<1>5. CASE pc = "digOther" /\ pc' = pc
  <2>1. other!Link \/ \E url \in URLs : other!Page(url)
    BY <1>5 DEF DigOther
  <2>2. otherP!DBInv' /\ m_isopen' = m_isopen
    BY <1>1, <2>1, OtherPageKeeps, OtherPageStaysOpen
  <2> QED BY <1>1, <1>2, <1>3, <1>5, <2>2, Unmerging DEF OpenInv
<1>6. CASE pc = "digOther" /\ pc' = "idle"
  <2>1. otherP!DBInv' /\ m_isopen' = FALSE
    BY <1>1, <1>6, OtherOpenKeeps DEF DigOther, other!Close
  <2> QED BY <1>1, <1>2, <1>3, <1>6, <2>1, Unmerging DEF OpenInv
<1> QED BY <1>4, <1>5, <1>6 DEF DigOther

LEMMA PurgeStep ==
  ASSUME IndInv, PurgeStart \/ Purge
  PROVE  IndInv'
<1>1. DBInv /\ otherP!DBInv /\ ToolsOK /\ OpenInv
  BY Outside DEF PurgeStart, Purge
<1>2. otherP!DBInv' /\ m_isopen' = m_isopen
  BY <1>1, OtherStutters DEF PurgeStart, Purge, Unmerged, m_vars
<1>3. UNCHANGED <<mergeVars, digs, merges, fetched>>
  BY DEF PurgeStart, Purge
<1>4. MergeOK' /\ digs' \in 0 .. MaxDigs /\ merges' \in 0 .. MaxMerges /\ fetched' \subseteq URLs
  BY <1>1, <1>3 DEF ToolsOK, Numbers, MergeOK, mergeVars
<1>5. CASE PurgeStart
  <2>1. DBInv' /\ isopen' = TRUE
    BY <1>1, <1>5, OpenKeeps DEF PurgeStart, PurgeOpen, Open
  <2>2. ToolsOK'
    BY <1>1, <1>4, <1>5, CollectionAssumption DEF ToolsOK, Numbers, PurgeOK, Places, PurgeStart, PurgeOpen
  <2> QED BY <1>1, <1>2, <1>5, <2>1, <2>2, Unmerging DEF PurgeStart, OpenInv
<1>6. ASSUME pc = "purgeDocs", pc' = pc, UNCHANGED purges, NEW id \in IDs, PurgeDoc(id)
      PROVE  IndInv'
  <2>1. id \in DocIDs
    BY <1>1 DEF ToolsOK, PurgeOK
  <2>2. (Delete(id) \/ UNCHANGED vars) /\ UNCHANGED word_db
    BY <1>6 DEF PurgeDoc
  <2>3. DBInv' /\ isopen' = isopen
    BY <1>1, <2>1, <2>2, DeleteKeeps, FewerWords DEF Delete, vars
  <2>4. ToolsOK'
    BY <1>1, <1>4, <1>6, <2>1 DEF ToolsOK, Numbers, PurgeOK, Places, PurgeDoc
  <2> QED BY <1>1, <1>2, <1>6, <2>3, <2>4, Unmerging DEF OpenInv
<1>7. CASE pc = "purgeDocs" /\ pc' = "purgeWords" /\ PurgeClose /\ UNCHANGED purges
  <2>1. DBInv' /\ isopen' = FALSE
    BY <1>1, <1>7, OpenKeeps DEF PurgeClose, Close
  <2>2. ToolsOK'
    BY <1>1, <1>4, <1>7 DEF ToolsOK, Numbers, PurgeOK, Places, PurgeClose, purgeVars
  <2> QED BY <1>1, <1>2, <1>7, <2>1, <2>2, Unmerging DEF OpenInv
<1>8. CASE pc = "purgeWords" /\ pc' = "idle" /\ PurgeWords /\ UNCHANGED purges
  <2>1. DBInv' /\ isopen' = isopen
    BY <1>1, <1>8, FewerWords DEF PurgeWords, vars
  <2>2. ToolsOK'
    BY <1>1, <1>4, <1>8 DEF ToolsOK, Numbers, PurgeOK, Places, PurgeWords
  <2> QED BY <1>1, <1>2, <1>8, <2>1, <2>2, Unmerging DEF OpenInv
<1> QED BY <1>5, <1>6, <1>7, <1>8 DEF Purge

-----------------------------------------------------------------------------
(* hlmerge.                                                                 *)

(* What is known of the other collection, in the names of this module.      *)
LEMMA OtherFacts ==
  ASSUME otherP!DBInv
  PROVE  /\ m_isopen \in BOOLEAN /\ m_nextDocID \in FirstDocID .. MaxDocID + 1
         /\ m_savedDocID \in {NoDocID} \cup FirstDocID .. MaxDocID + 1
         /\ m_dbf \in [DocIDs -> Refs \cup {NoRef}]
         /\ m_i_dbf \in [URLs -> DocIDs \cup {NoDocID}] /\ m_h_dbf \subseteq DocIDs
         /\ \A id \in DocIDs : m_dbf[id] # NoRef =>
              /\ id < other!Counter
              /\ ~m_dbf[id].accessed => m_dbf[id].time = NoTime
         /\ \A u \in URLs : other!Known(u) =>
              m_i_dbf[u] \in DocIDs /\ m_dbf[m_i_dbf[u]] # NoRef /\ m_dbf[m_i_dbf[u]].url = u
         /\ m_word_db \subseteq Postings
         /\ \A p \in m_word_db :
              /\ p[1] < other!Counter
              /\ m_dbf[p[1]] # NoRef =>
                   p[2][1] = m_dbf[p[1]].url /\ p[2][2] \in {LinkText, m_dbf[p[1]].time}
BY Constants DEF otherP!DBInv, otherP!IInv, otherP!Consistent, otherP!WordsTrue,
       otherP!TypeOK, otherP!IndexConsistent, otherP!ExcerptsOwned, otherP!NextIDFresh,
       otherP!WordsOK, otherP!PostingsTruthful, otherP!PostingIDsSpent, otherP!Stored,
       otherP!Counter, otherP!Postings, otherP!UnreadUndated, otherP!DocIDs, DocIDs,
       otherP!FirstDocID, FirstDocID, otherP!NEXT_DOC_ID_RECORD, NEXT_DOC_ID_RECORD,
       otherP!NoDocID, NoDocID, otherP!NoTime, NoTime, otherP!LinkText, LinkText, Postings,
       other!Counter, other!FirstDocID, other!NEXT_DOC_ID_RECORD, other!NoDocID,
       other!Known, other!Stored, other!DocIDs

LEMMA MergeStartStep ==
  ASSUME IndInv, MergeStart
  PROVE  IndInv'
<1> USE Constants
<1>1. DBInv /\ otherP!DBInv /\ ToolsOK /\ OpenInv /\ TypeOK /\ NextIDFresh
  BY Outside DEF MergeStart, DBInv, IInv, Consistent
<1>2. otherP!DBInv'
  BY <1>1, OtherOpenKeeps DEF MergeStart, MergeOpen
<1>3. /\ pc' = "mergeDocs" /\ isopen' = TRUE /\ m_isopen' = TRUE
      /\ docIDOffset' = Counter /\ nextDocID' = Counter + 1 /\ Counter' = Counter + 1
      /\ UNCHANGED <<savedDocID, dbf, i_dbf, h_dbf, word_db>>
      /\ Counter \in Nat /\ Counter >= FirstDocID
      /\ m_nextDocID' = m_savedDocID /\ m_savedDocID \in Nat /\ Counter + m_savedDocID < MaxDocID
  <2>1. Counter \in Nat /\ Counter >= FirstDocID
    BY <1>1 DEF TypeOK, Counter, NoDocID
  <2>2. m_savedDocID \in Nat
    BY <1>1, OtherFacts DEF NoDocID
  <2> QED BY <2>1, <2>2 DEF MergeStart, MergeOpen, other!Open, tables, Counter, other!NoDocID, NoDocID
<1>4. TablesTrue'
  <2>1. /\ TypeOK /\ IndexConsistent /\ ExcerptsOwned /\ WordsOK /\ PostingsTruthful
        /\ PostingIDsSpent /\ UnreadUndated
    BY <1>1, Parts DEF TablesTrue, WordsTrue
  <2>2. TypeOK' /\ IndexConsistent' /\ ExcerptsOwned'
    BY <1>3, <2>1 DEF TypeOK, IndexConsistent, ExcerptsOwned, Stored
  <2>3. WordsOK' /\ PostingsTruthful' /\ UnreadUndated'
    BY <1>3, <2>1 DEF WordsOK, PostingsTruthful, UnreadUndated, Stored
  <2>4. PostingIDsSpent'
    <3> SUFFICES ASSUME NEW p \in word_db PROVE p[1] < Counter'
      BY <1>3 DEF PostingIDsSpent
    <3>1. p[1] < Counter /\ p[1] \in DocIDs
      BY <2>1 DEF PostingIDsSpent, WordsOK, Postings
    <3> QED BY <1>3, <3>1
  <2> QED BY <2>2, <2>3, <2>4 DEF TablesTrue, WordsTrue
<1>5. MergeInv'
  <2>1. \A id \in DocIDs : Stored(id)' => id < docIDOffset'
    BY <1>1, <1>3 DEF NextIDFresh, Stored
  <2>2. \A p \in word_db' : p[1] < docIDOffset'
    BY <1>1, <1>3 DEF DBInv, WordsTrue, PostingIDsSpent
  <2> QED BY <1>3, <2>1, <2>2 DEF MergeInv, Merging, Copies
<1>6. ToolsOK'
  <2>1. MergeOK'
    BY <1>3 DEF MergeStart, MergeOpen, MergeOK, other!IndexedURLs
  <2>2. merges' \in 0 .. MaxMerges
    BY <1>1, CollectionAssumption DEF ToolsOK, Numbers, MergeStart
  <2> QED BY <1>1, <1>3, <2>1, <2>2 DEF ToolsOK, Numbers, PurgeOK, Places, MergeStart, purgeVars
<1>7. OpenInv' /\ IDsFresh'
  BY <1>3 DEF OpenInv, IDsFresh
<1>8. CollectionOK'
  <2>1. TypeOK' /\ WordsOK'
    BY <1>4 DEF TablesTrue, WordsTrue
  <2>2. other!TypeOK' /\ other!WordsOK'
    BY <1>2 DEF otherP!DBInv, otherP!IInv, otherP!WordsTrue, otherP!TypeOK, other!TypeOK, otherP!WordsOK,
         other!WordsOK, otherP!Postings, other!Postings, other!DocIDs, otherP!DocIDs,
         other!FirstDocID, otherP!FirstDocID, other!NoDocID, otherP!NoDocID,
         other!NEXT_DOC_ID_RECORD, otherP!NEXT_DOC_ID_RECORD
  <2> QED BY <1>6, <2>1, <2>2 DEF CollectionOK, ToolsOK, Numbers
<1> QED BY <1>2, <1>4, <1>5, <1>7, <1>8 DEF IndInv

(* The ID a document is merged under is not in use: every copy there is has *)
(* another URL.                                                             *)
LEMMA MergedFresh ==
  ASSUME IndInv, pc = "mergeDocs", NEW url \in urls, other!Known(url)
  PROVE  /\ m_i_dbf[url] \in DocIDs /\ Merged(m_i_dbf[url]) \in DocIDs
         /\ ~Stored(Merged(m_i_dbf[url]))
         /\ other!Lookup(url) = m_dbf[m_i_dbf[url]] /\ other!Lookup(url) # NoRef
         /\ other!Lookup(url).url = url /\ other!Lookup(url) \in Refs
         /\ ~other!Lookup(url).accessed => other!Lookup(url).time = NoTime
<1> USE Constants
<1> DEFINE mi == m_i_dbf[url]
           id == Merged(mi)
<1>1. /\ docIDOffset \in Nat /\ docIDOffset >= FirstDocID /\ Copies /\ otherP!DBInv
      /\ docIDOffset + m_nextDocID < MaxDocID /\ m_isopen = TRUE /\ urls \subseteq URLs
      /\ \A i \in DocIDs : Stored(i) /\ i >= docIDOffset => dbf[i].url \notin urls
  BY DEF IndInv, MergeInv, Merging, OpenInv, CollectionOK, MergeOK
<1>2. /\ mi \in DocIDs /\ m_dbf[mi] # NoRef /\ m_dbf[mi].url = url /\ mi < m_nextDocID
      /\ ~m_dbf[mi].accessed => m_dbf[mi].time = NoTime
      /\ m_nextDocID \in Nat
  BY <1>1, OtherFacts DEF other!Counter
<1>3. id = mi + docIDOffset /\ id \in DocIDs /\ id >= docIDOffset /\ id - docIDOffset = mi
      /\ ~(id < docIDOffset)
  <2> HIDE DEF mi
  <2> QED BY <1>1, <1>2 DEF Merged, DocIDs
<1>4. ~Stored(id)
  <2> HIDE DEF id, mi
  <2> QED BY <1>1, <1>2, <1>3 DEF Copies
<1> QED BY <1>1, <1>2, <1>3, <1>4, OtherFacts DEF other!Lookup

(* One URL. *)
LEMMA MergeURLStep ==
  ASSUME IndInv, pc = "mergeDocs", pc' = pc, NEW url \in URLs, MergeURL(url),
         UNCHANGED <<purgeVars, digs, purges, merges, fetched>>
  PROVE  IndInv'
<1> USE Constants
<1>1. /\ otherP!DBInv /\ ToolsOK /\ OpenInv /\ TypeOK /\ IndexConsistent /\ ExcerptsOwned
      /\ WordsOK /\ PostingsTruthful /\ PostingIDsSpent /\ UnreadUndated
  BY TypesAre DEF IndInv, TablesTrue, WordsTrue
<1>2. /\ docIDOffset \in Nat /\ docIDOffset >= FirstDocID /\ Copies
      /\ \A p \in word_db : p[1] < docIDOffset
      /\ nextDocID = docIDOffset + 1 /\ docIDOffset + m_nextDocID < MaxDocID
      /\ \A id \in DocIDs : Stored(id) /\ id >= docIDOffset => dbf[id].url \notin urls
      /\ isopen = TRUE /\ m_isopen = TRUE
  BY <1>1 DEF IndInv, MergeInv, Merging, OpenInv, ToolsOK, MergeOK, TypeOK
<1>3. /\ url \in urls /\ urls' = urls \ {url} /\ urls \subseteq URLs
      /\ UNCHANGED <<docIDOffset, word_db, m_vars, m_word_db>>
  BY <1>1 DEF MergeURL, ToolsOK, MergeOK
<1>4. otherP!DBInv'
  BY <1>1, <1>3, OtherStutters
<1> DEFINE mi == m_i_dbf[url]
           id == Merged(mi)
           ref == m_dbf[mi]
<1> HIDE DEF mi, id, ref
<1>5. ASSUME other!Known(url)
      PROVE  /\ mi \in DocIDs /\ id \in DocIDs /\ id = mi + docIDOffset
             /\ ref \in Refs /\ ref # NoRef /\ ref.url = url /\ ref = m_dbf[mi]
             /\ ~ref.accessed => ref.time = NoTime
             /\ ~Stored(id)
  BY <1>3, <1>5, MergedFresh DEF mi, id, ref, Merged, other!Lookup
<1>6. ASSUME UNCHANGED vars
      PROVE  TablesTrue' /\ Copies' /\ UNCHANGED <<isopen, nextDocID>>
             /\ \A i \in DocIDs : Stored(i)' /\ i >= docIDOffset' => dbf'[i].url \notin urls'
  <2>1. UNCHANGED <<isopen, nextDocID, savedDocID, dbf, i_dbf, h_dbf, word_db, docIDOffset, m_dbf>>
    BY <1>3, <1>6 DEF vars, m_vars
  <2>2. TypeOK' /\ IndexConsistent' /\ ExcerptsOwned'
    BY <1>1, <2>1 DEF TypeOK, IndexConsistent, ExcerptsOwned, Stored
  <2>3. WordsOK' /\ PostingsTruthful' /\ PostingIDsSpent' /\ UnreadUndated'
    BY <1>1, <2>1 DEF WordsOK, PostingsTruthful, PostingIDsSpent, UnreadUndated, Stored, Counter
  <2>4. Copies'
    BY <1>2, <2>1 DEF Copies, Stored
  <2>5. \A i \in DocIDs : Stored(i)' /\ i >= docIDOffset' => dbf'[i].url \notin urls'
    BY <1>2, <1>3, <2>1 DEF Stored
  <2> QED BY <2>1, <2>2, <2>3, <2>4, <2>5 DEF TablesTrue, WordsTrue
<1>7. ASSUME other!Known(url), NEW old \in DocIDs \cup {NoDocID},
             old # NoDocID => Stored(old) /\ i_dbf[url] = old,
             old = NoDocID => i_dbf[url] = NoDocID,
             \A i \in DocIDs : dbf'[i] = IF i = id THEN ref ELSE IF i = old THEN NoRef ELSE dbf[i],
             dbf' \in [DocIDs -> Refs \cup {NoRef}],
             i_dbf' = [i_dbf EXCEPT ![url] = id],
             h_dbf' \subseteq (h_dbf \ {old}) \cup {id},
             UNCHANGED <<isopen, nextDocID, savedDocID>>
      PROVE  TablesTrue' /\ Copies'
             /\ \A i \in DocIDs : Stored(i)' /\ i >= docIDOffset' => dbf'[i].url \notin urls'
  <2>1. /\ UNCHANGED <<isopen, nextDocID, savedDocID, word_db, docIDOffset, m_dbf>>
        /\ old # id
    BY <1>3, <1>5, <1>7 DEF m_vars
  <2>2. TypeOK'
    BY <1>1, <1>5, <1>7 DEF TypeOK
  <2>3. IndexConsistent'
    <3> SUFFICES ASSUME NEW u \in URLs, i_dbf'[u] # NoDocID
                 PROVE  i_dbf'[u] \in DocIDs /\ dbf'[i_dbf'[u]] # NoRef /\ dbf'[i_dbf'[u]].url = u
      BY DEF IndexConsistent, Stored
    <3>1. CASE u = url
      BY <1>1, <1>5, <1>7, <3>1 DEF TypeOK
    <3>2. CASE u # url
      <4>1. i_dbf'[u] = i_dbf[u]
        BY <1>1, <1>7, <3>2 DEF TypeOK
      <4>2. i_dbf[u] \in DocIDs /\ dbf[i_dbf[u]] # NoRef /\ dbf[i_dbf[u]].url = u
        BY <1>1, <4>1 DEF IndexConsistent, Stored
      <4>3. i_dbf[u] # id
        BY <1>5, <1>7, <4>2 DEF Stored
      <4>4. i_dbf[u] # old
        BY <1>1, <1>7, <3>2, <4>2 DEF IndexConsistent
      <4> QED BY <1>7, <4>1, <4>2, <4>3, <4>4
    <3> QED BY <3>1, <3>2
  <2>4. ExcerptsOwned'
    BY <1>1, <1>5, <1>7 DEF ExcerptsOwned, Stored, TypeOK
  <2>5. WordsOK' /\ PostingIDsSpent'
    BY <1>1, <2>1 DEF WordsOK, PostingIDsSpent, Counter
  <2>6. PostingsTruthful'
    <3> SUFFICES ASSUME NEW p \in word_db, Stored(p[1])'
                 PROVE  p[2][1] = dbf'[p[1]].url /\ p[2][2] \in {LinkText, dbf'[p[1]].time}
      BY <2>1 DEF PostingsTruthful
    <3>1. p[1] \in DocIDs /\ p[1] # id
      BY <1>1, <1>2, <1>5, <1>7 DEF WordsOK, Postings
    <3>2. Stored(p[1]) /\ dbf'[p[1]] = dbf[p[1]]
      BY <1>7, <3>1 DEF Stored
    <3> QED BY <1>1, <3>2 DEF PostingsTruthful
  <2>7. UnreadUndated'
    BY <1>1, <1>5, <1>7 DEF UnreadUndated, Stored
  <2>8. Copies'
    BY <1>2, <1>5, <1>7, <2>1 DEF Copies, Stored
  <2>9. \A i \in DocIDs : Stored(i)' /\ i >= docIDOffset' => dbf'[i].url \notin urls'
    BY <1>2, <1>3, <1>5, <1>7, <2>1 DEF Stored
  <2> QED BY <2>2, <2>3, <2>4, <2>5, <2>6, <2>7, <2>8, <2>9 DEF TablesTrue, WordsTrue
<1>8. /\ TablesTrue' /\ Copies' /\ UNCHANGED <<isopen, nextDocID>>
      /\ \A i \in DocIDs : Stored(i)' /\ i >= docIDOffset' => dbf'[i].url \notin urls'
  <2>1. CASE UNCHANGED vars
    BY <1>6, <2>1
  <2>2. CASE other!Known(url) /\ ReplaceURL(url)
    <3>1. Known(url) /\ i_dbf[url] \in DocIDs /\ i_dbf[url] # NoDocID
      BY <2>2 DEF ReplaceURL, Known, Stored
    <3>2. /\ dbf' = [dbf EXCEPT ![i_dbf[url]] = NoRef, ![id] = ref]
          /\ i_dbf' = [i_dbf EXCEPT ![url] = id] /\ h_dbf' = h_dbf \ {i_dbf[url]}
          /\ UNCHANGED <<isopen, nextDocID, savedDocID>>
      BY <2>2 DEF ReplaceURL, id, ref, mi, other!Lookup
    <3>3. \A i \in DocIDs : dbf'[i] = IF i = id THEN ref ELSE IF i = i_dbf[url] THEN NoRef ELSE dbf[i]
      BY <1>1, <3>1, <3>2 DEF TypeOK
    <3>4. dbf' \in [DocIDs -> Refs \cup {NoRef}]
      BY <1>1, <1>5, <2>2, <3>1, <3>2 DEF TypeOK
    <3> QED BY <1>7, <2>2, <3>1, <3>2, <3>3, <3>4 DEF Known
  <2>3. CASE other!Known(url) /\ AddURL(url)
    <3>1. /\ dbf' = [dbf EXCEPT ![id] = ref] /\ h_dbf' \subseteq h_dbf \cup {id}
          /\ UNCHANGED <<isopen, nextDocID, savedDocID>> /\ i_dbf' = [i_dbf EXCEPT ![url] = id]
      BY <1>5, <2>3 DEF AddURL, Add, Put, id, ref, mi, other!Lookup
    <3>2. i_dbf[url] = NoDocID
      BY <1>1, <2>3 DEF AddURL, Known, IndexConsistent
    <3>3. \A i \in DocIDs : dbf'[i] = IF i = id THEN ref ELSE IF i = NoDocID THEN NoRef ELSE dbf[i]
      BY <1>1, <3>1 DEF TypeOK
    <3>4. dbf' \in [DocIDs -> Refs \cup {NoRef}]
      BY <1>1, <1>5, <2>3, <3>1 DEF TypeOK
    <3>5. h_dbf' \subseteq (h_dbf \ {NoDocID}) \cup {id}
      BY <1>1, <3>1 DEF TypeOK
    <3> QED BY <1>7, <2>3, <3>1, <3>2, <3>3, <3>4, <3>5
  <2> QED BY <2>1, <2>2, <2>3 DEF MergeURL, IgnoreURL
<1>9. MergeInv'
  BY <1>2, <1>3, <1>8 DEF MergeInv, Merging, m_vars
<1>10. ToolsOK'
  <2>1. merge_dup_ids' \subseteq DocIDs
    <3>1. merge_dup_ids' = merge_dup_ids \/ (other!Known(url) /\ merge_dup_ids' = merge_dup_ids \cup {mi})
      BY DEF MergeURL, IgnoreURL, ReplaceURL, AddURL, mi
    <3> QED BY <1>1, <1>5, <3>1 DEF ToolsOK, MergeOK
  <2>2. db_dup_ids' \subseteq DocIDs
    <3>1. db_dup_ids' = db_dup_ids \/ (Known(url) /\ db_dup_ids' = db_dup_ids \cup {i_dbf[url]})
      BY DEF MergeURL, IgnoreURL, ReplaceURL, AddURL
    <3> QED BY <1>1, <3>1 DEF ToolsOK, MergeOK, Known, Stored
  <2>3. MergeOK'
    BY <1>1, <1>3, <2>1, <2>2 DEF ToolsOK, MergeOK
  <2> QED BY <1>1, <2>3 DEF ToolsOK, Numbers, PurgeOK, purgeVars
<1>11. OpenInv' /\ IDsFresh'
  BY <1>1, <1>2, <1>3, <1>8 DEF OpenInv, IDsFresh, m_vars
<1>12. CollectionOK'
  BY <1>4, <1>8, <1>10, OtherTypes DEF CollectionOK, ToolsOK, Numbers, TablesTrue, WordsTrue
<1> QED BY <1>4, <1>8, <1>9, <1>11, <1>12 DEF IndInv

(* The counter moves past every copy. *)
LEMMA MergeCloseStep ==
  ASSUME IndInv, pc = "mergeDocs", pc' = "mergeWords", MergeClose,
         UNCHANGED <<purgeVars, digs, purges, merges, fetched>>
  PROVE  IndInv'
<1> USE Constants
<1>1. /\ otherP!DBInv /\ ToolsOK /\ OpenInv /\ TypeOK /\ IndexConsistent /\ ExcerptsOwned
      /\ WordsOK /\ PostingsTruthful /\ PostingIDsSpent /\ UnreadUndated
  BY TypesAre DEF IndInv, TablesTrue, WordsTrue
<1>2. /\ docIDOffset \in Nat /\ docIDOffset >= FirstDocID /\ Copies
      /\ \A p \in word_db : p[1] < docIDOffset
      /\ nextDocID = docIDOffset + 1 /\ docIDOffset + m_nextDocID < MaxDocID
      /\ isopen = TRUE /\ m_isopen = TRUE
  BY <1>1 DEF IndInv, MergeInv, Merging, OpenInv, ToolsOK, MergeOK, TypeOK
<1>3. m_nextDocID \in Nat /\ m_nextDocID >= FirstDocID /\ other!Counter = m_nextDocID
  BY <1>1, <1>2, OtherFacts DEF other!Counter
<1>4. /\ isopen' = FALSE /\ m_isopen' = FALSE
      /\ nextDocID' = docIDOffset + 1 + m_nextDocID /\ savedDocID' = nextDocID'
      /\ m_nextDocID' = m_nextDocID + 1 /\ m_savedDocID' = m_nextDocID'
      /\ UNCHANGED <<dbf, i_dbf, h_dbf, m_dbf, m_i_dbf, m_h_dbf, word_db, m_word_db>>
      /\ UNCHANGED <<urls, docIDOffset, merge_dup_ids, db_dup_ids>>
  BY <1>2 DEF MergeClose, tables, mergeVars
<1>5. Counter' = docIDOffset + 1 + m_nextDocID
  BY <1>2, <1>3, <1>4 DEF Counter, NoDocID
<1>6. TypeOK' /\ IndexConsistent' /\ ExcerptsOwned' /\ WordsOK' /\ PostingsTruthful' /\ UnreadUndated'
  <2>1. TypeOK'
    <3>1. nextDocID' \in FirstDocID .. MaxDocID + 1
      BY <1>2, <1>3, <1>4
    <3> QED BY <1>1, <1>4, <3>1 DEF TypeOK
  <2>2. IndexConsistent' /\ ExcerptsOwned'
    BY <1>1, <1>4 DEF IndexConsistent, ExcerptsOwned, Stored
  <2>3. WordsOK' /\ PostingsTruthful' /\ UnreadUndated'
    BY <1>1, <1>4 DEF WordsOK, PostingsTruthful, UnreadUndated, Stored
  <2> QED BY <2>1, <2>2, <2>3
<1>7. PostingIDsSpent'
  <2> SUFFICES ASSUME NEW p \in word_db PROVE p[1] < Counter'
    BY <1>4 DEF PostingIDsSpent
  <2>1. p[1] < docIDOffset /\ p[1] \in DocIDs
    BY <1>1, <1>2 DEF WordsOK, Postings
  <2> QED BY <1>2, <1>3, <1>5, <2>1
<1>8. NextIDFresh'
  <2> SUFFICES ASSUME NEW id \in DocIDs, dbf[id] # NoRef PROVE id < Counter'
    BY <1>4 DEF NextIDFresh
  <2>1. CASE id < docIDOffset
    BY <1>2, <1>3, <1>5, <2>1
  <2>2. CASE ~(id < docIDOffset)
    <3>1. id - docIDOffset \in DocIDs /\ m_dbf[id - docIDOffset] # NoRef
      BY <1>2, <2>2 DEF Copies, Stored
    <3>2. id - docIDOffset < m_nextDocID
      BY <1>1, <1>3, <3>1, OtherFacts
    <3> QED BY <1>2, <1>3, <1>5, <2>2, <3>1, <3>2
  <2> QED BY <2>1, <2>2
<1>9. otherP!DBInv'
  <2>1. otherP!FirstDocID = FirstDocID /\ otherP!NoDocID = NoDocID /\ otherP!DocIDs = DocIDs
    BY DEF otherP!FirstDocID, FirstDocID, otherP!NoDocID, NoDocID, otherP!DocIDs, DocIDs,
           otherP!NEXT_DOC_ID_RECORD, NEXT_DOC_ID_RECORD
  <2>2. /\ otherP!TypeOK /\ otherP!NextIDFresh /\ otherP!IndexConsistent /\ otherP!ExcerptsOwned
        /\ otherP!WordsOK /\ otherP!PostingsTruthful /\ otherP!PostingIDsSpent /\ otherP!UnreadUndated
    BY <1>1 DEF otherP!DBInv, otherP!IInv, otherP!Consistent, otherP!WordsTrue
  <2>3. otherP!Counter = m_nextDocID /\ otherP!Counter' = m_nextDocID + 1
    BY <1>2, <1>3, <1>4, <2>1 DEF otherP!Counter, NoDocID
  <2>4. otherP!TypeOK'
    <3>1. m_nextDocID' \in otherP!FirstDocID .. MaxDocID + 1
      BY <1>2, <1>3, <1>4, <2>1
    <3> QED BY <1>4, <2>2, <3>1 DEF otherP!TypeOK
  <2>5. otherP!IndexConsistent' /\ otherP!ExcerptsOwned'
    BY <1>4, <2>2 DEF otherP!IndexConsistent, otherP!ExcerptsOwned, otherP!Stored
  <2>6. otherP!NextIDFresh'
    BY <1>3, <1>4, <2>1, <2>2, <2>3 DEF otherP!NextIDFresh
  <2>7. otherP!WordsOK' /\ otherP!PostingsTruthful' /\ otherP!UnreadUndated'
    BY <1>4, <2>2 DEF otherP!WordsOK, otherP!PostingsTruthful, otherP!UnreadUndated, otherP!Stored
  <2>8. otherP!PostingIDsSpent'
    <3> SUFFICES ASSUME NEW p \in m_word_db PROVE p[1] < otherP!Counter'
      BY <1>4 DEF otherP!PostingIDsSpent
    <3>1. p[1] < m_nextDocID /\ p[1] \in DocIDs
      BY <2>1, <2>2, <2>3 DEF otherP!PostingIDsSpent, otherP!WordsOK, otherP!Postings
    <3> QED BY <1>3, <2>3, <3>1
  <2> QED BY <2>4, <2>5, <2>6, <2>7, <2>8 DEF otherP!DBInv, otherP!IInv, otherP!Consistent, otherP!WordsTrue
<1>10. DBInv'
  BY <1>6, <1>7, <1>8 DEF DBInv, IInv, Consistent, WordsTrue
<1>11. ToolsOK'
  BY <1>1, <1>4 DEF ToolsOK, Numbers, PurgeOK, MergeOK, Places, purgeVars
<1>12. MergeInv'
  <2>1. Copies'
    BY <1>2, <1>4 DEF Copies, Stored
  <2> QED BY <1>2, <1>3, <1>4, <2>1 DEF MergeInv, Merging
<1>13. OpenInv'
  BY <1>4 DEF OpenInv
<1> QED BY <1>9, <1>10, <1>11, <1>12, <1>13, KeepsTypes DEF IndInv

(* The postings that are copied lead to copies or to nothing. *)
LEMMA MergeWordsStep ==
  ASSUME IndInv, pc = "mergeWords", pc' = "idle", MergeWords,
         UNCHANGED <<purgeVars, digs, purges, merges, fetched>>
  PROVE  IndInv'
<1> USE Constants
<1>1. DBInv /\ otherP!DBInv /\ ToolsOK /\ OpenInv /\ TypeOK /\ IInv
      /\ WordsOK /\ PostingsTruthful /\ PostingIDsSpent /\ UnreadUndated
  BY Outside DEF DBInv, IInv, WordsTrue
<1>2. /\ docIDOffset \in Nat /\ docIDOffset >= FirstDocID /\ Copies
      /\ savedDocID = docIDOffset + m_savedDocID /\ m_savedDocID >= FirstDocID
      /\ ~isopen /\ ~m_isopen
  BY <1>1 DEF IndInv, MergeInv, Merging, OpenInv, ToolsOK, MergeOK
<1>3. /\ m_savedDocID \in Nat /\ other!Counter = m_savedDocID
      /\ Counter = savedDocID /\ Counter \in Nat /\ Counter <= MaxDocID + 1
  BY <1>1, <1>2, OtherFacts DEF other!Counter, other!NoDocID, Counter, NoDocID, TypeOK
<1>4. UNCHANGED <<isopen, nextDocID, savedDocID, dbf, i_dbf, h_dbf, m_vars, m_word_db>>
      /\ UNCHANGED <<urls, docIDOffset>> /\ merge_dup_ids' = {} /\ db_dup_ids' = {}
  BY DEF MergeWords, vars
<1>5. word_db' \subseteq word_db \cup {<<Merged(p[1]), p[2]>> : p \in m_word_db}
  BY DEF MergeWords
<1>6. ASSUME NEW p \in word_db'
      PROVE  p \in Postings /\ p[1] < Counter /\ (Stored(p[1]) =>
               p[2][1] = dbf[p[1]].url /\ p[2][2] \in {LinkText, dbf[p[1]].time})
  <2>1. CASE p \in word_db
    BY <1>1, <2>1 DEF WordsOK, PostingsTruthful, PostingIDsSpent
  <2>2. ASSUME NEW q \in m_word_db, p = <<Merged(q[1]), q[2]>>
        PROVE  p \in Postings /\ p[1] < Counter /\ (Stored(p[1]) =>
                 p[2][1] = dbf[p[1]].url /\ p[2][2] \in {LinkText, dbf[p[1]].time})
    <3>1. /\ q \in Postings /\ q[1] < m_savedDocID
          /\ m_dbf[q[1]] # NoRef => q[2][1] = m_dbf[q[1]].url /\ q[2][2] \in {LinkText, m_dbf[q[1]].time}
      BY <1>1, <1>3, OtherFacts
    <3>2. q[1] \in DocIDs /\ q[2] \in URLs \X (0 .. MaxEdition)
      BY <3>1 DEF Postings
    <3>3. p[1] = q[1] + docIDOffset /\ p[2] = q[2]
      BY <2>2 DEF Merged
    <3>4. p[1] < Counter /\ p[1] \in DocIDs /\ ~(p[1] < docIDOffset) /\ p[1] - docIDOffset = q[1]
      BY <1>2, <1>3, <3>1, <3>2, <3>3 DEF DocIDs
    <3>5. p \in Postings
      BY <2>2, <3>2, <3>3, <3>4 DEF Postings
    <3>6. Stored(p[1]) => dbf[p[1]] = m_dbf[q[1]] /\ m_dbf[q[1]] # NoRef
      BY <1>2, <3>4 DEF Copies, Stored
    <3> QED BY <3>1, <3>3, <3>4, <3>5, <3>6
  <2> QED BY <1>5, <1>6, <2>1, <2>2
<1>7. DBInv'
  <2>1. IInv'
    BY <1>1, <1>4 DEF IInv, Consistent, TypeOK, NextIDFresh, IndexConsistent, ExcerptsOwned, Stored, Counter
  <2>2. Counter' = Counter
    BY <1>4 DEF Counter
  <2>3. WordsOK' /\ PostingIDsSpent' /\ PostingsTruthful'
    BY <1>4, <1>6, <2>2 DEF WordsOK, PostingIDsSpent, PostingsTruthful, Stored, Postings
  <2>4. UnreadUndated'
    BY <1>1, <1>4 DEF UnreadUndated, Stored
  <2> QED BY <2>1, <2>3, <2>4 DEF DBInv, WordsTrue
<1>8. otherP!DBInv'
  BY <1>1, <1>4, OtherStutters
<1>9. ToolsOK'
  BY <1>1, <1>4 DEF ToolsOK, Numbers, PurgeOK, MergeOK, Places, purgeVars
<1>10. OpenInv'
  BY <1>2, <1>4 DEF OpenInv, m_vars
<1> QED BY <1>7, <1>8, <1>9, <1>10, Unmerging

LEMMA KilledStep ==
  ASSUME IndInv, Killed
  PROVE  IndInv'
<1>1. DBInv /\ otherP!DBInv /\ ToolsOK /\ OpenInv
  BY Outside DEF Killed
<1>2. DBInv' /\ otherP!DBInv' /\ isopen' = isopen /\ m_isopen' = m_isopen
  BY <1>1, FewerWords, OtherStutters DEF Killed, vars, m_vars
<1>3. ToolsOK' /\ pc' = "idle" /\ OpenInv'
  BY <1>1, <1>2 DEF Killed, ToolsOK, Numbers, PurgeOK, MergeOK, Places, OpenInv
<1> QED BY <1>2, <1>3, Unmerging

LEMMA Stutter ==
  ASSUME IndInv, UNCHANGED allVars
  PROVE  IndInv'
<1>1. CASE pc # "mergeDocs" /\ pc # "mergeWords"
  <2>1. DBInv /\ otherP!DBInv /\ ToolsOK /\ OpenInv
    BY <1>1, Outside
  <2>2. DBInv' /\ otherP!DBInv'
    BY <2>1, FewerWords, OtherStutters DEF allVars, vars, m_vars
  <2>3. ToolsOK' /\ OpenInv' /\ pc' = pc
    BY <2>1 DEF allVars, vars, m_vars, toolVars, purgeVars, mergeVars, ToolsOK, Numbers, PurgeOK, MergeOK, OpenInv
  <2> QED BY <1>1, <2>2, <2>3, Unmerging
<1>2. CASE pc = "mergeDocs" \/ pc = "mergeWords"
  <2>1. otherP!DBInv' /\ ToolsOK' /\ OpenInv' /\ pc' = pc
    BY OtherStutters, TypesAre DEF IndInv, allVars, vars, m_vars, toolVars, purgeVars, mergeVars,
       ToolsOK, Numbers, PurgeOK, MergeOK, OpenInv
  <2>2. UNCHANGED <<isopen, nextDocID, savedDocID, dbf, i_dbf, h_dbf, word_db, docIDOffset, urls, m_dbf,
                    m_nextDocID, m_savedDocID>>
    BY DEF allVars, vars, m_vars, toolVars, mergeVars
  <2>3. TablesTrue' /\ IDsFresh'
    BY <2>1, <2>2 DEF IndInv, TablesTrue, IDsFresh, TypeOK, NextIDFresh, IndexConsistent, ExcerptsOwned, Stored,
       Counter, WordsTrue, WordsOK, PostingsTruthful, PostingIDsSpent, UnreadUndated
  <2>4. MergeInv'
    BY <2>1, <2>2 DEF IndInv, MergeInv, Merging, Copies, Stored
  <2>5. CollectionOK'
    BY <2>1, <2>3, OtherTypes DEF CollectionOK, ToolsOK, Numbers, TablesTrue, WordsTrue
  <2> QED BY <2>1, <2>3, <2>4, <2>5 DEF IndInv
<1> QED BY <1>1, <1>2

LEMMA Step == IndInv /\ [CollectionNext]_allVars => IndInv'
<1> SUFFICES ASSUME IndInv, [CollectionNext]_allVars PROVE IndInv'
  OBVIOUS
<1>1. ASSUME Merge PROVE IndInv'
  <2>1. UNCHANGED <<purgeVars, digs, purges, merges, fetched>>
    BY <1>1 DEF Merge
  <2>2. ASSUME pc = "mergeDocs", pc' = pc, NEW u \in URLs, MergeURL(u) PROVE IndInv'
    BY <2>1, <2>2, MergeURLStep
  <2>3. CASE pc = "mergeDocs" /\ pc' = "mergeWords" /\ MergeClose
    BY <2>1, <2>3, MergeCloseStep
  <2>4. CASE pc = "mergeWords" /\ pc' = "idle" /\ MergeWords
    BY <2>1, <2>4, MergeWordsStep
  <2> QED BY <1>1, <2>2, <2>3, <2>4 DEF Merge
<1> QED BY <1>1, DigStep, DigOtherStep, PurgeStep, MergeStartStep, KilledStep, Stutter DEF CollectionNext

LEMMA Always == CollectionSpec => []IndInv
<1>1. CollectionInit => IndInv
  BY InitHolds
<1>2. IndInv /\ [CollectionNext]_allVars => IndInv'
  BY Step
<1> QED BY <1>1, <1>2, PTL DEF CollectionSpec
-----------------------------------------------------------------------------
(* The databases of both collections and the state of the tools keep their  *)
(* types.                                                                   *)
THEOREM CollectionTypes == CollectionSpec => []CollectionOK
<1>1. IndInv => CollectionOK
  BY DEF IndInv
<1> QED BY <1>1, Always, PTL

(* Whatever digs, purges and merges have run, the counter hlmerge or hldig  *)
(* left is above every ID in use.                                           *)
THEOREM CollectionIDsFresh == CollectionSpec => []IDsFresh
<1>1. IndInv => IDsFresh
  BY DEF IndInv
<1> QED BY <1>1, Always, PTL

(* The URL index never dangles, in the middle of a merge neither.           *)
THEOREM CollectionIndexed == CollectionSpec => []IndexConsistent
<1>1. IndInv => IndexConsistent
  BY DEF IndInv, TablesTrue
<1> QED BY <1>1, Always, PTL

(* No document inherits the words of another, although hlmerge leaves       *)
(* postings whose documents are gone.                                       *)
THEOREM PostingsTellTheTruth == CollectionSpec => []PostingsTruthful
<1>1. IndInv => PostingsTruthful
  BY DEF IndInv, TablesTrue, WordsTrue
<1> QED BY <1>1, Always, PTL

(* Every ID a posting has ever been given under is below the counter.       *)
THEOREM SpentIDsStaySpent == CollectionSpec => []PostingIDsSpent
<1>1. IndInv => PostingIDsSpent
  BY DEF IndInv, TablesTrue, WordsTrue
<1> QED BY <1>1, Always, PTL

-----------------------------------------------------------------------------
(* hlpurge leaves no words of what it discards: a stored record that a test *)
(* of the first pass takes is still to be looked at or on the list.         *)
PurgeInv ==
  /\ pc \in {"purgeDocs", "purgeWords"} =>
       \A id \in DocIDs : Stored(id) /\ Discard(id) => id \in IDs \cup discard_list
  /\ pc = "purgeWords" => IDs = {}

LEMMA DiscardSame ==
  ASSUME NEW id, dbf'[id] = dbf[id], id \in h_dbf' <=> id \in h_dbf
  PROVE  Discard(id)' <=> Discard(id)
BY DEF Discard

LEMMA NotPurging ==
  ASSUME DigStart \/ DigPage \/ DigEnd \/ DigOther \/ MergeStart \/ Merge \/ Killed
  PROVE  pc' \notin {"purgeDocs", "purgeWords"}
<1>1. CASE DigOther
  BY <1>1 DEF DigOther
<1>2. CASE Merge
  BY <1>2 DEF Merge
<1> QED BY <1>1, <1>2 DEF DigStart, DigPage, DigEnd, MergeStart, Killed

(* One record of the first pass. *)
LEMMA PurgeDocFacts ==
  ASSUME IndInv, NEW id \in IDs, PurgeDoc(id)
  PROVE  /\ id \in DocIDs /\ IDs' = IDs \ {id}
         /\ discard_list' = IF Discard(id) THEN discard_list \cup {id} ELSE discard_list
         /\ UNCHANGED word_db
         /\ (Stored(id)' => UNCHANGED vars)
         /\ \A i \in DocIDs \ {id} : dbf'[i] = dbf[i] /\ (i \in h_dbf' <=> i \in h_dbf)
         /\ \A u \in URLs : i_dbf'[u] = i_dbf[u] \/ (i_dbf[u] = id /\ Discard(id))
<1>1. id \in DocIDs /\ TypeOK
  BY DEF IndInv, CollectionOK, PurgeOK
<1>2. CASE Discard(id) /\ Deletable(id) /\ Delete(id)
  <2>1. dbf[id] \in Refs /\ dbf[id].url \in URLs
    BY <1>1, <1>2, RefsAssumption DEF Deletable, Stored, TypeOK
  <2> QED BY <1>1, <1>2, <2>1, Constants DEF PurgeDoc, Delete, Stored, TypeOK
<1>3. CASE UNCHANGED vars
  BY <1>1, <1>3 DEF PurgeDoc, vars
<1> QED BY <1>2, <1>3 DEF PurgeDoc

LEMMA PurgeInvStep ==
  ASSUME IndInv, PurgeInv, [CollectionNext]_allVars
  PROVE  PurgeInv'
<1>1. CASE DigStart \/ DigPage \/ DigEnd \/ DigOther \/ MergeStart \/ Merge \/ Killed
  BY <1>1, NotPurging DEF PurgeInv
<1>2. CASE PurgeStart
  BY <1>2 DEF PurgeInv, PurgeStart, PurgeOpen, Open, tables, Stored, Discard
<1>3. ASSUME pc = "purgeDocs", pc' = pc, NEW id \in IDs, PurgeDoc(id)
      PROVE  PurgeInv'
  <2> SUFFICES ASSUME NEW i \in DocIDs, Stored(i)', Discard(i)' PROVE i \in IDs' \cup discard_list'
    BY <1>3 DEF PurgeInv
  <2>1. CASE i = id
    <3>1. Discard(id)
      BY <1>3, <2>1, PurgeDocFacts, DiscardSame DEF vars
    <3> QED BY <1>3, <2>1, <3>1, PurgeDocFacts
  <2>2. CASE i # id
    <3>1. Stored(i) /\ Discard(i)
      BY <1>3, <2>2, PurgeDocFacts, DiscardSame DEF Stored
    <3> QED BY <1>3, <2>2, <3>1, PurgeDocFacts DEF PurgeInv
  <2> QED BY <2>1, <2>2
<1>4. CASE pc = "purgeDocs" /\ pc' = "purgeWords" /\ PurgeClose
  BY <1>4 DEF PurgeInv, PurgeClose, Close, tables, purgeVars, Stored, Discard
<1>5. CASE pc' = "idle"
  BY <1>5 DEF PurgeInv
<1>6. CASE UNCHANGED allVars
  BY <1>6 DEF PurgeInv, allVars, vars, toolVars, purgeVars, Stored, Discard
<1> QED BY <1>1, <1>2, <1>3, <1>4, <1>5, <1>6 DEF CollectionNext, Purge

(* hlpurge leaves no posting of a document it was to discard, although      *)
(* Delete refuses records whose URL has lost its index entry.               *)
THEOREM PurgeTakesTheWords == CollectionSpec => PurgedWordsGone
<1>1. CollectionInit => PurgeInv
  BY DEF CollectionInit, PurgeInv
<1>2. IndInv /\ PurgeInv /\ [CollectionNext]_allVars => PurgeInv'
  BY PurgeInvStep
<1>3. IndInv /\ PurgeInv =>
        (pc = "purgeWords" /\ PurgeWords => \A p \in word_db' : Stored(p[1]) => ~Discard(p[1]))
  <2> SUFFICES ASSUME PurgeInv, pc = "purgeWords", PurgeWords, NEW p \in word_db', Stored(p[1]), Discard(p[1])
               PROVE  FALSE
    OBVIOUS
  <2>1. p[1] \notin discard_list
    BY DEF PurgeWords
  <2>2. p[1] \in IDs \cup discard_list /\ IDs = {}
    BY DEF PurgeInv, Stored
  <2> QED BY <2>1, <2>2
<1> QED BY <1>1, <1>2, <1>3, Always, PTL DEF CollectionSpec, PurgedWordsGone

-----------------------------------------------------------------------------
(* What a search finds.  While hlpurge runs, what was found is still there  *)
(* and no test of the first pass takes it.  While hlmerge runs, a document  *)
(* waits for its URL to be merged; then the newer of the two is there, and  *)
(* its words in one of the word databases.                                  *)
Latest(d) == <<d[1], Lookup(d[1]).time>>

OtherLatest(d) == <<d[1], other!Lookup(d[1]).time>>

Spared(d) ==
  /\ d \in Finds
  /\ ~Discard(i_dbf[d[1]]) /\ i_dbf[d[1]] \notin discard_list

Waits(d) ==
  /\ d \in Finds \cup OtherFinds
  /\ Retrieved(d[1]) => Latest(d) \in Finds
  /\ OtherRetrieved(d[1]) => OtherLatest(d) \in OtherFinds

Survives(d) ==
  /\ Known(d[1]) /\ Lookup(d[1]).state = "normal" /\ Lookup(d[1]).time >= d[2]
  /\ \/ <<i_dbf[d[1]], Latest(d)>> \in word_db
     \/ \E id \in DocIDs : i_dbf[d[1]] = Merged(id) /\ <<id, Latest(d)>> \in m_word_db

StillFound(d) == \E f \in Finds : f[1] = d[1] /\ f[2] >= d[2]

FoundInv ==
  /\ found \subseteq URLs \X Editions
  /\ pc \in {"idle", "digOther"} => \A d \in found : StillFound(d)
  /\ pc = "dig" => found = {}
  /\ pc \in {"purgeDocs", "purgeWords"} => \A d \in found : Spared(d)
  /\ pc = "mergeDocs" => \A d \in found : IF d[1] \in urls THEN Waits(d) ELSE Survives(d)
  /\ pc = "mergeWords" => \A d \in found : Survives(d)

(* A document that is found has the date of the words it is found by.       *)
LEMMA FindsTrue ==
  ASSUME TablesTrue, NEW d \in URLs \X Editions, d \in Finds
  PROVE  /\ Known(d[1]) /\ i_dbf[d[1]] \in DocIDs /\ i_dbf[d[1]] # NoDocID
         /\ Lookup(d[1]).url = d[1] /\ Lookup(d[1]).state = "normal"
         /\ Lookup(d[1]).time = d[2] /\ Lookup(d[1]).accessed /\ Latest(d) = d
         /\ <<i_dbf[d[1]], d>> \in word_db
<1>1. /\ Known(d[1]) /\ Lookup(d[1]).state = "normal" /\ <<i_dbf[d[1]], d>> \in word_db
  BY DEF Finds
<1>2. i_dbf[d[1]] \in DocIDs /\ i_dbf[d[1]] # NoDocID /\ Stored(i_dbf[d[1]])
  BY <1>1, Constants DEF Known, Stored
<1>3. Lookup(d[1]).url = d[1]
  BY <1>2 DEF TablesTrue, IndexConsistent, Lookup
<1>4. d[2] \in Editions /\ d[2] # LinkText /\ d[2] # NoTime
  BY IndexingAssumption DEF Editions, LinkText, NoTime
<1>5. Lookup(d[1]).time = d[2]
  BY <1>1, <1>2, <1>4 DEF TablesTrue, WordsTrue, PostingsTruthful, Lookup
<1>6. Lookup(d[1]).accessed
  BY <1>2, <1>4, <1>5 DEF TablesTrue, WordsTrue, UnreadUndated, Lookup
<1>7. Latest(d) = d
  BY <1>5 DEF Latest
<1> QED BY <1>1, <1>2, <1>3, <1>5, <1>6, <1>7

LEMMA OtherFindsTrue ==
  ASSUME otherP!DBInv, NEW d \in URLs \X Editions, d \in OtherFinds
  PROVE  /\ other!Known(d[1]) /\ m_i_dbf[d[1]] \in DocIDs /\ m_i_dbf[d[1]] # NoDocID
         /\ other!Lookup(d[1]).state = "normal" /\ other!Lookup(d[1]).time = d[2]
         /\ <<m_i_dbf[d[1]], d>> \in m_word_db
<1>1. /\ other!Known(d[1]) /\ other!Lookup(d[1]).state = "normal" /\ <<m_i_dbf[d[1]], d>> \in m_word_db
  BY DEF OtherFinds
<1>2. m_i_dbf[d[1]] \in DocIDs /\ m_i_dbf[d[1]] # NoDocID /\ m_dbf[m_i_dbf[d[1]]] # NoRef
  BY <1>1, OtherFacts, Constants
<1>3. d[2] \in Editions /\ d[2] # LinkText
  BY IndexingAssumption DEF Editions, LinkText
<1>4. other!Lookup(d[1]).time = d[2]
  BY <1>1, <1>2, <1>3, OtherFacts DEF other!Lookup
<1> QED BY <1>1, <1>2, <1>4

(* What is asked of a URL depends on the tables alone. *)
LEMMA SameFinds ==
  ASSUME UNCHANGED <<dbf, i_dbf, word_db>>
  PROVE  /\ Finds' = Finds
         /\ \A d : StillFound(d)' <=> StillFound(d)
         /\ \A d : Latest(d)' = Latest(d) /\ (Known(d[1])' <=> Known(d[1]))
                   /\ Lookup(d[1])' = Lookup(d[1]) /\ (Retrieved(d[1])' <=> Retrieved(d[1]))
<1>1. Finds' = Finds
  BY DEF Finds, Known, Lookup, Stored
<1> QED BY <1>1 DEF StillFound, Latest, Known, Lookup, Stored, Retrieved

LEMMA SameOtherFinds ==
  ASSUME UNCHANGED <<m_dbf, m_i_dbf, m_word_db>>
  PROVE  /\ OtherFinds' = OtherFinds
         /\ \A d : OtherLatest(d)' = OtherLatest(d) /\ (OtherRetrieved(d[1])' <=> OtherRetrieved(d[1]))
BY DEF OtherFinds, OtherLatest, OtherRetrieved, other!Known, other!Lookup, other!Stored, other!DocIDs,
       other!FirstDocID, other!NEXT_DOC_ID_RECORD

LEMMA FoundInit == CollectionInit => FoundInv
BY DEF CollectionInit, FoundInv

LEMMA FoundDig ==
  ASSUME IndInv, FoundInv, DigStart \/ DigPage \/ DigEnd \/ DigOther \/ Killed
  PROVE  FoundInv'
<1>1. CASE DigStart \/ Killed
  BY <1>1 DEF DigStart, Killed, FoundInv
<1>2. CASE DigPage
  BY <1>2 DEF DigPage, FoundInv
<1>3. CASE DigEnd
  BY <1>3 DEF DigEnd, FoundInv
<1>4. CASE DigOther
  <2>1. pc \in {"idle", "digOther"} /\ pc' \in {"idle", "digOther"}
    BY <1>4 DEF DigOther
  <2>2. UNCHANGED <<dbf, i_dbf, word_db, found>>
    BY <1>4 DEF DigOther, vars
  <2> QED BY <2>1, <2>2, SameFinds DEF FoundInv
<1> QED BY <1>1, <1>2, <1>3, <1>4

(* hlpurge. *)
LEMMA SparedStays ==
  ASSUME IndInv, NEW d \in URLs \X Editions, Spared(d), NEW id \in IDs, PurgeDoc(id)
  PROVE  Spared(d)'
<1> DEFINE i == i_dbf[d[1]]
<1>1. i \in DocIDs /\ d \in Finds /\ ~Discard(i) /\ i \notin discard_list
  BY FindsTrue DEF IndInv, Spared
<1>2. i_dbf'[d[1]] = i /\ (dbf'[i] = dbf[i] /\ (i \in h_dbf' <=> i \in h_dbf)) /\ i \notin discard_list'
  <2>1. i_dbf'[d[1]] = i
    BY <1>1, PurgeDocFacts
  <2>2. CASE i = id
    <3>1. UNCHANGED vars
      BY <1>1, <2>2 DEF PurgeDoc
    <3> QED BY <1>1, <2>1, <2>2, <3>1, PurgeDocFacts DEF vars
  <2>3. CASE i # id
    BY <1>1, <2>1, <2>3, PurgeDocFacts
  <2> QED BY <2>2, <2>3, <2>1
<1>3. ~Discard(i_dbf[d[1]])'
  BY <1>1, <1>2 DEF Discard
<1>4. (d \in Finds)'
  BY <1>1, <1>2, PurgeDocFacts DEF Finds, Known, Stored, Lookup
<1> QED BY <1>2, <1>3, <1>4 DEF Spared

LEMMA FoundPurge ==
  ASSUME IndInv, FoundInv, PurgeStart \/ Purge
  PROVE  FoundInv'
<1>1. CASE PurgeStart
  <2>1. /\ pc' = "purgeDocs" /\ discard_list' = {} /\ UNCHANGED <<dbf, i_dbf, h_dbf, word_db>>
        /\ found' = {d \in Finds : i_dbf[d[1]] \in h_dbf /\ d[1] \notin PurgeURLs}
    BY <1>1 DEF PurgeStart, PurgeOpen, Open, tables
  <2>2. found' \subseteq URLs \X Editions
    BY <2>1 DEF Finds
  <2>3. ASSUME NEW d \in found' PROVE Spared(d)'
    <3>1. d \in URLs \X Editions /\ d \in Finds /\ i_dbf[d[1]] \in h_dbf /\ d[1] \notin PurgeURLs
      BY <2>1, <2>2, <2>3
    <3>2. ~Discard(i_dbf[d[1]])
      BY <3>1, FindsTrue DEF IndInv, Discard, Lookup
    <3> QED BY <2>1, <3>1, <3>2, SameFinds DEF Spared, Discard
  <2> QED BY <2>1, <2>2, <2>3 DEF FoundInv
<1>2. ASSUME pc = "purgeDocs", pc' = pc, NEW id \in IDs, PurgeDoc(id), UNCHANGED found
      PROVE  FoundInv'
  BY <1>2, SparedStays DEF FoundInv
<1>3. CASE pc = "purgeDocs" /\ pc' = "purgeWords" /\ PurgeClose /\ UNCHANGED found
  <2>1. UNCHANGED <<dbf, i_dbf, h_dbf, word_db, discard_list>>
    BY <1>3 DEF PurgeClose, Close, tables, purgeVars
  <2> QED BY <1>3, <2>1, SameFinds DEF FoundInv, Spared, Discard
<1>4. CASE pc = "purgeWords" /\ pc' = "idle" /\ PurgeWords /\ UNCHANGED found
  <2>1. ASSUME NEW d \in found PROVE StillFound(d)'
    <3>1. d \in URLs \X Editions /\ d \in Finds /\ i_dbf[d[1]] \notin discard_list
      BY <1>4 DEF FoundInv, Spared
    <3>2. (d \in Finds)'
      BY <1>4, <3>1 DEF PurgeWords, vars, Finds, Known, Stored, Lookup
    <3>3. d[2] >= d[2]
      BY <3>1 DEF Editions
    <3> QED BY <3>2, <3>3 DEF StillFound
  <2> QED BY <1>4, <2>1 DEF FoundInv
<1> QED BY <1>1, <1>2, <1>3, <1>4 DEF Purge

(* hlmerge. *)
LEMMA FoundMergeStart ==
  ASSUME IndInv, FoundInv, MergeStart
  PROVE  FoundInv'
<1>1. /\ pc' = "mergeDocs" /\ urls' = other!IndexedURLs
      /\ UNCHANGED <<dbf, i_dbf, word_db, m_dbf, m_i_dbf, m_word_db>>
      /\ found' \subseteq Finds \cup OtherFinds
      /\ \A d \in found' : Waits(d)
  BY DEF MergeStart, MergeOpen, other!Open, other!tables, tables, Waits, Latest, OtherLatest
<1>2. found' \subseteq URLs \X Editions
  BY <1>1 DEF Finds, OtherFinds, Editions, other!Editions
<1>3. ASSUME NEW d \in found', d[1] \in urls' PROVE Waits(d)'
  BY <1>1, <1>3, SameFinds, SameOtherFinds DEF Waits
<1>4. ASSUME NEW d \in found', d[1] \notin urls' PROVE Survives(d)'
  <2>1. d \notin OtherFinds
    <3> SUFFICES ASSUME d \in OtherFinds PROVE FALSE
      OBVIOUS
    <3>1. m_i_dbf[d[1]] # NoDocID
      BY <1>2, OtherFindsTrue DEF IndInv
    <3> QED BY <1>1, <1>2, <1>4, <3>1 DEF other!IndexedURLs, other!NoDocID, NoDocID
  <2>2. d \in Finds /\ d[2] \in Nat
    BY <1>1, <1>2, <2>1 DEF Editions
  <2>3. /\ Known(d[1]) /\ Lookup(d[1]).state = "normal" /\ Lookup(d[1]).time = d[2]
        /\ Latest(d) = d /\ <<i_dbf[d[1]], d>> \in word_db
    BY <1>2, <2>2, FindsTrue DEF IndInv
  <2>4. /\ Known(d[1])' /\ Lookup(d[1])' = Lookup(d[1]) /\ Latest(d)' = d
        /\ i_dbf'[d[1]] = i_dbf[d[1]] /\ word_db' = word_db
    BY <1>1, <2>3, SameFinds
  <2>5. d[2] >= d[2]
    BY <2>2
  <2> QED BY <2>3, <2>4, <2>5 DEF Survives
<1> QED BY <1>1, <1>2, <1>3, <1>4 DEF FoundInv

(* Merging a URL leaves every other one alone, and the newer document of    *)
(* its own, the one of db when they are of one date.                        *)
LEMMA MergeURLOthers ==
  ASSUME IndInv, pc = "mergeDocs", NEW url \in urls, MergeURL(url),
         NEW u \in URLs, u # url
  PROVE  /\ i_dbf'[u] = i_dbf[u] /\ (Known(u)' <=> Known(u))
         /\ Known(u) => dbf'[i_dbf[u]] = dbf[i_dbf[u]]
<1> USE Constants
<1> DEFINE id == Merged(m_i_dbf[url])
<1>1. TypeOK /\ IndexConsistent /\ url \in URLs
  BY DEF IndInv, TablesTrue, CollectionOK, MergeOK
<1>2. CASE UNCHANGED vars
  BY <1>2 DEF vars, Known, Stored
<1>3. CASE other!Known(url) /\ (ReplaceURL(url) \/ AddURL(url))
  <2>1. /\ id \in DocIDs /\ ~Stored(id) /\ other!Lookup(url).url = url
    BY <1>3, MergedFresh
  <2>2. /\ \A i \in DocIDs : i # id /\ i # i_dbf[url] => dbf'[i] = dbf[i]
        /\ i_dbf' = [i_dbf EXCEPT ![url] = id]
    BY <1>1, <1>3, <2>1 DEF ReplaceURL, AddURL, Add, Put, TypeOK
  <2> HIDE DEF id
  <2>3. i_dbf'[u] = i_dbf[u]
    BY <1>1, <2>2 DEF TypeOK
  <2>4. CASE Known(u)
    <3>1. i_dbf[u] \in DocIDs /\ i_dbf[u] # id /\ dbf[i_dbf[u]] # NoRef
      BY <2>1, <2>4 DEF Known, Stored
    <3>2. i_dbf[u] # i_dbf[url]
      BY <1>1, <3>1 DEF IndexConsistent
    <3> QED BY <2>2, <2>3, <3>1, <3>2 DEF Known, Stored
  <2>5. CASE ~Known(u)
    <3>1. i_dbf[u] = NoDocID /\ NoDocID \notin DocIDs
      BY <1>1, <2>5 DEF IndexConsistent, Known
    <3> QED BY <2>3, <2>5, <3>1 DEF Known, Stored
  <2> QED BY <2>4, <2>5
<1> QED BY <1>2, <1>3 DEF MergeURL, IgnoreURL

LEMMA MergeURLOwn ==
  ASSUME IndInv, pc = "mergeDocs", NEW url \in urls, MergeURL(url)
  PROVE  \/ UNCHANGED vars /\ (~other!Known(url) \/ TooOld(url))
         \/ /\ other!Known(url) /\ ~TooOld(url)
            /\ i_dbf'[url] = Merged(m_i_dbf[url]) /\ Known(url)'
            /\ Lookup(url)' = other!Lookup(url)
<1> DEFINE id == Merged(m_i_dbf[url])
<1>1. TypeOK /\ url \in URLs
  BY DEF IndInv, TablesTrue, CollectionOK, MergeOK
<1>2. CASE ~other!Known(url) \/ IgnoreURL(url)
  BY <1>2 DEF MergeURL, IgnoreURL, ReplaceURL, AddURL
<1>3. CASE other!Known(url) /\ (ReplaceURL(url) \/ AddURL(url))
  <2>1. id \in DocIDs /\ ~Stored(id) /\ other!Lookup(url) # NoRef /\ other!Lookup(url).url = url
    BY <1>3, MergedFresh
  <2>2. ~TooOld(url)
    BY <1>3 DEF ReplaceURL, AddURL, TooOld
  <2>3. dbf'[id] = other!Lookup(url) /\ i_dbf'[url] = id
    BY <1>1, <1>3, <2>1 DEF ReplaceURL, AddURL, Add, Put, TypeOK
  <2> QED BY <1>3, <2>1, <2>2, <2>3 DEF Known, Stored, Lookup
<1> QED BY <1>2, <1>3 DEF MergeURL

LEMMA OthersStay ==
  ASSUME IndInv, pc = "mergeDocs", NEW url \in urls, MergeURL(url),
         NEW d \in URLs \X Editions, d[1] # url
  PROVE  (Waits(d) => Waits(d)') /\ (Survives(d) => Survives(d)')
<1> DEFINE u == d[1]
<1>1. u \in URLs /\ UNCHANGED <<word_db, m_dbf, m_i_dbf, m_word_db, docIDOffset>>
  BY DEF MergeURL, m_vars
<1>2. i_dbf'[u] = i_dbf[u] /\ (Known(u)' <=> Known(u)) /\ (Known(u) => Lookup(u)' = Lookup(u))
  BY <1>1, MergeURLOthers DEF Lookup
<1>3. \A f : f[1] = u => (f \in Finds' <=> f \in Finds)
  BY <1>1, <1>2 DEF Finds
<1>4. Known(u) => Latest(d)' = Latest(d) /\ (Retrieved(u)' <=> Retrieved(u))
  BY <1>2 DEF Latest, Retrieved
<1>5. Retrieved(u)' => Known(u) /\ Retrieved(u)
  BY <1>2, <1>4 DEF Retrieved
<1>6. Latest(d)[1] = u
  BY DEF Latest
<1>7. Waits(d) => Waits(d)'
  BY <1>1, <1>3, <1>4, <1>5, <1>6, SameOtherFinds DEF Waits
<1>8. Survives(d) => Survives(d)'
  BY <1>1, <1>2, <1>4 DEF Survives, Merged
<1> QED BY <1>7, <1>8

LEMMA OwnSurvives ==
  ASSUME IndInv, pc = "mergeDocs", NEW url \in urls, MergeURL(url),
         NEW d \in URLs \X Editions, d[1] = url, Waits(d)
  PROVE  Survives(d)'
<1>1. /\ TablesTrue /\ otherP!DBInv /\ url \in URLs /\ Refs = DocumentRefs
      /\ d[2] \in Nat /\ d[2] >= 1 /\ NoTime = 0
      /\ UNCHANGED <<word_db, m_dbf, m_i_dbf, m_word_db, docIDOffset>>
  BY IndexingConstants DEF IndInv, CollectionOK, MergeOK, Editions, MergeURL, m_vars
<1>2. ASSUME UNCHANGED vars, NEW f \in URLs \X Editions, f \in Finds, f[1] = url, f[2] >= d[2]
      PROVE  Survives(d)'
  <2>1. /\ Known(url) /\ Lookup(url).state = "normal" /\ Lookup(url).time = f[2]
        /\ <<i_dbf[url], f>> \in word_db /\ Latest(f) = f
    BY <1>1, <1>2, FindsTrue
  <2>2. Latest(d) = Latest(f)
    BY <1>2 DEF Latest
  <2>3. /\ Known(url)' /\ Lookup(url)' = Lookup(url) /\ Latest(d)' = Latest(d)
        /\ i_dbf' = i_dbf
    BY <1>1, <1>2, <2>1, SameFinds DEF vars
  <2> QED BY <1>1, <1>2, <2>1, <2>2, <2>3 DEF Survives
<1>3. ASSUME UNCHANGED vars, d \in Finds PROVE Survives(d)'
  BY <1>1, <1>2, <1>3
<1>4. ASSUME UNCHANGED vars, ~other!Known(url) PROVE Survives(d)'
  BY <1>1, <1>3, <1>4, OtherFindsTrue DEF Waits
<1>5. ASSUME UNCHANGED vars, TooOld(url), d \in OtherFinds, other!Known(url) PROVE Survives(d)'
  <2>1. Known(url) /\ Lookup(url).time >= d[2]
    BY <1>1, <1>5, OtherFindsTrue DEF TooOld
  <2>2. Lookup(url).time # NoTime
    BY <1>1, <2>1
  <2>3. Retrieved(url)
    <3>1. i_dbf[url] \in DocIDs /\ Stored(i_dbf[url])
      BY <2>1 DEF Known, Stored
    <3> QED BY <1>1, <2>1, <2>2, <3>1 DEF TablesTrue, WordsTrue, UnreadUndated, Retrieved, Lookup
  <2>4. Latest(d) \in Finds /\ Latest(d) = <<url, Lookup(url).time>>
    BY <2>3 DEF Waits, Latest
  <2>5. Latest(d) \in URLs \X Editions /\ Latest(d)[1] = url /\ Latest(d)[2] = Lookup(url).time
    BY <2>4 DEF Finds
  <2> QED BY <1>2, <1>5, <2>1, <2>4, <2>5
<1>6. ASSUME other!Known(url), ~TooOld(url), i_dbf'[url] = Merged(m_i_dbf[url]), Known(url)',
             Lookup(url)' = other!Lookup(url)
      PROVE  Survives(d)'
  <2>1. OtherLatest(d) = <<url, other!Lookup(url).time>> /\ Latest(d)' = OtherLatest(d)
    BY <1>6 DEF OtherLatest, Latest
  <2>2. /\ m_i_dbf[url] \in DocIDs /\ other!Lookup(url).time \in Nat
        /\ ~other!Lookup(url).accessed => other!Lookup(url).time = NoTime
    <3>1. other!Lookup(url) \in DocumentRefs
      BY <1>1, <1>6, MergedFresh, OtherFacts
    <3>2. other!Lookup(url).time \in Nat
      BY <3>1, IndexingConstants DEF DocumentRefs
    <3> QED BY <1>6, <3>2, MergedFresh
  <2>3. OtherLatest(d) \in OtherFinds /\ other!Lookup(url).time >= d[2]
    <3>1. CASE d \in OtherFinds
      <4>1. other!Lookup(url).time = d[2]
        BY <1>1, <3>1, OtherFindsTrue
      <4> QED BY <1>1, <2>1, <3>1, <4>1
    <3>2. CASE d \in Finds
      <4>1. Known(url) /\ Lookup(url).time = d[2]
        BY <1>1, <3>2, FindsTrue
      <4>2. other!Lookup(url).time > d[2]
        BY <1>1, <1>6, <2>2, <4>1 DEF TooOld
      <4>3. OtherRetrieved(url)
        BY <1>1, <1>6, <2>2, <4>2 DEF OtherRetrieved
      <4> QED BY <1>1, <2>2, <4>2, <4>3 DEF Waits
    <3> QED BY <3>1, <3>2 DEF Waits
  <2>4. OtherLatest(d) \in URLs \X Editions
    BY <2>3 DEF OtherFinds, other!Editions, Editions
  <2>5. other!Lookup(url).state = "normal" /\ <<m_i_dbf[url], OtherLatest(d)>> \in m_word_db
    BY <1>1, <2>1, <2>3, <2>4, OtherFindsTrue
  <2>6. i_dbf'[url] = Merged(m_i_dbf[url])'
    BY <1>1, <1>6 DEF Merged
  <2> QED BY <1>1, <1>6, <2>1, <2>2, <2>3, <2>5, <2>6 DEF Survives
<1> QED BY <1>3, <1>4, <1>5, <1>6, MergeURLOwn DEF Waits

LEMMA FoundMerge ==
  ASSUME IndInv, FoundInv, Merge
  PROVE  FoundInv'
<1>1. UNCHANGED found /\ found \subseteq URLs \X Editions
  BY DEF Merge, FoundInv
<1>2. ASSUME pc = "mergeDocs", pc' = pc, NEW url \in URLs, MergeURL(url) PROVE FoundInv'
  <2>1. url \in urls /\ urls' = urls \ {url}
    BY <1>2 DEF MergeURL
  <2>2. ASSUME NEW d \in found PROVE IF d[1] \in urls' THEN Waits(d)' ELSE Survives(d)'
    <3>1. CASE d[1] = url
      BY <1>1, <1>2, <2>1, <2>2, <3>1, OwnSurvives DEF FoundInv
    <3>2. CASE d[1] # url
      BY <1>1, <1>2, <2>1, <2>2, <3>2, OthersStay DEF FoundInv
    <3> QED BY <3>1, <3>2
  <2> QED BY <1>1, <1>2, <2>2 DEF FoundInv
<1>3. CASE pc = "mergeDocs" /\ pc' = "mergeWords" /\ MergeClose
  <2>1. urls = {} /\ UNCHANGED <<dbf, i_dbf, word_db, m_word_db, docIDOffset>>
    BY <1>3 DEF MergeClose, tables, mergeVars
  <2>2. \A d \in found : Survives(d)
    BY <1>3, <2>1 DEF FoundInv
  <2>3. \A d \in found : Survives(d)'
    BY <2>1, <2>2, SameFinds DEF Survives, Merged
  <2> QED BY <1>1, <1>3, <2>3 DEF FoundInv
<1>4. CASE pc = "mergeWords" /\ pc' = "idle" /\ MergeWords
  <2>1. NoDocID \notin merge_dup_ids /\ NoDocID \notin db_dup_ids
    BY Constants DEF IndInv, CollectionOK, MergeOK
  <2>2. UNCHANGED <<dbf, i_dbf>> /\ word_db' = word_db \cup {<<Merged(p[1]), p[2]>> : p \in m_word_db}
    BY <1>4, <2>1 DEF MergeWords, DocIDKey, vars
  <2>3. ASSUME NEW d \in found PROVE StillFound(d)'
    <3>1. d \in URLs \X Editions /\ Survives(d) /\ d[2] \in Nat /\ d[2] >= 1
      BY <1>1, <1>4 DEF FoundInv, Editions
    <3>2. <<i_dbf[d[1]], Latest(d)>> \in word_db'
      <4>1. ASSUME NEW id \in DocIDs, i_dbf[d[1]] = Merged(id), <<id, Latest(d)>> \in m_word_db
            PROVE  <<i_dbf[d[1]], Latest(d)>> \in word_db'
        <5> DEFINE p == <<id, Latest(d)>>
        <5>1. p \in m_word_db /\ p[1] = id /\ p[2] = Latest(d)
          BY <4>1
        <5>2. <<Merged(p[1]), p[2]>> \in {<<Merged(q[1]), q[2]>> : q \in m_word_db}
          BY <5>1
        <5> QED BY <2>2, <4>1, <5>1, <5>2
      <4> QED BY <2>2, <3>1, <4>1 DEF Survives
    <3>3. /\ Known(d[1]) /\ i_dbf[d[1]] \in DocIDs /\ Lookup(d[1]).state = "normal"
          /\ Lookup(d[1]).time >= d[2] /\ Lookup(d[1]) \in DocumentRefs
      <4>1. dbf \in [DocIDs -> DocumentRefs \cup {NoRef}]
        BY IndexingConstants DEF IndInv, TablesTrue, TypeOK
      <4>2. Known(d[1]) /\ Lookup(d[1]).state = "normal" /\ Lookup(d[1]).time >= d[2]
        BY <3>1 DEF Survives
      <4>3. i_dbf[d[1]] \in DocIDs /\ dbf[i_dbf[d[1]]] # NoRef
        BY <4>2 DEF Known, Stored
      <4> QED BY <4>1, <4>2, <4>3 DEF Lookup
    <3>4. Latest(d) \in URLs \X Editions
      <4>1. Lookup(d[1]).time \in 0 .. MaxEdition
        BY <3>3 DEF DocumentRefs
      <4>2. Lookup(d[1]).time \in Editions
        BY <3>1, <3>3, <4>1, IndexingConstants DEF Editions
      <4> QED BY <3>1, <4>2 DEF Latest
    <3>5. Latest(d)[1] = d[1] /\ Latest(d)[2] = Lookup(d[1]).time
      BY DEF Latest
    <3>6. (Latest(d) \in Finds')
      BY <2>2, <3>2, <3>3, <3>4, <3>5 DEF Finds, Known, Stored, Lookup
    <3> QED BY <3>3, <3>5, <3>6 DEF StillFound
  <2> QED BY <1>1, <1>4, <2>3 DEF FoundInv
<1> QED BY <1>2, <1>3, <1>4 DEF Merge

LEMMA FoundStutter ==
  ASSUME FoundInv, UNCHANGED allVars
  PROVE  FoundInv'
<1>1. UNCHANGED <<dbf, i_dbf, h_dbf, word_db, m_dbf, m_i_dbf, m_word_db, urls, docIDOffset,
                  discard_list, pc, found>>
  BY DEF allVars, vars, m_vars, toolVars, purgeVars, mergeVars
<1> QED BY <1>1, SameFinds, SameOtherFinds DEF FoundInv, Spared, Waits, Survives, Discard, Merged

(* What a search found before hlpurge or hlmerge ran it finds afterwards,   *)
(* in that edition or a later one, although hlmerge neither reads the       *)
(* excerpt of a newer duplicate nor takes away the words of the older one.  *)
THEOREM WhatWasFoundStays == CollectionSpec => []FoundStaysFound
<1>1. CollectionInit => FoundInv
  BY FoundInit
<1>2. IndInv /\ FoundInv /\ [CollectionNext]_allVars => FoundInv'
  BY FoundDig, FoundPurge, FoundMergeStart, FoundMerge, FoundStutter DEF CollectionNext
<1>3. FoundInv => FoundStaysFound
  BY DEF FoundInv, FoundStaysFound, StillFound
<1> QED BY <1>1, <1>2, <1>3, Always, PTL DEF CollectionSpec
=============================================================================
