------------------------------ MODULE hlmerge -------------------------------
(***************************************************************************)
(* hltools/hlmerge.cc: the documents, then the words, of one collection    *)
(* (merge_db) are added to another (db) under IDs of its own: every merged *)
(* ID is shifted by docIDOffset.  Of a URL both have, the newer document   *)
(* stays.                                                                  *)
(***************************************************************************)
EXTENDS Indexing

VARIABLES
  m_isopen, m_nextDocID, m_savedDocID, m_dbf, m_i_dbf, m_h_dbf,  \* merge_db
  m_word_db,
  urls,            \* URLs of merge_db still to be merged
  docIDOffset,
  merge_dup_ids,   \* IDs of merge_db whose document is too old
  db_dup_ids       \* IDs of db whose document was replaced

m_vars == <<m_isopen, m_nextDocID, m_savedDocID, m_dbf, m_i_dbf, m_h_dbf>>

mergeVars == <<urls, docIDOffset, merge_dup_ids, db_dup_ids>>

other == INSTANCE Indexing
           WITH isopen <- m_isopen, nextDocID <- m_nextDocID,
                savedDocID <- m_savedDocID, dbf <- m_dbf, i_dbf <- m_i_dbf,
                h_dbf <- m_h_dbf, word_db <- m_word_db

MergeOK ==
  /\ urls \subseteq URLs
  /\ docIDOffset \in 0 .. MaxDocID
  /\ merge_dup_ids \subseteq DocIDs /\ db_dup_ids \subseteq DocIDs

(* Both databases are opened; the offset takes an ID. *)
MergeOpen ==
  /\ ~isopen /\ isopen' = TRUE
  /\ other!Open
  /\ urls' = other!IndexedURLs
  /\ docIDOffset' = Counter
  /\ nextDocID' = Counter + 1
  /\ merge_dup_ids' = {} /\ db_dup_ids' = {}
  /\ UNCHANGED <<savedDocID, tables, word_db, m_word_db>>

Merged(id) == id + docIDOffset

(* Mutant: the older one stays. *)
TooOldSwapped(url) == Known(url) /\ Lookup(url).time <= other!Lookup(url).time

(* Of two documents of a URL the merged one is too old when it is not newer. *)
TooOld(url) == Known(url) /\ Lookup(url).time >= other!Lookup(url).time

IgnoreURL(url) ==
  /\ TooOld(url)
  /\ merge_dup_ids' = merge_dup_ids \cup {m_i_dbf[url]}
  /\ UNCHANGED <<vars, db_dup_ids>>

(* Delete, then Add.  The excerpt of the newer document is not read, so     *)
(* none is stored.                                                          *)
ReplaceURL(url) ==
  /\ Known(url) /\ ~TooOld(url)
  /\ LET old == i_dbf[url]
         id == Merged(m_i_dbf[url])
     IN /\ dbf' = [dbf EXCEPT ![old] = NoRef, ![id] = other!Lookup(url)]
        /\ i_dbf' = [i_dbf EXCEPT ![url] = id]
        /\ h_dbf' = h_dbf \ {old}
        /\ db_dup_ids' = db_dup_ids \cup {old}
  /\ UNCHANGED <<isopen, nextDocID, savedDocID, merge_dup_ids>>

AddURL(url) ==
  /\ ~Known(url)
  /\ Add(Merged(m_i_dbf[url]), other!Lookup(url), m_i_dbf[url] \in m_h_dbf)
  /\ UNCHANGED <<merge_dup_ids, db_dup_ids>>

MergeURL(url) ==
  /\ url \in urls
  /\ urls' = urls \ {url}
  /\ IF other!Known(url)
     THEN IgnoreURL(url) \/ ReplaceURL(url) \/ AddURL(url)
     ELSE UNCHANGED <<vars, merge_dup_ids, db_dup_ids>>
  /\ UNCHANGED <<docIDOffset, word_db, m_vars, m_word_db>>

(* Mutant: the counter is not moved past the merged IDs. *)
MergeCloseCounterStays ==
  /\ urls = {}
  /\ isopen' = FALSE
  /\ UNCHANGED nextDocID
  /\ savedDocID' = nextDocID'
  /\ m_nextDocID' = m_nextDocID + 1 /\ m_isopen' = FALSE
  /\ m_savedDocID' = m_nextDocID'
  /\ UNCHANGED <<tables, m_dbf, m_i_dbf, m_h_dbf, word_db, m_word_db, mergeVars>>

(* IncNextDocID by what merge_db.NextDocID () hands out, and both close. *)
MergeClose ==
  /\ urls = {}
  /\ isopen' = FALSE
  /\ nextDocID' = nextDocID + m_nextDocID
  /\ savedDocID' = nextDocID'
  /\ m_nextDocID' = m_nextDocID + 1 /\ m_isopen' = FALSE
  /\ m_savedDocID' = m_nextDocID'
  /\ UNCHANGED <<tables, m_dbf, m_i_dbf, m_h_dbf, word_db, m_word_db, mergeVars>>

(* The key the lists of duplicates are asked for.  They hold IDs printed in *)
(* decimal; but docIDKey = word->DocID () makes a String of an int, which   *)
(* is the constructor that takes an allocation size and leaves the string   *)
(* empty.  NoDocID stands for the empty key, which is on no list.           *)
DocIDKey(id) == NoDocID

MergeWords ==
  /\ LET kept == {p \in m_word_db : DocIDKey(p[1]) \notin merge_dup_ids}
         all == word_db \cup {<<Merged(p[1]), p[2]>> : p \in kept}
     IN word_db' = {p \in all : DocIDKey(p[1]) \notin db_dup_ids}
  /\ merge_dup_ids' = {} /\ db_dup_ids' = {}
  /\ UNCHANGED <<vars, m_vars, m_word_db, urls, docIDOffset>>
=============================================================================
