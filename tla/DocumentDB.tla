----------------------------- MODULE DocumentDB -----------------------------
(***************************************************************************)
(* The document database of hlcommon/DocumentDB.cc: three Berkeley DB      *)
(* tables that one object keeps in step,                                   *)
(*                                                                         *)
(*   dbf     document ID -> serialized DocumentRef   (doc_db)              *)
(*   i_dbf   URL         -> document ID              (doc_index)           *)
(*   h_dbf   document ID -> excerpt                  (doc_excerpt)         *)
(*                                                                         *)
(* and the running document counter.  The counter lives in memory while    *)
(* the database is open; the special record NEXT_DOC_ID_RECORD of dbf      *)
(* holds it between two openings.                                          *)
(*                                                                         *)
(* A table is a total function with a marker for "no such key".  Of a      *)
(* DocumentRef this module looks at the URL only; what else a record has   *)
(* is up to Refs, which the clients choose.                                *)
(***************************************************************************)
EXTENDS Naturals, FiniteSets

CONSTANTS
  URLs,      \* the URLs records are indexed under, in normal form
  Refs,      \* the DocumentRefs, records with at least the field url
  NoRef,     \* dbf has no record under this ID
  MaxDocID   \* bound of the model on the IDs handed out

NEXT_DOC_ID_RECORD == 1   \* the key of the counter's own record in dbf

FirstDocID == NEXT_DOC_ID_RECORD + 1

DocIDs == FirstDocID .. MaxDocID

NoDocID == 0              \* i_dbf has no entry for this URL

ASSUME RefsAssumption == NoRef \notin Refs /\ \A r \in Refs : r.url \in URLs

ASSUME MaxDocIDAssumption == MaxDocID \in Nat /\ MaxDocID >= FirstDocID

VARIABLES
  isopen,       \* the tables are open
  nextDocID,    \* the running counter, in memory
  savedDocID,   \* the counter record of dbf, NoDocID when it has none
  dbf, i_dbf, h_dbf

tables == <<dbf, i_dbf, h_dbf>>

vars == <<isopen, nextDocID, savedDocID, dbf, i_dbf, h_dbf>>

TypeOK ==
  /\ isopen \in BOOLEAN
  /\ nextDocID \in FirstDocID .. MaxDocID + 1
  /\ savedDocID \in {NoDocID} \cup FirstDocID .. MaxDocID + 1
  /\ dbf \in [DocIDs -> Refs \cup {NoRef}]
  /\ i_dbf \in [URLs -> DocIDs \cup {NoDocID}]
  /\ h_dbf \subseteq DocIDs

NoTables ==
  /\ dbf = [id \in DocIDs |-> NoRef]
  /\ i_dbf = [u \in URLs |-> NoDocID]
  /\ h_dbf = {}

Init ==
  /\ isopen = FALSE
  /\ nextDocID = FirstDocID
  /\ savedDocID = NoDocID
  /\ NoTables

-----------------------------------------------------------------------------
(* Reading.  operator[] (url) goes through the index and yields a record    *)
(* only when the index entry leads to one.                                  *)

Stored(id) == id \in DocIDs /\ dbf[id] # NoRef

Known(url) == Stored(i_dbf[url])

Lookup(url) == dbf[i_dbf[url]]

IndexedURLs == {u \in URLs : i_dbf[u] # NoDocID}   \* the list URLs() returns

-----------------------------------------------------------------------------
(* Mutant: the counter is taken from a record that is not there. *)
OpenUnchecked ==
  /\ ~isopen
  /\ isopen' = TRUE
  /\ nextDocID' = savedDocID
  /\ UNCHANGED <<savedDocID, tables>>

(* Open: a fresh object starts at the first ID and takes the counter from   *)
(* its record when there is one.                                            *)
Open ==
  /\ ~isopen
  /\ isopen' = TRUE
  /\ nextDocID' = IF savedDocID # NoDocID THEN savedDocID ELSE FirstDocID
  /\ UNCHANGED <<savedDocID, tables>>

(* Open after the files of an earlier dig were unlinked (hldig -i). *)
OpenErased ==
  /\ ~isopen
  /\ isopen' = TRUE
  /\ nextDocID' = FirstDocID
  /\ savedDocID' = NoDocID
  /\ dbf' = [id \in DocIDs |-> NoRef]
  /\ i_dbf' = [u \in URLs |-> NoDocID]
  /\ h_dbf' = {}

(* Mutant: the counter is not saved. *)
CloseUnsaved ==
  /\ isopen
  /\ isopen' = FALSE
  /\ UNCHANGED <<nextDocID, savedDocID, tables>>

Close ==
  /\ isopen
  /\ isopen' = FALSE
  /\ savedDocID' = nextDocID
  /\ UNCHANGED <<nextDocID, tables>>

(* NextDocID () hands out nextDocID and increments it. *)
NextDocID ==
  /\ isopen
  /\ nextDocID <= MaxDocID
  /\ nextDocID' = nextDocID + 1
  /\ UNCHANGED <<isopen, savedDocID>>

(* The table writes of Add: the record, its excerpt when the reference      *)
(* carries one, and the index entry of its URL, which now leads here.       *)
Put(id, ref, headIsSet) ==
  /\ dbf' = [dbf EXCEPT ![id] = ref]
  /\ h_dbf' = IF headIsSet THEN h_dbf \cup {id} ELSE h_dbf
  /\ i_dbf' = [i_dbf EXCEPT ![ref.url] = id]

Add(id, ref, headIsSet) ==
  /\ isopen
  /\ Put(id, ref, headIsSet)
  /\ UNCHANGED <<isopen, nextDocID, savedDocID>>

(* A client that takes a new ID and writes a record in one go. *)
NextDocIDAndAdd(id, ref, headIsSet) == NextDocID /\ Put(id, ref, headIsSet)

(* Delete returns early when there is no such record, and when the index    *)
(* has no entry for the record's URL.  The index entry goes only when it    *)
(* leads to this very ID: a newer edition of the URL keeps its own.  A      *)
(* missing excerpt stops nothing, because the Berkeley code for "not        *)
(* found" that DB2_db::Delete hands back is not NOTOK.                      *)
Deletable(id) == Stored(id) /\ i_dbf[dbf[id].url] # NoDocID

(* Mutant: the index is left alone. *)
DeleteKeepsIndex(id) ==
  /\ isopen
  /\ Deletable(id)
  /\ h_dbf' = h_dbf \ {id}
  /\ dbf' = [dbf EXCEPT ![id] = NoRef]
  /\ UNCHANGED <<isopen, nextDocID, savedDocID, i_dbf>>

(* Mutant: the excerpt is left alone. *)
DeleteKeepsExcerpt(id) ==
  /\ isopen
  /\ Deletable(id)
  /\ i_dbf' = [i_dbf EXCEPT ![dbf[id].url] = IF @ = id THEN NoDocID ELSE @]
  /\ dbf' = [dbf EXCEPT ![id] = NoRef]
  /\ UNCHANGED <<isopen, nextDocID, savedDocID, h_dbf>>

Delete(id) ==
  /\ isopen
  /\ Deletable(id)
  /\ i_dbf' = [i_dbf EXCEPT ![dbf[id].url] = IF @ = id THEN NoDocID ELSE @]
  /\ h_dbf' = h_dbf \ {id}
  /\ dbf' = [dbf EXCEPT ![id] = NoRef]
  /\ UNCHANGED <<isopen, nextDocID, savedDocID>>

-----------------------------------------------------------------------------
(* What the clients in hldig and hltools do with it: they add a record      *)
(* under an ID NextDocID gave them, and a record that exists is rewritten   *)
(* under its own ID with its own URL.                                       *)
MayHold(id, ref) == dbf[id] # NoRef => dbf[id].url = ref.url

Next ==
  \/ Open
  \/ OpenErased
  \/ Close
  \/ NextDocID /\ UNCHANGED tables
  \/ \E id \in DocIDs, ref \in Refs, h \in BOOLEAN :
       \/ id < nextDocID /\ MayHold(id, ref) /\ Add(id, ref, h)
       \/ id <= nextDocID /\ MayHold(id, ref) /\ NextDocIDAndAdd(id, ref, h)
  \/ \E id \in DocIDs : Delete(id)

Spec == Init /\ [][Next]_vars

-----------------------------------------------------------------------------
(* The counter as the next user of the files will see it. *)
Counter == IF isopen THEN nextDocID
           ELSE IF savedDocID # NoDocID THEN savedDocID ELSE FirstDocID

(* Every ID that has a record is below the counter, whether the database is *)
(* open or its counter sits in the special record: NextDocID never hands    *)
(* out an ID that still names a document, in this session or in a later one *)
(* (DocumentDB::Open, Close, NextDocID, Add).                               *)
NextIDFresh == \A id \in DocIDs : dbf[id] # NoRef => id < Counter

(* The URL index never dangles and never leads to another URL's document:   *)
(* an entry names a stored record with that URL (DocumentDB::Add, Delete).  *)
IndexConsistent ==
  \A u \in URLs : i_dbf[u] # NoDocID =>
                    Stored(i_dbf[u]) /\ dbf[i_dbf[u]].url = u

(* An excerpt belongs to a stored document. *)
ExcerptsOwned == \A id \in h_dbf : Stored(id)

(* Short of erasing the files, the counter never goes back, closing and     *)
(* reopening included: an ID that was purged is not given to another        *)
(* document whose words a search would then confuse with the old ones.      *)
CounterNeverBack == [][OpenErased \/ Counter' >= Counter]_vars
=============================================================================
