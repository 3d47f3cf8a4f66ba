------------------------------ MODULE hlpurge -------------------------------
(***************************************************************************)
(* hltools/hlpurge.cc: two passes.  purgeDocs goes through the records and *)
(* deletes those nobody should find any more; purgeWords then goes through *)
(* the word database and deletes the postings of every ID the first pass   *)
(* put on its list, whether DocumentDB deleted the record or refused to.   *)
(* Between the passes the document database is closed and nothing but the  *)
(* list, in memory, knows which words are to go.                           *)
(***************************************************************************)
EXTENDS Indexing

CONSTANTS
  RemoveBadURLs,           \* remove_bad_urls
  RemoveUnretrievedURLs,   \* remove_unretrieved_urls
  PurgeURLs                \* URLs given with -u or on the standard input

ASSUME PurgeAssumption ==
  /\ {RemoveBadURLs, RemoveUnretrievedURLs} \subseteq BOOLEAN
  /\ PurgeURLs \subseteq URLs

VARIABLES
  IDs,           \* records purgeDocs has still to look at
  discard_list   \* the IDs whose words are to go

purgeVars == <<IDs, discard_list>>

PurgeOK == IDs \subseteq DocIDs /\ discard_list \subseteq DocIDs

(* The tests of purgeDocs.  An excerpt that was never stored reads as an    *)
(* empty one.                                                               *)
Discard(id) ==
  LET ref == dbf[id]
  IN \/ ref.state \in {"noindex", "obsolete"}
     \/ RemoveBadURLs /\ ref.state = "not_found"
     \/ RemoveBadURLs /\ id \notin h_dbf /\ ref.accessed
     \/ RemoveUnretrievedURLs /\ ~ref.accessed
     \/ ref.url \in PurgeURLs

(* An empty database ends the program. *)
PurgeOpen ==
  /\ Open
  /\ IDs' = {id \in DocIDs : Stored(id)}
  /\ IDs' # {}
  /\ discard_list' = {}
  /\ UNCHANGED word_db

(* Mutant: an ID is put on the list only when its record could be deleted. *)
PurgeDocDeleted(id) ==
  /\ id \in IDs
  /\ IDs' = IDs \ {id}
  /\ IF Discard(id) /\ Deletable(id)
     THEN Delete(id) /\ discard_list' = discard_list \cup {id}
     ELSE UNCHANGED <<vars, discard_list>>
  /\ UNCHANGED word_db

PurgeDoc(id) ==
  /\ id \in IDs
  /\ IDs' = IDs \ {id}
  /\ IF Discard(id) /\ Deletable(id) THEN Delete(id) ELSE UNCHANGED vars
  /\ discard_list' = IF Discard(id) THEN discard_list \cup {id} ELSE discard_list
  /\ UNCHANGED word_db

PurgeClose ==
  /\ IDs = {}
  /\ Close
  /\ UNCHANGED <<word_db, purgeVars>>

PurgeWords ==
  /\ word_db' = {p \in word_db : p[1] \notin discard_list}
  /\ discard_list' = {}
  /\ UNCHANGED <<vars, IDs>>
=============================================================================
