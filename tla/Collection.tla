----------------------------- MODULE Collection -----------------------------
(***************************************************************************)
(* The life of a collection's databases: digs, purges and merges, one      *)
(* program at a time, as the script rundig calls them.  A second           *)
(* collection is dug beside it and may be merged into it.                  *)
(*                                                                         *)
(* hlpurge and hlmerge may be killed between their two passes, when the    *)
(* document database is closed and the words are still as they were.  A    *)
(* kill while tables are open is left out: Berkeley DB runs without a log  *)
(* (DB2_db::db_init), so nothing is known of them then.                    *)
(***************************************************************************)
EXTENDS hlpurge, hlmerge

CONSTANTS
  MaxDigs, MaxPurges, MaxMerges,   \* bounds on the runs of the programs
  MaxDug, MaxDugMerged,   \* bounds on the counter, in digs of db before and
                          \* after a merge
  MaxDugOther,            \* the same for merge_db
  Kills                   \* whether the tools may be killed

ASSUME CollectionAssumption ==
  /\ {MaxDigs, MaxPurges, MaxMerges, MaxDug, MaxDugMerged, MaxDugOther} \subseteq Nat
  /\ Kills \in BOOLEAN

VARIABLES
  pc,               \* the program that runs and its pass
  digs, purges, merges,   \* runs so far
  fetched,          \* URLs the dig that runs has retrieved
  found             \* history: what a search found before the tool ran

toolVars == <<purgeVars, mergeVars>>

allVars == <<vars, word_db, m_vars, m_word_db, toolVars, pc, digs, purges, merges, fetched, found>>

Places == {"idle", "dig", "digOther", "purgeDocs", "purgeWords", "mergeDocs",
           "mergeWords"}

CollectionOK ==
  /\ TypeOK /\ WordsOK
  /\ other!TypeOK /\ other!WordsOK
  /\ PurgeOK /\ MergeOK
  /\ pc \in Places
  /\ digs \in 0 .. MaxDigs /\ purges \in 0 .. MaxPurges /\ merges \in 0 .. MaxMerges
  /\ fetched \subseteq URLs

CollectionInit ==
  /\ Init /\ word_db = {}
  /\ other!Init /\ m_word_db = {}
  /\ IDs = {} /\ discard_list = {}
  /\ urls = {} /\ docIDOffset = 0 /\ merge_dup_ids = {} /\ db_dup_ids = {}
  /\ pc = "idle" /\ digs = 0 /\ purges = 0 /\ merges = 0 /\ fetched = {} /\ found = {}

(* What hlsearch can find in db: the indexed documents in state normal with *)
(* words of the edition they are dated with.                                *)
Finds ==
  {d \in URLs \X Editions :
     Known(d[1]) /\ Lookup(d[1]).state = "normal" /\ <<i_dbf[d[1]], d>> \in word_db}

Retrieved(u) == Known(u) /\ Lookup(u).accessed

OtherRetrieved(u) == other!Known(u) /\ other!Lookup(u).accessed

OtherFinds ==
  {d \in URLs \X Editions :
     /\ other!Known(d[1]) /\ other!Lookup(d[1]).state = "normal"
     /\ <<m_i_dbf[d[1]], d>> \in m_word_db}

-----------------------------------------------------------------------------
Unmerged == UNCHANGED <<m_vars, m_word_db>>

MayHandOut == IF merges = 0 THEN MaxDug ELSE MaxDugMerged

(* hldig, or hldig -i. *)
DigStart ==
  /\ pc = "idle" /\ digs < MaxDigs
  /\ pc' = "dig" /\ digs' = digs + 1
  /\ found' = {}
  /\ \/ Open /\ UNCHANGED word_db
     \/ OpenErased /\ word_db' = {}
  /\ Unmerged /\ UNCHANGED <<toolVars, purges, merges, fetched>>

(* A page is retrieved once in a dig (FetchedOnce of Retriever). *)
DigPage ==
  /\ pc = "dig"
  /\ \/ Link /\ UNCHANGED fetched
     \/ \E url \in URLs \ fetched : Page(url) /\ fetched' = fetched \cup {url}
  /\ nextDocID' <= MayHandOut
  /\ Unmerged /\ UNCHANGED <<toolVars, pc, digs, purges, merges, found>>

DigEnd ==
  /\ pc = "dig"
  /\ pc' = "idle" /\ fetched' = {}
  /\ Close
  /\ Unmerged /\ UNCHANGED <<word_db, toolVars, digs, purges, merges, found>>

(* The same for the other collection, which is dug once. *)
DigOther ==
  /\ UNCHANGED <<vars, word_db, toolVars, digs, purges, merges, found>>
  /\ \/ /\ pc = "idle" /\ pc' = "digOther"
        /\ m_savedDocID = NoDocID /\ other!Open
        /\ UNCHANGED <<m_word_db, fetched>>
     \/ /\ pc = "digOther" /\ UNCHANGED pc
        /\ \/ other!Link /\ UNCHANGED fetched
           \/ \E url \in URLs \ fetched : other!Page(url) /\ fetched' = fetched \cup {url}
        /\ m_nextDocID' <= MaxDugOther
     \/ /\ pc = "digOther" /\ pc' = "idle" /\ fetched' = {}
        /\ other!Close /\ UNCHANGED m_word_db

PurgeStart ==
  /\ pc = "idle" /\ purges < MaxPurges
  /\ PurgeOpen
  /\ pc' = "purgeDocs" /\ purges' = purges + 1
  /\ found' = {d \in Finds : i_dbf[d[1]] \in h_dbf /\ d[1] \notin PurgeURLs}
  /\ Unmerged /\ UNCHANGED <<mergeVars, digs, merges, fetched>>

Purge ==
  /\ Unmerged /\ UNCHANGED <<mergeVars, digs, purges, merges, fetched>>
  /\ \/ pc = "purgeDocs" /\ pc' = pc /\ (\E id \in IDs : PurgeDoc(id)) /\ UNCHANGED found
     \/ pc = "purgeDocs" /\ pc' = "purgeWords" /\ PurgeClose /\ UNCHANGED found
     \/ pc = "purgeWords" /\ pc' = "idle" /\ PurgeWords /\ UNCHANGED found

(* hlmerge refuses to run when one of the databases is not there. *)
MergeStart ==
  /\ pc = "idle" /\ merges < MaxMerges
  /\ savedDocID # NoDocID /\ m_savedDocID # NoDocID
  /\ Counter + m_savedDocID < MaxDocID
  /\ MergeOpen
  /\ pc' = "mergeDocs" /\ merges' = merges + 1
  /\ found' = {d \in Finds \cup OtherFinds :
                 /\ Retrieved(d[1]) => <<d[1], Lookup(d[1]).time>> \in Finds
                 /\ OtherRetrieved(d[1]) => <<d[1], other!Lookup(d[1]).time>> \in OtherFinds}
  /\ UNCHANGED <<purgeVars, digs, purges, fetched>>

Merge ==
  /\ UNCHANGED <<purgeVars, digs, purges, merges, fetched, found>>
  /\ \/ pc = "mergeDocs" /\ pc' = pc /\ (\E u \in URLs : MergeURL(u))
     \/ pc = "mergeDocs" /\ pc' = "mergeWords" /\ MergeClose
     \/ pc = "mergeWords" /\ pc' = "idle" /\ MergeWords

(* The kill between the passes: what the program held in memory is gone. *)
Killed ==
  /\ Kills
  /\ pc \in {"purgeWords", "mergeWords"}
  /\ pc' = "idle"
  /\ discard_list' = {} /\ merge_dup_ids' = {} /\ db_dup_ids' = {}
  /\ found' = {}
  /\ UNCHANGED <<vars, word_db, m_vars, m_word_db, IDs, urls, docIDOffset, digs,
                 purges, merges, fetched>>

CollectionNext ==
  \/ DigStart \/ DigPage \/ DigEnd \/ DigOther
  \/ PurgeStart \/ Purge \/ MergeStart \/ Merge \/ Killed

CollectionSpec == CollectionInit /\ [][CollectionNext]_allVars

-----------------------------------------------------------------------------
(* No ID that names a record is handed out again, whichever tool left the   *)
(* counter.  (While hlmerge is adding records the counter lags behind.)     *)
IDsFresh == pc # "mergeDocs" => NextIDFresh

(* After both passes of hlpurge no posting leads to a document that is      *)
(* obsolete, noindex or to be discarded for another reason, although        *)
(* Delete refuses records whose URL has lost its index entry.               *)
PurgedWordsGone ==
  [][pc = "purgeWords" /\ PurgeWords =>
       \A p \in word_db' : Stored(p[1]) => ~Discard(p[1])]_allVars

(* What could be found before a tool ran can be found after it, in that     *)
(* edition or a later one, when the document has an excerpt and the user    *)
(* did not ask for it to go.                                                *)
FoundStaysFound ==
  pc = "idle" =>
    \A d \in found : \E f \in Finds : f[1] = d[1] /\ f[2] >= d[2]

(* hlmerge ignores the words of documents that are too old on either side   *)
(* ("Lists of DocIds to ignore"): when it is done, every posting it copied  *)
(* or left leads to a record, as every posting did before.                  *)
MergedWordsLead ==
  [][pc = "mergeWords" /\ MergeWords /\ (\A p \in m_word_db : other!Stored(p[1])) =>
       \A p \in word_db' : Stored(p[1])]_allVars
=============================================================================
