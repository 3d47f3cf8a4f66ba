------------------------------ MODULE Indexing ------------------------------
(***************************************************************************)
(* The databases of one collection as hldig fills them: DocumentDB and the *)
(* word database, with one action per document that Retriever::parse_url   *)
(* retrieves.  Retriever models the steps inside; here a document is one   *)
(* step, because nothing but hldig has the databases open meanwhile.       *)
(*                                                                         *)
(* A posting is a pair <<document ID, <<URL, edition>>>>: the words an     *)
(* edition of a page gave to a document, or, under edition LinkText, the   *)
(* words of links that lead to it.                                         *)
(***************************************************************************)
EXTENDS DocumentDB

CONSTANTS
  MaxEdition,   \* bound: the editions of a page, by date
  Kinds,        \* of URL and edition: what the page may be, see PageKinds
  Described     \* whether links have a text with words to store

Editions == 1 .. MaxEdition
LinkText == 0         \* in a posting
NoTime == 0           \* DocTime of a document that was not retrieved

(* A page says noindex, leaves no excerpt, or has no parser that takes it.  *)
PageKinds == {"ordinary", "noindex", "bare", "no_parser"}

States == {"normal", "not_found", "noindex", "obsolete"}

DocumentRefs ==
  [url : URLs, state : States, time : 0 .. MaxEdition, accessed : BOOLEAN]

ASSUME IndexingAssumption ==
  /\ MaxEdition \in Nat \ {0} /\ Refs = DocumentRefs
  /\ Kinds \in [URLs -> [Editions -> SUBSET PageKinds]]
  /\ Described \subseteq BOOLEAN

VARIABLE word_db

Postings == DocIDs \X (URLs \X (0 .. MaxEdition))

WordsOK == word_db \subseteq Postings

NewRef(url) ==
  [url |-> url, state |-> "normal", time |-> NoTime, accessed |-> FALSE]

-----------------------------------------------------------------------------
(* The document of a URL: the one it has, or one that is made for it.        *)
DocID(url) == IF Known(url) THEN i_dbf[url] ELSE nextDocID

RefOf(url) == IF Known(url) THEN Lookup(url) ELSE NewRef(url)

Write(url, ref, headIsSet) ==
  IF Known(url) THEN Add(i_dbf[url], ref, headIsSet)
                ELSE NextDocIDAndAdd(nextDocID, ref, headIsSet)

(* A link or a redirect to url.  A document that is known is written back   *)
(* as it was.                                                               *)
LinkTo(url, described) ==
  /\ Write(url, RefOf(url), FALSE)
  /\ word_db' = IF described THEN word_db \cup {<<DocID(url), <<url, LinkText>>>>}
                             ELSE word_db

(* The document of a URL that is taken off the queue.                       *)
Current(url) == [RefOf(url) EXCEPT !.accessed = TRUE, !.state = "normal"]

(* The retrieval gave no document to index: it is as it was ("normal": not  *)
(* modified), cannot be had, or cannot be parsed.                           *)
NotRetrieved(url, state) ==
  /\ state \in {"normal", "not_found", "noindex"}
  /\ state = "normal" => Current(url).time # NoTime
  /\ Write(url, [Current(url) EXCEPT !.state = state], FALSE)
  /\ UNCHANGED word_db

(* The page redirects elsewhere, where the link is taken up. *)
Redirected(url) ==
  /\ Write(url, [Current(url) EXCEPT !.state = "obsolete"], FALSE)
  /\ UNCHANGED word_db

(* What parse_url makes of a page it has retrieved: the record is dated, and *)
(* one that says noindex is marked.  One without a parser is marked and     *)
(* nothing else.                                                            *)
Dated(ref, edition, kind) ==
  CASE kind = "no_parser" -> [ref EXCEPT !.state = "noindex"]
    [] kind = "noindex" -> [ref EXCEPT !.state = "noindex", !.time = edition]
    [] OTHER -> [ref EXCEPT !.time = edition]

HasExcerpt(kind) == kind \in {"ordinary", "noindex"}

(* The words of a page are stored when it has been parsed and does not say  *)
(* noindex; those of a noindex page when a link on it flushed the buffer    *)
(* (NoindexNotPosted of Retriever).                                         *)
Store(id, url, edition, kind) ==
  LET stored == word_db \cup {<<id, <<url, edition>>>>}
  IN word_db' \in CASE kind = "no_parser" -> {word_db}
                     [] kind = "noindex" -> {word_db, stored}
                     [] OTHER -> {stored}

(* A first retrieval. *)
Index(url, edition, kind) ==
  /\ ~RefOf(url).accessed
  /\ Write(url, Dated(Current(url), edition, kind), HasExcerpt(kind))
  /\ Store(DocID(url), url, edition, kind)

(* Mutant: a document that changed keeps its record and its ID. *)
ReindexInPlace(url, edition, kind) ==
  /\ Known(url) /\ Lookup(url).accessed /\ Lookup(url).time # edition
  /\ Write(url, Dated(Current(url), edition, kind), HasExcerpt(kind))
  /\ Store(i_dbf[url], url, edition, kind)

(* A document that was retrieved before and has another date now: the old   *)
(* record becomes obsolete and a new one, with a new ID, takes the URL.     *)
Reindex(url, edition, kind) ==
  LET old == [Current(url) EXCEPT !.state = "obsolete"]
      new == Dated([NewRef(url) EXCEPT !.accessed = TRUE], edition, kind)
  IN /\ Known(url) /\ Lookup(url).accessed /\ Lookup(url).time # edition
     /\ isopen /\ nextDocID \in DocIDs
     /\ nextDocID' = nextDocID + 1
     /\ dbf' = [dbf EXCEPT ![i_dbf[url]] = old, ![nextDocID] = new]
     /\ h_dbf' = IF HasExcerpt(kind) THEN h_dbf \cup {nextDocID} ELSE h_dbf
     /\ i_dbf' = [i_dbf EXCEPT ![url] = nextDocID]
     /\ Store(nextDocID, url, edition, kind)
     /\ UNCHANGED <<isopen, savedDocID>>

Link == \E url \in URLs, described \in Described : LinkTo(url, described)

(* A page that was taken off the queue. *)
Page(url) ==
  \/ \E state \in States : NotRetrieved(url, state)
  \/ Redirected(url)
  \/ \E e \in Editions : \E kind \in Kinds[url][e] : Index(url, e, kind) \/ Reindex(url, e, kind)

-----------------------------------------------------------------------------
(* A posting whose ID has a record has the words of that record's own page: *)
(* of its URL and, the link text aside, of the edition it is dated with.    *)
(* No ID is ever given to a second document while words of the first are    *)
(* about, through digs, purges and merges, orphaned words included.         *)
PostingsTruthful ==
  \A p \in word_db :
    Stored(p[1]) => p[2][1] = dbf[p[1]].url /\ p[2][2] \in {LinkText, dbf[p[1]].time}

(* ... and no such ID will be given to one.                                 *)
PostingIDsSpent == \A p \in word_db : p[1] < Counter
=============================================================================
