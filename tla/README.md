# A TLA+ specification of hl://Dig

hl://Dig is a web site indexer: `hldig` walks sites from start URLs, stores a
record of every document and the words in it; other programs load, purge, merge
and dump those databases, and `hlsearch` answers queries from them. This
directory specifies the part of it where order, interruption, several tables
that must agree and a connection that outlives its requests make mistakes easy,
model-checks it with TLC on small instances, and proves with TLAPS, for every
site and configuration, the properties the rest stands on.

Source references below are to the files of the repository.

## 1. The system

| component | state it keeps | operations | with whom it interacts |
|---|---|---|---|
| Retriever (`hldig/Retriever.cc`, `hldig.cc`) | `visited`, the servers, the document in hand, `noSignal`, the md5 table, `url_log` | Initial, Start, parse_url, got_word, got_href, got_redirect, got_noindex; signal handler | takes URLs from Servers, reads and writes DocumentDB, fills HtWordList, is called back by the parsers |
| Server (`hldig/Server.cc`) | `_paths`, `_documents`, `_bad_server`, `_disallow` | construct (asks for robots.txt), push, pop, IsDead, delay | made by Retriever when the first URL of a host turns up |
| HtHeap (`hllib/HtHeap.cc`) | a vector of URLRefs | Add, Remove | the queue of a Server |
| Document (`hldig/Document.cc`) | the URL in hand, retries, contents | Retrieve, RetrieveHTTP | called by parse_url and by Server; drives Transport |
| Transport, HtHTTP, Connection (`hlnet/`) | the socket, its buffer, the response in hand | SetConnection, Request, HTTPRequest, ParseHeader, ReadBody, Flush, Close | one object for all servers, kept from URL to URL |
| cookie jar (`hlnet/HtCookieMemJar.cc`, `HtCookieInFileJar.cc`) | a list of cookies for each domain | AddCookie, SetHTTPRequest_CookiesString, Load | ParseHeader fills it, SetRequestCommand asks it |
| parsers (`hldig/HTML.cc`, ...) | a position in the text | parse | call Retriever back |
| DocumentDB (`hlcommon/DocumentDB.cc`) | three Berkeley DB tables, `nextDocID` | Open, Close, Add, Delete, NextDocID, look-ups, LoadDB, DumpDB | every program but hlsearch writes it |
| DocumentRef | one record | setters, AddDescription, Serialize | AddDescription writes to the word list |
| HtWordList (`hlcommon/HtWordList.cc`) | a buffer before the word database | Replace, Flush, Skip, Load, Dump | filled by got_word and AddDescription |
| hlload, hlpurge, hlmerge (`hltools/`) | lists of IDs, in memory, from one pass to the next | passes over the databases | DocumentDB, then the word database |
| word index (`hlword/`) | a B-tree of keys, counts of words | Put, Walk, Delete, Ref, Unref | below HtWordList; hlsearch, hlpurge and hlmerge walk it |
| Parser of queries (`hlsearch/hlsearch.cc`, `parser.cc`) | the words left, a stack of results, the phrase so far | setupWords, addRequiredWords, parse, perform_* | looks words up in the word index, documents up in DocumentDB |
| hlfuzzy, display | -- | -- | read only |

What is hard here: a signal may arrive between any two statements of the dig
loop, and the next process starts from what was saved; a URL reaches the queue
from five sources under several spellings; a document that changed exists twice
for a time; the word buffer is flushed by other calls than the one that filled
it; three tables and a counter are updated one after the other; the tools work
in two passes that only a list in memory connects; servers join the table the
loop is walking; hop counts arrive in any order; one connection carries the
answers of many requests, some of them never read to their end; a walk through
the word index jumps over keys by arithmetic on them; a query is evaluated as it
is read, with operands that may be absent, empty or to be ignored.
`PROJECT.json` lists each of these hazards at its line with the properties that
would catch it.

What makes each component correct:

- *Retriever*: a dig ends; it retrieves each URL once; it forgets none, or saves
  it for the next dig; what it stores describes the page it was read from.
- *Server*: limits and robots rules hold for everything that is retrieved.
- *HtHeap*: nothing is lost or repeated; the first item is the least.
- *Document and the network*: what comes back for a URL is its own answer, and
  a lost connection costs a request, not a document.
- *Cookies*: what a server sets comes back to the hosts it is meant for, once.
- *DocumentDB*: index, records and excerpts agree; IDs are never reused.
- *HtWordList*: words go to the document they came from, or nowhere.
- *The tools*: no document inherits words, what could be found stays found.
- *The word index*: a walk finds every match, once, in order.
- *Queries*: the documents found are those the query means.

## 2. The modules

| module | models |
|---|---|
| `DocumentDB` | the tables `dbf`, `i_dbf`, `h_dbf`, the counter in memory and on disk; one action per operation; `Next` is what its clients may do |
| `HtWordList` | the buffer and the word database; `AddDescription` of DocumentRef |
| `Server` | the servers of one process, their rules, limits and queues (as bags) |
| `Retriever` | `hldig`: composes the three by `INSTANCE` (`docs`, `wordList`, `srv`) |
| `URLQueue` | what a queue of URLs promises, abstractly: a bag |
| `HtHeap` | the heap as it is coded; shown to implement `URLQueue` |
| `hlload` | DocumentDB filled from a file by `LoadDB` |
| `Indexing` | DocumentDB and the words as a dig leaves them, a document per step |
| `hlpurge`, `hlmerge` | the two passes of the tools over the databases of `Indexing` |
| `Collection` | the life of a collection: digs, purges and merges, with kills between passes |
| `Retrieval` | what retrieving a URL promises, abstractly |
| `Connection`, `HtHTTP`, `Document` | the retrieval as it is coded; shown to implement `Retrieval` |
| `Cookies` | the jar, over `Document`: its lists, and which header fills them when |
| `WordKey` | keys of the word index: order, matching, prefix, difference, successor |
| `WordWalk` | what a walk promises, abstractly |
| `WordCursor` | the walk as it is coded; shown to implement `WordWalk` |
| `Parser` | hlsearch from the words of a query to the documents, over `WordCursor` |
| `Query` | what a query means, by splitting its text at the last operator |
| `DocumentDBProofs`, `RetrieverProofs`, `HtHeapProofs`, `IndexingProofs`, `CollectionProofs`, `RetrievalProofs`, `WordCursorProofs`, `QueryProofs` | theorems |
| `MC*` | small instances for TLC |

### DocumentDB

A table is a total function with a marker for a missing key, because Berkeley DB
gives exactly that. `savedDocID` is the record `NEXT_DOC_ID_RECORD` of `dbf`,
which `Open` reads and `Close` writes. `Delete` follows the code's early returns
(`Deletable`); that a missing excerpt does not stop it comes from
`DB2_db::Delete` handing back Berkeley's own code for "not found", which is not
`NOTOK`. `Next` is the contract with the clients: a new record is written under
an ID that `NextDocID` gave, and a record keeps its URL.

### Retriever

`pc` is the place in the code:

    idle -> initial -> round -> pick -> pop -> parse_url -> status
                         ^       |  ^    |                   |  |
                         |       |  |    +-- queue empty     |  parsing
                         +-------+  +------- or limit        |  |
                         |          ^                        v  v
                         v          +----------- pop <----- finish
                        exit -> close -> idle

Every stretch of code between two places is one action. The places are where the
outside can come in: a signal, the answer of a server, the next callback of a
parser. `StartRun` .. `CloseRun` is one process; the tables, the log and the
digests (`docs`, `word_db`, `url_log`, `md5_db`) stay on disk between two.

- `Initial` is asked for one URL of the current source; `NextSource` is the order
  of sources in `main`: log, database, start_url (or, with `-m`, log and file).
  `from` has the values of the code's argument, and 3 (`FromDocsAfterLog`) marks
  URLs as visited without queueing them, as the code does.
- `Round`, `Pick`, `Pop` and `ServerDone` are the three nested loops of `Start`.
  `Pop` takes the URL and only then looks at `noSignal`, as the `&&` of the inner
  condition does. The order of servers is that of a hash table, hence any; a
  server that appears during a round may be met in it or not.
- `ParseUrl` is the look-up, then one action per case of the switch on the
  retrieval's status (`NotChanged` .. `Redirect`, `Duplicate`, `NotModified`,
  `FirstRetrieval`, `Changed`). Cases that do the same are one action.
- `GotWord`, `GotHref`, `GotNoindex` happen in any order and number. The three
  outcomes of `got_href` (a link to the page itself, one beyond the hop limit, any
  other) are three actions.
- `fetched` and `accepted` are history: URLs `parse_url` took, URLs the queues took.

What is abstracted: a page is a digest and a version, its time stamp is the
version; words are one occurrence per document and source (the body of a
version, or link text); `Normal` stands for parsing and normalizing a URL;
`InLimits` for the configured patterns; a retrieval is the choice of a status
among those its server can give. Titles, metas, anchors, images, backlink
counts, `check_unique_date` and `store_phrases: false` change nothing the
properties look at. `use_doc_date` is off: with it a page tells its own date, which
is then what the next dig compares with the server's, and a change may be taken for
none, or the reverse. The list for `-m` comes from its file and without `-i`; the
trailing argument of `hldig`, which adds a list to a full dig, and `-i` together
with `-m` are not modelled. Whether a host allows persistent connections is
settled when it is registered, while in the code a later response may change it.

### HtHeap

Positions count from 1. `HtVector::Assign` inserts and then removes the displaced
element, which is replacement. `percolateUp` and `pushDownRoot` follow the node from
position to position, by a recursive function: each vector they give is the one
the rest of the way gives, with one more element moved. `smallerChild` has the
code's bound, `Count () - 1`.

### Indexing, hlpurge, hlmerge, Collection

`Retriever` has every step of a dig; for the life of the databases a document is
one step, which is sound because no other program has them open meanwhile.
`Indexing` gives what each outcome of `parse_url` leaves behind: the record, its
date, its excerpt, its words. A posting is a pair of a document ID and the
edition its words are from, so that words under the wrong document can be told.

`hlpurge` is `purgeDocs` one record at a time, then `purgeWords`; the discard list
also holds IDs `Delete` refused. `hlmerge` is `mergeDB` one URL at a time with the
offset, the two lists of duplicates and the counter, then the words; the list of
duplicates is asked for an empty key (see the run `merge_words`).
`Collection` runs the programs one at a time as the script `rundig` does, with a
second collection to merge. `Kill` ends a tool between its passes, when the
document database is closed. A kill while tables are open is left out: Berkeley
DB runs with a private pool and no log (`DB2_db::db_init`), so nothing is known
of the files then, and the code promises nothing.

### Connection, HtHTTP, Document

The stream is what the peer has sent and nobody has read: headers, lines of
bodies, empty lines, and the end of the connection, each with the answer it
belongs to. `arrived` separates the part that has come from what is on its way.
`Flush` empties the buffer, which holds any part of what has arrived and may end
in the middle of a line. `HtHTTP` has one action for each way through the code
between two reads: the command, the header (its line found, an empty line found
first, the end of the connection, a time-out), the body by length, by chunks or
to the end, up to `max_doc_size`. `Document` adds the retries. A server is
anything that keeps to HTTP; `HTTPAssumption` says what that is. Faults (`PeerCloses`
at any point, time-outs) are counted in `faults` and bounded by `MaxFaults`.

A failure in the middle of a body (`BodyDown`) leaves text behind, which
`Document::Retrieve` copies like any other, because the status line was good:
after a time-out (`BodyTimedOut`) what earlier calls of `Read` appended, any
number of pieces; where the peer closed in a chunk (`ChunksCut`), all that came
and then what the array on the stack held (`Stale`), for the short count is not
looked at and the chunk is filled up.

Pieces are whole. A line that a time-out or a close cuts is one `Read_Line` hands
out as if it were complete (`Connection.cc:557`), and only the next call finds the
connection down: a last header line may be read in part, or a chunk's size with
digits missing, before the loss shows. In the model the loss is immediate.

`Retrieval` is what the dig assumes: the text and status of an answer to this
URL, or a failure. The text may be cut. A lost connection may leave text as well,
no longer than `max_doc_size`: the beginning of an answer of this URL, with
anything behind it where a chunk was cut. The dig looks at the text of nothing but
`ok`, so it means nothing; that it is not another URL's shows that nothing else
was on the connection.

### Cookies

`Cookies` adds the jar to the steps of `Document`: `HeaderRead` is `ParseHeader`
or `NoHeader` with the cookies of the header it read, `HeaderCut` is `HeaderDown`
with as many as came; all other steps leave the jar alone. A domain is the
sequence of its labels, because everything the code asks of it (its periods, its
place in a host name, its tails) is a question about labels. `received` keeps what
came, so that `CookiesComeBack` can say what a request must carry without the jar.
The clock moves between retrievals. `disable_cookies` is off. The run `http` is of
`SpecCookies`, whose steps are steps of `Document` or leave its variables alone.

### WordKey, WordCursor, WordWalk

A word is its place in byte order, so that words with a common beginning are
neighbours and `\001` appended to a word is the place after it. Search keys
define any of the fields, with a whole word or a beginning. `WalkNextStep` has its
five ways: nothing more, a failure, past the prefix, skip, found. `JumpKey` is
`SkipUselessSequentialWalking`, `SetToFollowing` included; `Deleted` is what a
callback may do to the index under the cursor. hlsearch itself looks up whole
words, the tools walk everything; the partial keys, which make the jumps, are
for callers of the library. `Seek` and `WalkRewind` are not modelled.

### Parser, Query

`step` is the function of `parser.cc` that is running: `factor`, `phrase`, `term`;
the recursion of `expr` is the sequence `calls`, each entry with the operators
whose right operand is being read. `Ask` is `setupWords`, `addRequiredWords` and
the start of `parse`; each later action consumes a token or combines the two
results on top of `stack`. An operand is a list, `Ignored`, or `Null`, the code's
null pointer for a word that does not occur. `ignoredWords`, the static counter of
`perform_phrase`, outlives the query. Scores are left out, except that a list has a
document only where a score was given. The index of `WordCursor` is what words
are looked up in; a query runs while no walk does, since `Collect` ends its walk.

`Query` states the meaning of a text by its parts: a part with operators outside
of its brackets and phrases means what the last of them makes of the two parts
beside it, `|` before `&` and `!`; a bracket means what is in it (`Meaning`). The
code does nothing of the kind: it reads from left to right. `QueryMeaning` is of
the words the user gave, before substitutes, operators and keywords are put in.
`Queries` in `MCSearch` are trees written down with the brackets they need; an
assumption there has TLC compare `Meaning` with the meaning of each tree.

## 3. What is checked

Names of runs are those of `PROJECT.json`.

| run | instance | shows |
|---|---|---|
| `documents` | 2 URLs, 4 IDs | the tables and the counter agree after any sequence of operations; 14 thousand states |
| `heap` | 4 URLRefs of hop 0, 1, 1, 2, up to 6 waiting | no URL lost or repeated (refinement of `URLQueue`); ordered while it only grows |
| `dig` | 3 pages on 2 servers, 2 processes, `-m` or not, limit of 2 requests, hosts that vanish | every URL retrieved once, none forgotten, all that is reachable reached, hop counts real; 234 thousand states |
| `rerun` | 2 pages, 2 versions, `-i` or update, noindex, no parser, not changed | words and records belong together; the dig implements `DocumentDB` |
| `interrupted` | 3 pages, signals, robots rules, unreachable hosts, local files, `server_max_docs` 1 | at most the popped URL is dropped, the limit holds, and every dig ends (liveness) |
| `redirects` | cycles of links and redirects over 2 servers, frames, a mirror, md5, robots rules | one live record per URL, no contents twice, nothing forbidden is fetched, hop counts only fall; 459 thousand states |
| `collection` | 2 URLs, 2 editions, 2 digs, a purge and a merge of a second collection, kills | the tables agree in the middle of a merge too, no document gets another's words, no ID with words is given again, what could be found is still found, purged words are gone; 1.9 million states |
| `http` | 4 URLs on 3 servers, HEAD before GET on one, `max_doc_size` 2 lines, 2 requests, 2 faults; 2 cookies from headers, 2 from a file, one tick of the clock | answers belong to their URLs (refinement of `Retrieval`), the header is found whatever was left unread, only as many faults as requests cost a document, cookies come back where they are meant to, every retrieval ends; 353 thousand states |
| `search` | keys with 3 numbers (a document, a flag, 3 locations), 2 words of which one begins the other, 2 occurrences, all search keys, over 200 queries in any order | walks hand over what matches, in order (refinement of `WordWalk`), and move on; a query finds what it means; 2.6 million states |

Three runs end with a violation. Each is a place where the code does not do what
a comment of the repository says (`findings` has the quotations):

| run | property | what happens |
|---|---|---|
| `noindex_link` | `NoindexNotPosted` | words before a link in a noindex page are stored |
| `merge_words` | `MergedWordsLead` | the words of documents that were not merged are copied: the lists of duplicates are asked for an empty string |
| `load_replace` | `IndexConsistent` | a loaded record leaves the replaced record's URL in the index |

Every property of a passing run has a mutant: a definition named `...` after a
comment `Mutant:` that changes one operation the way a plausible bug would.

**Bounds.** `MaxRuns` 2: an effect of one process on a later one goes through the
disk, and what a second process leaves is of the same kind as what the first
left. `MaxVersion`, `MaxEdition` 2: old and new. Three pages on two servers are
the least with a link within a server, one across, and a cycle through both.
`MaxDocID` is large enough never to stop a dig in the runs that use it with
`NothingForgotten` or `DigEnds` (checked by hand with an invariant on
`nextDocID`); the IDs are an `int` in the code. `MaxHops` 1 or 2 is below the
length of the longest path. In `collection` the counter may reach 4 in a dig
before and 8 after a merge, 3 in the other collection: each URL can be found
anew, linked and replaced once. `http` also held, without
cookies, with 3 faults and 3 requests; two cookies are a first and a later edition.
`search`: the walk's part also held with three words, with 2 numbers up to 2 and
3 occurrences; 2 occurrences are enough for a match behind a key that is jumped
over, and for a phrase.

**Side conditions.** `FetchedOnce` needs start URLs in normal form: `Initial`
keeps the written form in `visited` and queues the normal one, so a page given
under two spellings is fetched twice. `LiveRecordsIndexed` is checked on sites
where no page redirects to itself; one that does leaves a record the index does
not lead to; the theorem has that as its hypothesis `NoSelfRedirect`.
`RetrievedIsCurrent` is for digs without `check_unique_md5`: with it a page that came
to equal another is skipped and keeps its old date. `EverythingRetrieved` speaks of
each URL the index knows within the limits: it was retrieved, or rules of its
server forbid it, or its server is bad and it is no local file. It is for digs
that no limit of documents cuts short, without signals (a log of an interrupted dig
is taken up with its URLs marked as visited). `ContentsOnce` needs `check_unique_md5`.
`FoundStaysFound` asks before a purge only for documents with an excerpt.
`AnswersAreOwn` is for URLs of one peer with one setting of
`persistent_connections` (`OneSetting`), which holds without a proxy.
`AnswerIsMeaning` is for queries the parser takes and that are not among those
listed below (`WellAsked`: the grammar, phrases that end, no ignored alternative in
brackets of the text that is read).

**Deadlock** is not checked for the Retriever and the Collection, because no
program need be run again; `DigEnds` says instead that a process which started
comes to an end.

**Fairness.** Retriever: `WF_vars(Run)`: the process is scheduled, and a parser
returns after finitely many callbacks (`ParserCall` itself is not fair, so a page
may have any number of words, but `RetrievedDocument` stays enabled and must
happen). Signals, changes of pages and starts of processes are never forced.
Retrievals end because the network code has timeouts. Document: `WF_vars(Step)`,
the code runs, and weak fairness of the network, which brings what was sent; `SpecCookies` has the same for the steps
with the jar. What was not sent the time-out of each read ends. No peer has to close.

### What the models showed of the code besides

Where documents and code disagree, no run of their own:

- a start page that a link led to earlier keeps the hop count of the link
  (`Retriever.cc:617`), while `attrs.html:7202` counts from the start page;
- `hldig -m` also retrieves what an interrupted dig logged (`Retriever.cc:101`),
  while `hldig.html:131` says only the given URLs are;
- the URL popped when a signal comes is not saved (`Retriever.cc:503`), while
  `attrs.html:12977` says the remaining ones are; `AtMostOneDropped` bounds it;
- after a Remove the heap need not have its least item first, because its last
  element is never compared (`HtHeap.cc:170` against `HtHeap.cc:4`).

Tools and databases: hlpurge leaves the record of an older edition whose newer
one went earlier in the pass, for `Delete` wants the index entry it shares;
hlmerge does not read the excerpt of a newer duplicate; a noindex page becomes
normal when it is dug again and has not changed (`PostingsTruthful`
only sees that it gets no other document's words); `LoadDB` moves the counter only
past greater IDs, so an equal one is handed out again.

Network: behind one proxy, where URLs of servers with different settings of
`persistent_connections` share the connection, a page can get the contents of
another, and documents can be lost without a fault (`HtHTTP.cc:361`). A 204 whose
connection stays open is waited for until it times out, each time. A body that
the peer cut short is taken as complete, but a chunked one is a lost connection. Bodies of other statuses than 200 and
the lines after the last chunk stay on a persistent connection; the flush before
the next command and the second GET on a new connection are what saves the next
document (`HeaderFound`). Status 300 is `not_found`.

Cookies: one that comes again keeps its value, and its date too, although the
comment has it updated (`HtCookie.cc:300`); a server cannot withdraw it, and an
edition without a date makes it last. A Max-Age is read as the time a cookie must
wait before it is sent (`HtCookieMemJar.cc:427`). A host of two labels outside the
seven top level domains never gets its own cookies back, and one without a dot
does.

Word index: the difference of two unsigned fields decides `Compare`, which turns
over at 2^31; `WordList::Put` counts an overwritten record again when
`wordlist_extend` is set; a walk that fails gives no list, and its cursor is not
freed, nor is the null list it hands `perform_phrase` tested.

Queries, none of them in the run's list:

- a phrase whose last word is ignored leaves `ignoredWords` behind, and the next
  phrase is looked for at the wrong distance, in the next collection or query of
  the same process too, although each has a new `Parser`, for the counter is
  static (`parser.cc:431`); `WellAsked` leaves these out, so `AnswerIsMeaning` does
  not catch it;
- in `(absent | the) & bar` the bracket counts as ignored, and all of `bar` is
  found (`parser.cc:852`), while with a word that occurs only in other fields,
  an empty list, it is not;
- a phrase of ignored words only is nothing rather than ignored;
- a word without substitutes is looked up in all fields, whatever field was
  asked for (`hlsearch.cc:833`); the run's word `foo` with a field has some;
- an unbalanced quote with match methods other than boolean reaches `setError`
  with no error texts loaded.

## 4. What is proved

`tlapm` checks everything below from the assumptions the modules state on their
constants and from nothing else; TLC evaluates those assumptions in every run.

*DocumentDBProofs.* The inductive invariant is the conjunction of `TypeOK`,
`NextIDFresh`, `IndexConsistent` and `ExcerptsOwned`: deleting needs all of them
at once, since what may go from the index and the excerpts depends on the record
under the same ID. `CounterNeverBack` follows step by step.

*RetrieverProofs.*

1. `TypeCorrect`: `Spec => []TypeOK`. Not inductive alone: a record is written
   with the ID and reference in hand, so the invariant adds which place in the
   code has a document (`current_ref # NoRef`, its `url` the URL in hand, its hop
   count within bounds), that a queue is only on a registered server, and that
   the server of the URL in hand is registered.
2. `ImplementsDocumentDB`: `Spec => DocsSpec`. Each action of hldig is a step of
   `DocumentDB!Next` or leaves its variables alone. The step that needs the
   invariant is `Finish`: the ID in hand is below the counter and its record, if
   there is one, has the URL in hand. With `DocumentDBProofs` it follows that the
   tables hldig leaves are consistent for every site and every number of runs.
3. `EachURLOnce`: `Spec => []FetchedOnce` for start URLs in normal form. The
   invariant counts: a URL is waiting at most once, is never both waiting and
   fetched or in hand, and everything waiting or fetched is in `visited`
   (`FromDocsFirst` does not ask `visited`, so it also says that until then only
   the database's URLs, each once, are in it).

*RetrieverProofs, from `Filling` on.* The steps between two looks at the queues only fill them
(`Filling`); `StepKinds` reduces `Next` to that and to the steps of the loop of
`Start`, and each theorem below is then a short case analysis.

4. `DigForgetsNothing`: `Spec => []NothingForgotten`. Two invariants need each
   other. `KeptInv`: what the queues took is retrieved, waiting, in hand or (after
   `SaveLog`) in the log, unless a signal may just have dropped it. `RoundInv`:
   while `more` is FALSE nothing was popped in this round, so what waits is at a
   server the round has still to look at. The last server of a round is left
   without a pop only if its queue is empty, because the limit of requests in a
   row is never 0 (`FirstRequest`; a configured 0 means 1).
5. `SignalDropsAtMostOne`: `Spec => []AtMostOneDropped`, from the same invariants:
   there is one URL `d` outside of what is kept, the one popped.
6. `RobotsRespected`: `Spec => []RobotsObeyed`. Rules are only learnt with the
   server they are for, and nothing of a server waits before it is registered.
7. `ServerLimitHolds`: `Spec => []WithinServerLimit`. `LimitInv`: what is waiting or
   fetched was accepted, and the URLs of a server that were accepted other than as
   targets of redirects are at most its counter `documents`, which `Push` compares
   with the limit.
8. `KnownAreTried`: `~Signals /\ MaxDocuments = -1 /\ Spec => []EverythingRetrieved`.
   What the index knows within the limits was accepted, was retrieved before, or is still to
   come from the database (`IndexedInv`); what is visited and not refused was
   accepted (`VisitedInv`), so no link to it is lost; and what is fetched has a
   retrieved record or is in hand (`TriedInv`). `NothingForgotten` says the rest.
   Without signals there is never a log, and the database is the first source
   (`SourcesInv`).
9. `HopsAreReal`: `Spec => []HopsReal`, for every site, frames and redirects that
   cost no hop included. `RealInv` says the same of the reference in hand, and that
   every URL that waits, is logged or is still to come has a record or is one the
   configuration names, so that the hop count 0 a new document gets is right.

*RetrieverProofs, second half: the word database.*

10. `BufferIsClean`: `Spec => []BufferOfThisPage`.
11. `PostingsAreDated`: `Spec => []PostingsMatchRecords`. Words reach the database
    while their document is in hand and its record on disk is old or missing;
    `PostInv` says which date a posting answers to at each place of `parse_url`:
    the stored one, the one of the reference in hand, or the page's while it is
    parsed. That a first retrieval may write under an ID that was only linked to
    needs `DatesInv` (a record that was never accessed has no date), and that a
    new edition finds its ID unused needs `NextIDFresh`.
12. `OneLiveRecord`: `NoSelfRedirect /\ Spec => []LiveRecordsIndexed`. `LiveInv` adds that
    the document in hand is the only one its URL may have a live record of, so
    `Finish` leaves no other behind when it takes the index entry.
13. `HopCountsOnlyFall`: `Spec => HopsNeverGrow`. `HopInv`: the hop count in hand is at
    most that of the record `Finish` will overwrite.
14. `RetrievedStaysCurrent`: `~CheckUniqueMD5 /\ Spec => []RetrievedIsCurrent`.
    `CurrentInv`: everything fetched is current except the document in hand, whose
    reference is once it is ready to be written.
15. `ContentsIndexedOnce`: `CheckUniqueMD5 /\ Spec => []ContentsOnce`. `ContentsInv`: the
    digest of whatever is posted or being parsed was seen, and no two postings
    have the same contents.

*IndexingProofs, CollectionProofs.* `IndexingProofs` shows that each step of a dig
keeps `DBInv`: the invariant of `DocumentDBProofs` and `WordsTrue`, which says that
the words of an edition are with a document of its URL (`PostingsTruthful`), that
every ID with words is below the counter (`PostingIDsSpent`), and that a document
that was never retrieved has no date. It is instantiated for the other collection
too.

16. `CollectionTypes`, `CollectionIDsFresh`, `CollectionIndexed`,
    `PostingsTellTheTruth`, `SpentIDsStaySpent`. Outside a merge both collections
    satisfy `DBInv`. In its middle the records hlmerge adds lie above the counter;
    `MergeInv` says instead that every record from the offset on is the shifted
    copy of one of the other collection (`Copies`), of a URL already merged. A
    purge that is killed leaves words without a document; that their IDs are spent
    is what keeps them from anyone else.
17. `PurgeTakesTheWords`: `Spec => []PurgedWordsGone`. `PurgeInv`: a stored record that
    a test of hlpurge's first pass takes is still to be looked at or on the list.
18. `WhatWasFoundStays`: `Spec => []FoundStaysFound`. `FoundInv` says at each step of a
    dig, a purge and a merge where a document that was found is, and that what
    can still happen to it leaves it, or a later edition: `Spared` by the tests
    of a purge, waiting to be merged (`Waits`), or indexed with its words here or
    among those still to be copied (`Survives`).

*RetrievalProofs.*

19. `OnlyOwnHeaders`, `HeaderAlwaysFound`, `AnswersBelong`. The invariant is
    `TypeOK /\ StreamInv`: between requests no header is on the connection
    (`NoHead`); while one is awaited every header there is one of an answer to the
    request in hand, with its own body behind it (`OwnHeads`); on a connection
    that nothing older can be left on (`Fresh`) it comes first; and what a request
    returned is such an answer, or a failure with no text but what a lost connection
    left of such an answer (`Outcome`, `TextLeft`). So every step implements
    `Retrieval`, for any servers, answers, faults and retries.
20. `FaultsAreTolerated`: `Spec => []FaultsTolerated`. `FaultsInv`: faults are at least
    the requests given up, and if no more than these then nothing has disturbed the
    request in hand: the connection holds all that is sent for it, so it cannot
    fail. One case needs the other invariant: a new GET on a new connection finds
    its header, so a lost header is always a fault.
21. `CookiesDisturbNothing`: the above of `SpecCookies`, the specification of the run.
22. `CookiesReturn`: `EndsOnly => (SpecCookies => []CookiesComeBack)`. `JarOK` relates
    the lists of the jar to what was received: every cookie received has an entry in
    the list of what it is meant for, every entry is the first edition of one with
    the date of one of its editions (`Keeps`), and no two entries are editions of
    each other. What is sent is the entries of the domains a host is in, each once
    (`SentFacts`, from what FlattenSeq does, `FlattenFacts`). `EndsOnly` is needed:
    the jar takes a domain that is anywhere in the name of the host for valid
    (`HtCookieMemJar.cc:214`). `MCDocument` assumes it, so TLC evaluates it there.

*HtHeapProofs.*

23. `GrowsInOrder`: `Spec => []OrderedWhileGrowing`, for any hop counts and size.
24. `HeapIsQueue`: `Spec => QueueSpec`. Moving an element through the vector permutes
    it: percolateUp and pushDownRoot are both a move from position to position
    along which a measure falls (`Downhill`). That a recursive function along such
    a way exists, and what it gives, is proved by the least position for which it
    would not (`MovesExist`, `MovesPermute`).

*WordCursorProofs.*

25. `JumpFacts`: the key a walk jumps to is above the one found, and no key
    between them matches. `LowerJump` and `GreaterJump` are its halves: zeroes
    after the difference, or a carry through full fields up to the word.
26. `TypeCorrect`, `NothingSkippedTheorem`, `CursorAdvancesTheorem` and
    `WalkKeepsPromiseTheorem` (the refinement of `WordWalk`) from `WalkInv`: the
    types, `NothingSkipped`, and that the cursor is not before the first key the
    walk looked for.
27. `SearchesAreWalks`: evaluating queries leaves index and walks alone, so these
    hold of `SearchSpec`.
28. `OperandsAreThere`: `SearchSpec => []OperandsThere`: no operator takes an operand
    that is not there, for any queries, whatever words are ignored or do not occur.
    `StackInv`: the stack has one operand for each operator that was read and not
    performed, in all open calls together, and one more behind a factor.

*WordCursorProofs, from `UpTo` on, and QueryProofs.*

29. `AnswersAreMeanings`: `WellAsked => (SearchSpec => []AnswerIsMeaning)`, for any
    index, words, substitutes and keywords and queries of any length and depth.
    `WellAsked` is about the constants `Queries` and `Fuzzy` only, and TLC evaluates
    it in the run. The first half (`ReadHolds`) is about the parser: at each step
    the open calls of `expr`, each with the place it began at and its last `|`, and
    the results on the stack stand for the meaning of the parts between these
    places (`Frames`, `Read`), and in a phrase the occurrences kept are those with
    all words so far at their distances, the ignored ones counted (`PhraseRead`).
    When the text is read its last call has the meaning of all of it. An
    ignored alternative beside a word that is found nowhere gives a result that
    passes for ignored: outside of all brackets only its documents count
    (`Stands`), elsewhere `WellAsked` rules it out (`Denotes`).
    The second half is about the text: `FlattenSeq` lays the pieces out one behind
    the other (`FlattenLays`), each word that was looked up becomes an operand
    (`BlockOperand`), brackets and phrases stay where they were (`Embeds`), so a
    part of the query has its last operator where the text has it (`LastMoves`) and
    means the same (`SpanMeans`); a list is a chain of operands (`ListMeans`), the
    keywords are one more operand behind brackets (`RequiredMeans`). Induction over
    places is `UpTo`: a set of numbers with 0 and each successor. Parts are shorter
    than the part they split, so the least one that would mean something else
    has none.

Only model-checked: liveness (`DigEnds`, `RetrievalEnds`), which the prover cannot
do.

## 5. Not modelled, and the plan

`PROJECT.json` gives the status of every component. In the order of their weight:

1. *Queries*: syntax errors and `checkSyntax`, several collections in one query,
   the newer query tree behind `qtest`.
2. *Words*: the counts of words, `Seek` and the rewinding of walks.
3. *Pure algorithms*: path normalization of `URL`, the dates of hlnotify, the
   noindex regions of the HTML parser.

Vendored code (Berkeley DB, regex, zlib), generated parsers, display templates,
`hlfuzzy`'s word transformations, the PHP binding, `contrib` and the documents
are left out: they hold no protocol, or are copies. They are most of the lines
of the repository.
