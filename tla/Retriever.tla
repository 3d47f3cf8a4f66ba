----------------------------- MODULE Retriever -----------------------------
(***************************************************************************)
(* hldig: hldig/Retriever.cc with the databases and servers it drives.     *)
(*                                                                         *)
(* A process (StartRun .. CloseRun) opens the databases, fills the queues  *)
(* of the servers from the log of an interrupted dig, from the document    *)
(* database and from start_url, and then takes URLs off the queues until   *)
(* they are empty or a signal arrives.  For each URL parse_url finds or    *)
(* makes its DocumentRef, retrieves the page, lets the parser call back    *)
(* (got_word, got_href, got_noindex), and writes the reference back.       *)
(* Between two processes pages change, and the tables stay on disk.        *)
(*                                                                         *)
(* The program counter pc is the place in the code; every stretch between  *)
(* two places is one action.  A signal may come between any two of them.   *)
(***************************************************************************)
EXTENDS Integers, FiniteSets

CONSTANTS
  URLs, Servers, ServerOf, Disallowed, LocalURLs, RobotsReplies,
  KeepAliveReplies, MaxDocuments, MaxRequests,     \* see Server
  StartURLs,        \* start_url, as written in the configuration
  MinimalURLs,      \* the file of hldig -m
  Normal,           \* Normal[r], the normal form of a written URL r
  InLimits,         \* written or normal URLs that pass the configured limits
  Statuses,         \* what a retrieval may come to
  Directives,       \* what a retrieved page may demand
  Links,            \* Links[u], the pages u may link to
  LinkHops,         \* the hops a link may cost: 1, or 0 for a frame
  Descriptions,     \* the texts links may have, see HtWordList
  Redirects,        \* Redirects[u], the pages u may redirect to
  Body,             \* Body[u][v], the digest of version v of u
  NoBody,           \* the digest slot of a page without contents
  MaxVersion,       \* bound: how often a page changes
  MaxHops,          \* max_hop_count
  CheckUniqueMD5,   \* check_unique_md5
  MarkDeadServers,  \* ignore_dead_servers
  Modes,            \* the ways hldig may be called
  Signals,          \* whether signals arrive
  MaxRuns,          \* bound: how many processes
  MaxDocID, NoRef, NoURL, NoServer

Versions == 1 .. MaxVersion
NoTime == 0        \* DocTime of a document that was never retrieved
LinkText == 0      \* the source of link words in the word database

States == {"normal", "not_found", "noindex", "obsolete"}

DocumentRefs == [url : URLs, state : States, time : 0 .. MaxVersion,
                 accessed : BOOLEAN, hop : 0 .. MaxHops]

WrittenURLs == URLs \cup StartURLs

ASSUME RetrieverAssumption ==
  /\ Normal \in [WrittenURLs -> URLs] /\ \A u \in URLs : Normal[u] = u
  /\ MinimalURLs \subseteq URLs /\ Disallowed \subseteq URLs /\ LocalURLs \subseteq URLs
  /\ InLimits \subseteq WrittenURLs
  /\ Statuses \subseteq {"ok", "not_changed", "not_found", "no_host",
                         "not_parsable", "redirect"}
  /\ Directives \subseteq {"noindex", "no_parser"}
  /\ LinkHops \subseteq {0, 1}
  /\ Descriptions \subseteq {"empty", "short", "words"}
  /\ Links \in [URLs -> SUBSET URLs] /\ Redirects \in [URLs -> SUBSET URLs]
  /\ MaxVersion \in Nat \ {0} /\ MaxHops \in Nat /\ MaxRuns \in Nat
  /\ {CheckUniqueMD5, MarkDeadServers, Signals} \subseteq BOOLEAN
  /\ Modes \subseteq {"initial", "update", "minimal"}
  /\ NoRef \notin DocumentRefs
  /\ NoURL \notin URLs /\ NoServer \notin Servers

VARIABLES
  isopen, nextDocID, savedDocID, dbf, i_dbf, h_dbf,            \* DocumentDB
  words, word_db,                                              \* HtWordList
  servers, bad, disallow, persistent, documents, queued,       \* Server
  md5_db,           \* the digests seen, on disk
  url_log,          \* the URLs in the log of an interrupted dig, on disk
  version,          \* version[u], the page as its server has it now
  runs, mode,       \* the processes so far, how this one was called
  pc,               \* where the process is
  from, todo,       \* Initial: the source of the URLs, those still to do
  visited,          \* URLs seen in this process, as they were added
  noSignal, more,   \* the flags of Start
  remaining,        \* the servers this round has still to look at
  server, count,    \* the server being served, the URLs taken from it
  urlref,           \* the URL in hand
  current_id, current_ref, old_document, headIsSet,   \* its document
  fetched, accepted \* history: URLs parse_url took, URLs the queues took

docVars == <<isopen, nextDocID, savedDocID, dbf, i_dbf, h_dbf>>
wordVars == <<words, word_db>>
serverVars == <<servers, bad, disallow, persistent, documents, queued>>
diskVars == <<md5_db, url_log, version>>
loopVars == <<runs, mode, from, todo, noSignal, more, remaining, server, count>>
refVars == <<urlref, current_id, current_ref, old_document, headIsSet>>
history == <<fetched, accepted>>

vars == <<docVars, wordVars, serverVars, diskVars, loopVars, refVars, history,
          pc, visited>>

docs == INSTANCE DocumentDB WITH Refs <- DocumentRefs
wordList == INSTANCE HtWordList
              WITH Occurrences <- docs!DocIDs \X (0 .. MaxVersion)
srv == INSTANCE Server

(* The components' own assumptions; those of DocumentDB on Refs follow. *)
ASSUME ComponentsAssumption ==
  /\ MaxDocID \in Nat /\ MaxDocID >= docs!FirstDocID
  /\ ServerOf \in [URLs -> Servers]
  /\ RobotsReplies \subseteq {"rules", "none", "unreachable"}
  /\ KeepAliveReplies \subseteq BOOLEAN
  /\ MaxDocuments \in Nat \cup {-1} /\ MaxRequests \in Nat \cup {-1}

Places == {"idle", "initial", "round", "pick", "pop", "parse_url", "status",
           "parsing", "finish", "exit", "close"}

FromDocsFirst == 0   \* the values of Initial's argument from
FromStart == 1
FromLog == 2
FromDocsAfterLog == 3

TypeOK ==
  /\ docs!TypeOK
  /\ wordList!TypeOK
  /\ srv!TypeOK
  /\ md5_db \subseteq UNION {{Body[u][v] : v \in Versions} : u \in URLs}
  /\ url_log \subseteq URLs
  /\ version \in [URLs -> Versions]
  /\ runs \in 0 .. MaxRuns /\ mode \in Modes \cup {"none"}
  /\ pc \in Places
  /\ from \in {FromDocsFirst, FromStart, FromLog, FromDocsAfterLog}
  /\ todo \subseteq WrittenURLs /\ visited \subseteq WrittenURLs
  /\ noSignal \in BOOLEAN /\ more \in BOOLEAN
  /\ remaining \subseteq Servers
  /\ server \in Servers \cup {NoServer} /\ count \in Nat
  /\ urlref \in URLs \cup {NoURL}
  /\ current_id \in docs!DocIDs \cup {docs!NoDocID}
  /\ current_ref \in DocumentRefs \cup {NoRef}
  /\ old_document \in BOOLEAN /\ headIsSet \in BOOLEAN
  /\ fetched \subseteq URLs /\ accepted \subseteq URLs

NoDocument ==
  /\ urlref' = NoURL
  /\ current_id' = docs!NoDocID
  /\ current_ref' = NoRef
  /\ old_document' = FALSE
  /\ headIsSet' = FALSE

Init ==
  /\ docs!Init /\ wordList!Init /\ srv!Init
  /\ md5_db = {} /\ url_log = {} /\ version = [u \in URLs |-> 1]
  /\ runs = 0 /\ mode = "none" /\ pc = "idle"
  /\ from = FromLog /\ todo = {} /\ visited = {}
  /\ noSignal = TRUE /\ more = FALSE
  /\ remaining = {} /\ server = NoServer /\ count = 0
  /\ urlref = NoURL /\ current_id = docs!NoDocID /\ current_ref = NoRef
  /\ old_document = FALSE /\ headIsSet = FALSE
  /\ fetched = {} /\ accepted = {}

-----------------------------------------------------------------------------
(* The world between two digs: a page gets a new version. *)
PageChange(u) ==
  /\ pc = "idle"
  /\ version[u] < MaxVersion
  /\ version' = [version EXCEPT ![u] = @ + 1]
  /\ UNCHANGED <<docVars, wordVars, serverVars, md5_db, url_log, loopVars,
                 refVars, history, pc, visited>>

(* SIGINT, SIGTERM, ...: the handler only clears the flag.  The handlers    *)
(* are installed by Start.                                                  *)
Signal ==
  /\ Signals
  /\ noSignal
  /\ pc \notin {"idle", "initial", "exit", "close"}
  /\ noSignal' = FALSE
  /\ UNCHANGED <<docVars, wordVars, serverVars, diskVars, runs, mode, from, todo,
                 more, remaining, server, count, refVars, history, pc, visited>>

-----------------------------------------------------------------------------
(* main: hldig -i unlinks the databases and the log first.  The constructor *)
(* of Retriever reads the log and removes it.                               *)
StartRun(m) ==
  /\ pc = "idle"
  /\ runs < MaxRuns
  /\ runs' = runs + 1
  /\ mode' = m
  /\ IF m = "initial"
     THEN docs!OpenErased /\ word_db' = {} /\ md5_db' = {} /\ todo' = {}
     ELSE docs!Open /\ UNCHANGED <<word_db, md5_db>> /\ todo' = url_log
  /\ url_log' = {}
  /\ from' = FromLog
  /\ pc' = "initial"
  /\ UNCHANGED <<words, serverVars, version, noSignal, more, remaining, server,
                 count, refVars, history, visited>>

(* IsValidURL: the configured limits, then the robots rules of a server     *)
(* that is registered (disallow is empty for one that is not).              *)
IsValidURL(u, forbidden) == u \in InLimits /\ Normal[u] \notin forbidden

(* Mutant of what follows: a URL that is queued is not remembered. *)
MarkNothing(u) == UNCHANGED visited

Mark(u) == visited' = visited \cup {u}

(* Initial (url, from): the server is looked up under the normal form and   *)
(* constructed for any URL; visited is asked, and told, the URL as written, *)
(* while the normal form is pushed.                                         *)
Initial(url) ==
  /\ pc = "initial"
  /\ url \in todo
  /\ todo' = todo \ {url}
  /\ srv!Register(ServerOf[Normal[url]])
  /\ IF (from # FromDocsFirst /\ url \in visited) \/ ~IsValidURL(url, disallow')
     THEN UNCHANGED <<documents, queued, visited>>
     ELSE /\ IF from # FromDocsAfterLog THEN srv!Push(Normal[url], TRUE)
                                        ELSE UNCHANGED <<documents, queued>>
          /\ Mark(url)
  /\ accepted' = accepted \cup {u \in URLs : queued'[u] > queued[u]}
  /\ UNCHANGED <<docVars, wordVars, diskVars, runs, mode, from, noSignal, more,
                 remaining, server, count, refVars, fetched, pc>>

(* The next source of URLs in main; with -m only the log and the file. *)
NextSource ==
  /\ pc = "initial"
  /\ todo = {}
  /\ CASE from = FromLog /\ mode = "minimal" ->
            from' = FromStart /\ todo' = MinimalURLs
       [] from = FromLog /\ mode # "minimal" ->
            /\ from' = IF visited = {} THEN FromDocsFirst ELSE FromDocsAfterLog
            /\ todo' = docs!IndexedURLs
       [] from \in {FromDocsFirst, FromDocsAfterLog} ->
            from' = FromStart /\ todo' = StartURLs
       [] OTHER -> FALSE
  /\ UNCHANGED <<docVars, wordVars, serverVars, diskVars, runs, mode, noSignal,
                 more, remaining, server, count, refVars, history, pc, visited>>

(* Start: the flags are set and the loop entered. *)
Start ==
  /\ pc = "initial"
  /\ todo = {}
  /\ from = FromStart
  /\ noSignal' = TRUE
  /\ more' = TRUE
  /\ pc' = "round"
  /\ UNCHANGED <<docVars, wordVars, serverVars, diskVars, runs, mode, from, todo,
                 remaining, server, count, refVars, history, visited>>

-----------------------------------------------------------------------------
(* Mutant: there is one round only. *)
RoundOnce ==
  /\ pc = "round"
  /\ IF more /\ noSignal /\ fetched = {}
     THEN more' = FALSE /\ remaining' = servers /\ pc' = "pick"
     ELSE UNCHANGED <<more, remaining>> /\ pc' = "exit"
  /\ UNCHANGED <<docVars, wordVars, serverVars, diskVars, runs, mode, from, todo,
                 noSignal, server, count, refVars, history, visited>>

(* Mutant: more is not reset. *)
RoundMoreStays ==
  /\ pc = "round"
  /\ IF more /\ noSignal
     THEN UNCHANGED more /\ remaining' = servers /\ pc' = "pick"
     ELSE UNCHANGED <<more, remaining>> /\ pc' = "exit"
  /\ UNCHANGED <<docVars, wordVars, serverVars, diskVars, runs, mode, from, todo,
                 noSignal, server, count, refVars, history, visited>>

(* while (more && noSignal): a new round over the servers, or out. *)
Round ==
  /\ pc = "round"
  /\ IF more /\ noSignal
     THEN more' = FALSE /\ remaining' = servers /\ pc' = "pick"
     ELSE UNCHANGED <<more, remaining>> /\ pc' = "exit"
  /\ UNCHANGED <<docVars, wordVars, serverVars, diskVars, runs, mode, from, todo,
                 noSignal, server, count, refVars, history, visited>>

(* Get_NextElement () && noSignal: the servers come in the order of a hash  *)
(* table; one registered during the round may still be met in it or not.    *)
Pick ==
  /\ pc = "pick"
  /\ \/ /\ noSignal
        /\ \E s \in remaining : server' = s /\ remaining' = remaining \ {s}
        /\ count' = 0
        /\ pc' = "pop"
     \/ /\ remaining = {} \/ ~noSignal
        /\ server' = NoServer
        /\ remaining' = {}
        /\ count' = 0
        /\ pc' = "round"
  /\ UNCHANGED <<docVars, wordVars, serverVars, diskVars, runs, mode, from, todo,
                 noSignal, more, refVars, history, visited>>

MayRequest == LET limit == srv!RequestsInARow(server) IN limit = -1 \/ count < limit

(* The inner loop's condition: the limit of requests, then pop, and only    *)
(* then noSignal.  A URL popped after the signal is dropped.                *)
Pop ==
  /\ pc = "pop"
  /\ MayRequest
  /\ \E u \in srv!Waiting(server) :
       /\ srv!Pop(u)
       /\ IF noSignal
          THEN /\ urlref' = u
               /\ more' = TRUE
               /\ count' = IF srv!RequestsInARow(server) = -1 THEN 0 ELSE count + 1
               /\ pc' = "parse_url"
          ELSE /\ UNCHANGED <<urlref, more, count>>
               /\ pc' = "pick"
  /\ UNCHANGED <<docVars, wordVars, diskVars, runs, mode, from, todo, noSignal,
                 remaining, server, current_id, current_ref, old_document,
                 headIsSet, history, visited>>

ServerDone ==
  /\ pc = "pop"
  /\ ~MayRequest \/ srv!Waiting(server) = {}
  /\ pc' = "pick"
  /\ UNCHANGED <<docVars, wordVars, serverVars, diskVars, loopVars, refVars,
                 history, visited>>

-----------------------------------------------------------------------------
(* Mutant: a link costs no hop. *)
NewRefAtZero(u, hop) == [url |-> u, state |-> "normal", time |-> NoTime,
                         accessed |-> FALSE, hop |-> 0]

NewRef(u, hop) == [url |-> u, state |-> "normal", time |-> NoTime,
                   accessed |-> FALSE, hop |-> hop]

(* parse_url up to the retrieval: the reference in the database, or a new   *)
(* one with an ID of its own.  A URL that is not in the database was pushed *)
(* by Initial, with hop count 0.                                            *)
ParseUrl ==
  /\ pc = "parse_url"
  /\ IF docs!Known(urlref)
     THEN /\ current_id' = i_dbf[urlref]
          /\ current_ref' = [docs!Lookup(urlref) EXCEPT !.accessed = TRUE,
                                                        !.state = "normal"]
          /\ old_document' = docs!Lookup(urlref).accessed
          /\ UNCHANGED docVars
     ELSE /\ docs!NextDocID
          /\ UNCHANGED <<dbf, i_dbf, h_dbf>>
          /\ current_id' = nextDocID
          /\ current_ref' = [NewRef(urlref, 0) EXCEPT !.accessed = TRUE]
          /\ old_document' = FALSE
  /\ headIsSet' = FALSE
  /\ fetched' = fetched \cup {urlref}
  /\ pc' = "status"
  /\ UNCHANGED <<wordVars, serverVars, diskVars, loopVars, urlref, accepted,
                 visited>>

(* Which answers can come: an unreachable server gives none, a local file   *)
(* only the document or "not changed".                                      *)
Reachable == ServerOf[urlref] \notin bad
Answers(status) == status \in Statuses /\ (Reachable \/ urlref \in LocalURLs)

AtStatus == pc = "status" /\ UNCHANGED <<diskVars, loopVars, fetched>>

(* The cases of the switch that only set the state of the reference. *)
Outcome(state) ==
  /\ current_ref' = [current_ref EXCEPT !.state = state]
  /\ wordList!Skip
  /\ pc' = "finish"
  /\ UNCHANGED <<docVars, urlref, current_id, old_document, headIsSet, accepted,
                 visited>>

(* Document_not_changed answers the date of the last retrieval. *)
NotChanged ==
  /\ AtStatus
  /\ Answers("not_changed")
  /\ current_ref.time # NoTime /\ current_ref.time = version[urlref]
  /\ Outcome(current_ref.state)
  /\ UNCHANGED serverVars

(* Document_not_found, _not_authorized, _not_local, _no_header,             *)
(* _connection_down, _no_connection, _other_error                           *)
NotFound ==
  /\ AtStatus
  /\ "not_found" \in Statuses /\ Reachable
  /\ Outcome("not_found")
  /\ UNCHANGED serverVars

(* Document_no_host, _no_port, _not_recognized_service: the server may be   *)
(* written off.  Also what is assumed of a server that already is.          *)
NoHost ==
  /\ AtStatus
  /\ "no_host" \in Statuses \/ ~Reachable
  /\ Outcome("not_found")
  /\ IF MarkDeadServers THEN srv!MarkDead(ServerOf[urlref])
                        ELSE UNCHANGED serverVars

NotParsable ==
  /\ AtStatus
  /\ "not_parsable" \in Statuses /\ Reachable
  /\ Outcome("noindex")
  /\ UNCHANGED serverVars

-----------------------------------------------------------------------------
(* The server of a URL is looked up, made if it is new, and the URL pushed, *)
(* unless it was visited.  It counts as visited even when push refuses it.  *)
Enqueue(u, newDoc) ==
  /\ IF u \in visited
     THEN UNCHANGED <<serverVars, visited, remaining>>
     ELSE /\ srv!Register(ServerOf[u])
          /\ srv!Push(u, newDoc)
          /\ Mark(u)
          /\ \/ UNCHANGED remaining
             \/ ServerOf[u] \notin servers /\ remaining' = remaining \cup {ServerOf[u]}
  /\ accepted' = accepted \cup {v \in URLs : queued'[v] > queued[v]}

(* Mutant: the hop count is that of the last link. *)
LowerOrRaise(ref, hop) == [ref EXCEPT !.hop = hop]

Lower(ref, hop) == [ref EXCEPT !.hop = IF @ > hop THEN hop ELSE @]

(* Mutant: one hop too many. *)
HopLimitPlusOne == IF mode = "minimal" THEN 0 ELSE MaxHops + 1

HopLimit == IF mode = "minimal" THEN 0 ELSE MaxHops   \* -m sets max_hop_count

(* Document_redirect and got_redirect: the page at hand becomes obsolete,   *)
(* the target inherits its hop count and link descriptions and is written   *)
(* and queued.  A server's limit of documents does not hold for it.         *)
Redirect(target, description) ==
  /\ pc = "status"
  /\ "redirect" \in Statuses /\ Reachable
  /\ target \in Redirects[urlref]
  /\ current_ref' = [current_ref EXCEPT !.state = "obsolete"]
  /\ words' = {}
  /\ LET found == docs!Known(target)
         id == IF found THEN i_dbf[target] ELSE nextDocID
     IN IF ~IsValidURL(target, disallow)
        THEN UNCHANGED <<docVars, word_db, serverVars, visited, remaining, accepted>>
        ELSE /\ IF found
                THEN docs!Add(id, Lower(docs!Lookup(target), current_ref.hop), FALSE)
                ELSE docs!NextDocIDAndAdd(id, NewRef(target, current_ref.hop), FALSE)
             /\ word_db' = IF description = "words"
                           THEN word_db \cup {<<id, LinkText>>} ELSE word_db
             /\ Enqueue(target, FALSE)
  /\ pc' = "finish"
  /\ UNCHANGED <<diskVars, runs, mode, from, todo, noSignal, more, server, count,
                 urlref, current_id, old_document, headIsSet, fetched>>

-----------------------------------------------------------------------------
(* Document_ok.  With check_unique_md5 the digest of a page that has        *)
(* contents is looked up, and written before anything else is decided.      *)

Digest == Body[urlref][version[urlref]]

Digested == CheckUniqueMD5 /\ Digest # NoBody

Retrieved ==
  /\ pc = "status"
  /\ Answers("ok")
  /\ md5_db' = IF Digested THEN md5_db \cup {Digest} ELSE md5_db
  /\ UNCHANGED <<url_log, version, serverVars, loopVars, urlref, fetched,
                 accepted, visited>>

(* Mutant: only what was retrieved before is compared. *)
IsDuplicateOfOld == Digested /\ Digest \in md5_db /\ old_document

IsDuplicate == Digested /\ Digest \in md5_db

Duplicate ==
  /\ Retrieved
  /\ IsDuplicate
  /\ Outcome(current_ref.state)

(* Mutant: the dates are not compared. *)
NotModifiedUndated ==
  /\ Retrieved
  /\ ~IsDuplicate
  /\ old_document
  /\ Outcome(current_ref.state)

NotModified ==
  /\ Retrieved
  /\ ~IsDuplicate
  /\ old_document /\ version[urlref] = current_ref.time
  /\ Outcome(current_ref.state)

(* RetrievedDocument starts: no parser for the type means noindex, and what *)
(* the buffer holds is skipped.                                             *)
Parse(ref, parser) ==
  /\ parser \/ "no_parser" \in Directives
  /\ current_ref' = IF parser THEN ref ELSE [ref EXCEPT !.state = "noindex"]
  /\ headIsSet' = FALSE
  /\ pc' = IF parser THEN "parsing" ELSE "finish"

FirstRetrieval(parser) ==
  /\ Retrieved
  /\ ~IsDuplicate
  /\ ~old_document
  /\ Parse(current_ref, parser)
  /\ IF parser THEN UNCHANGED wordVars ELSE wordList!Skip
  /\ UNCHANGED <<docVars, current_id, old_document>>

(* Mutant: a document that changed keeps its ID. *)
ChangedInPlace(parser) ==
  /\ Retrieved
  /\ ~IsDuplicate
  /\ old_document /\ version[urlref] # current_ref.time
  /\ Parse(current_ref, parser)
  /\ wordList!Skip
  /\ UNCHANGED <<docVars, current_id, old_document>>

(* Mutant: the old record stays as it is. *)
ChangedOldStays(parser) ==
  /\ Retrieved
  /\ ~IsDuplicate
  /\ old_document /\ version[urlref] # current_ref.time
  /\ docs!NextDocIDAndAdd(current_id, current_ref, FALSE)
  /\ current_id' = nextDocID
  /\ Parse([NewRef(urlref, current_ref.hop) EXCEPT !.accessed = TRUE], parser)
  /\ wordList!Skip
  /\ UNCHANGED old_document

(* A document that changed gets a new ID; its old record becomes obsolete. *)
Changed(parser) ==
  /\ Retrieved
  /\ ~IsDuplicate
  /\ old_document /\ version[urlref] # current_ref.time
  /\ docs!NextDocIDAndAdd(current_id, [current_ref EXCEPT !.state = "obsolete"], FALSE)
  /\ current_id' = nextDocID
  /\ Parse([NewRef(urlref, current_ref.hop) EXCEPT !.accessed = TRUE], parser)
  /\ wordList!Skip
  /\ UNCHANGED old_document

-----------------------------------------------------------------------------
(* What the parser calls back with, in any order and number. *)

InDocument ==
  /\ pc = "parsing"
  /\ UNCHANGED <<diskVars, runs, mode, from, todo, noSignal, more, server, count,
                 urlref, current_id, old_document, headIsSet, fetched, pc>>

GotWord ==
  /\ InDocument
  /\ wordList!Replace(<<current_id, version[urlref]>>)
  /\ UNCHANGED <<docVars, serverVars, remaining, current_ref, accepted, visited>>

GotNoindex ==
  /\ InDocument
  /\ "noindex" \in Directives
  /\ current_ref' = [current_ref EXCEPT !.state = "noindex"]
  /\ UNCHANGED <<docVars, wordVars, serverVars, remaining, accepted, visited>>

(* A link of the page to itself only adds to its reference. *)
GotHrefToSelf(description) ==
  /\ InDocument
  /\ urlref \in Links[urlref] /\ IsValidURL(urlref, disallow)
  /\ wordList!AddDescription(current_id, description)
  /\ UNCHANGED <<docVars, serverVars, remaining, current_ref, accepted, visited>>

(* A link beyond max_hop_count still describes a document that is known. *)
GotHrefTooFar(u, description, hops) ==
  /\ InDocument
  /\ u \in Links[urlref] \ {urlref} /\ IsValidURL(u, disallow)
  /\ current_ref.hop + hops > HopLimit
  /\ docs!Known(u)
  /\ wordList!AddDescription(i_dbf[u], description)
  /\ UNCHANGED <<docVars, serverVars, remaining, current_ref, accepted, visited>>

(* Any other link: its document is found or made, described, written with   *)
(* the smaller hop count, and queued.                                       *)
GotHref(u, description, hops) ==
  /\ InDocument
  /\ u \in Links[urlref] \ {urlref} /\ IsValidURL(u, disallow)
  /\ LET hop == current_ref.hop + hops
         found == docs!Known(u)
         id == IF found THEN i_dbf[u] ELSE nextDocID
     IN /\ hop <= HopLimit
        /\ wordList!AddDescription(id, description)
        /\ IF found THEN docs!Add(id, Lower(docs!Lookup(u), hop), FALSE)
                    ELSE docs!NextDocIDAndAdd(id, NewRef(u, hop), FALSE)
  /\ Enqueue(u, TRUE)
  /\ UNCHANGED current_ref

(* Mutant: the words of a noindex page are not skipped. *)
RetrievedUnskipped ==
  /\ pc = "parsing"
  /\ current_ref' = [current_ref EXCEPT !.time = version[urlref]]
  /\ headIsSet' = TRUE
  /\ IF current_ref.state = "noindex" THEN UNCHANGED wordVars ELSE wordList!Flush
  /\ pc' = "finish"
  /\ UNCHANGED <<docVars, serverVars, diskVars, loopVars, urlref, current_id,
                 old_document, history, visited>>

(* The parser returns: the reference is completed, and the words still in   *)
(* the buffer go to the database or, for a noindex page, nowhere.           *)
RetrievedDocument ==
  /\ pc = "parsing"
  /\ current_ref' = [current_ref EXCEPT !.time = version[urlref]]
  /\ headIsSet' = TRUE
  /\ IF current_ref.state = "noindex" THEN wordList!Skip ELSE wordList!Flush
  /\ pc' = "finish"
  /\ UNCHANGED <<docVars, serverVars, diskVars, loopVars, urlref, current_id,
                 old_document, history, visited>>

(* Mutant: the record is written under the next ID. *)
FinishUnderNextID ==
  /\ pc = "finish"
  /\ nextDocID \in docs!DocIDs
  /\ docs!Add(nextDocID, current_ref, headIsSet)
  /\ NoDocument
  /\ pc' = "pop"
  /\ UNCHANGED <<wordVars, serverVars, diskVars, loopVars, history, visited>>

(* parse_url ends: docs.Add, and back to the inner loop. *)
Finish ==
  /\ pc = "finish"
  /\ docs!Add(current_id, current_ref, headIsSet)
  /\ NoDocument
  /\ pc' = "pop"
  /\ UNCHANGED <<wordVars, serverVars, diskVars, loopVars, history, visited>>

-----------------------------------------------------------------------------
(* Mutant: only the server that was being served writes to the log. *)
SaveLogOfServer ==
  /\ pc = "exit"
  /\ IF noSignal
     THEN UNCHANGED <<url_log, serverVars>>
     ELSE url_log' = srv!Waiting(server) /\ srv!PopAll
  /\ pc' = "close"
  /\ UNCHANGED <<docVars, wordVars, md5_db, version, loopVars, refVars, history,
                 visited>>

(* After the loop, and only after a signal: the URLs still queued go to the *)
(* log.                                                                     *)
SaveLog ==
  /\ pc = "exit"
  /\ IF noSignal
     THEN UNCHANGED <<url_log, serverVars>>
     ELSE url_log' = {u \in URLs : queued[u] > 0} /\ srv!PopAll
  /\ pc' = "close"
  /\ UNCHANGED <<docVars, wordVars, md5_db, version, loopVars, refVars, history,
                 visited>>

(* The process ends: the databases are closed, the rest of it is gone. *)
CloseRun ==
  /\ pc = "close"
  /\ docs!Close
  /\ srv!Reset
  /\ pc' = "idle"
  /\ mode' = "none" /\ from' = FromLog /\ noSignal' = TRUE /\ more' = FALSE
  /\ visited' = {} /\ fetched' = {} /\ accepted' = {}
  /\ UNCHANGED <<wordVars, diskVars, runs, todo, remaining, server, count, refVars>>

-----------------------------------------------------------------------------
Initialize == (\E url \in WrittenURLs : Initial(url)) \/ NextSource \/ Start

Loop == Round \/ Pick \/ Pop \/ ServerDone

ParserCall ==
  \/ GotWord
  \/ GotNoindex
  \/ \E d \in Descriptions :
       \/ GotHrefToSelf(d)
       \/ \E u \in URLs, hops \in LinkHops : GotHrefTooFar(u, d, hops) \/ GotHref(u, d, hops)

Answer ==
  \/ NotChanged \/ NotFound \/ NoHost \/ NotParsable
  \/ \E t \in URLs, d \in Descriptions : Redirect(t, d)
  \/ Duplicate \/ NotModified
  \/ \E parser \in BOOLEAN : FirstRetrieval(parser) \/ Changed(parser)

Run ==
  \/ Initialize \/ Loop \/ ParseUrl \/ Answer \/ RetrievedDocument \/ Finish
  \/ SaveLog \/ CloseRun

Next ==
  \/ \E u \in URLs : PageChange(u)
  \/ \E m \in Modes : StartRun(m)
  \/ Signal
  \/ Run
  \/ ParserCall

(* The process is never stopped for good between two places, and a page has *)
(* an end: the parser returns.  Nothing obliges pages to change, signals to *)
(* come or hldig to be called.                                              *)
Fairness == WF_vars(Run)

Spec == Init /\ [][Next]_vars /\ Fairness
-----------------------------------------------------------------------------
(* Safety *)

(* One dig retrieves a URL at most once, wherever it was seen: in the log,  *)
(* the database, start_url, a link or a redirect (visited and Need2Get).    *)
FetchedOnce == pc = "parse_url" => urlref \notin fetched

(* A dig that ends without a signal has retrieved every URL the queues      *)
(* took, those pushed onto a server the round had passed included.          *)
NothingForgotten == pc = "close" /\ noSignal => accepted \subseteq fetched

(* ... and has tried every document the index knows within the limits,      *)
(* those that earlier digs only saw a link to, unless its server is bad by  *)
(* now or has rules against it: what was pushed before a server went bad,   *)
(* or is on a server that did not, is not lost.  (For digs that no limit of *)
(* documents cuts short and that take up no log.)                           *)
EverythingRetrieved ==
  pc = "close" /\ noSignal /\ mode # "minimal" =>
    \A u \in (docs!IndexedURLs \cap InLimits) \ disallow :
      ServerOf[u] \notin bad \/ u \in LocalURLs => docs!Lookup(u).accessed

(* What an interrupted dig neither retrieves nor logs is at most the one    *)
(* URL the inner loop had popped when it found the signal.                  *)
AtMostOneDropped ==
  pc = "close" => Cardinality(accepted \ (fetched \cup url_log)) <= 1

(* A document that is not obsolete is the one the index names for its URL:  *)
(* no URL has two live documents, and none is out of the index's reach.     *)
LiveRecordsIndexed ==
  \A id \in docs!DocIDs :
    docs!Stored(id) /\ dbf[id].state # "obsolete" => i_dbf[dbf[id].url] = id

(* The word buffer never carries words from one page into the next: outside *)
(* a parse it is empty, and within it holds the current document's words.   *)
BufferOfThisPage ==
  words \subseteq IF pc = "parsing" THEN {<<current_id, version[urlref]>>} ELSE {}

(* A posting leads to a document, and the words of a body to a record of    *)
(* the very version they were read from; the document being retrieved is    *)
(* written last.  Words of an old edition stay under its own, old ID.       *)
PostingsMatchRecords ==
  \A p \in word_db :
    \/ p[1] = current_id
    \/ docs!Stored(p[1]) /\ p[2] \in {LinkText, dbf[p[1]].time}

(* The body of a page that said noindex is not in the word database. *)
NoindexNotPosted ==
  \A p \in word_db : docs!Stored(p[1]) /\ dbf[p[1]].state = "noindex" => p[2] = LinkText

(* After a dig, a document it retrieved and left in state normal describes  *)
(* the page as it is: the conditional request and the comparison of dates   *)
(* skip only what has not changed.                                          *)
RetrievedIsCurrent ==
  pc = "close" =>
    \A u \in fetched : docs!Lookup(u).state = "normal" => docs!Lookup(u).time = version[u]

(* server_max_docs bounds what one dig takes from a server, redirects       *)
(* aside, although digs and links push onto its queue at different times.   *)
WithinServerLimit ==
  MaxDocuments # -1 =>
    \A s \in Servers :
      Cardinality({u \in fetched : ServerOf[u] = s} \ UNION {Redirects[u] : u \in URLs})
        <= MaxDocuments

(* What robots.txt forbids is not retrieved, although a URL may be seen, and *)
(* pass IsValidURL, before its server and so its rules are known.           *)
RobotsObeyed == fetched \cap disallow = {}

(* With check_unique_md5 no contents are indexed under two documents or in  *)
(* two versions of one, over all digs since the databases were erased.      *)
ContentsOnce ==
  \A p, q \in word_db :
    LET Contents(r) == Body[dbf[r[1]].url][r[2]]
    IN p # q /\ LinkText \notin {p[2], q[2]} /\ docs!Stored(p[1]) /\ docs!Stored(q[1])
         /\ Contents(p) # NoBody => Contents(p) # Contents(q)

(* The hop counts that a URL can have: 0 for those the configuration names, *)
(* and along any path of links and redirects the sum of what its links cost *)
(* (a redirect costs nothing).  HopCounts is the least such relation.       *)
Named == {Normal[r] : r \in StartURLs} \cup MinimalURLs

FollowsLinks(counts) ==
  /\ \A u \in Named : <<u, 0>> \in counts
  /\ \A v \in URLs, n \in 0 .. MaxHops : <<v, n>> \in counts =>
       /\ \A u \in Links[v], hops \in LinkHops : n + hops <= MaxHops => <<u, n + hops>> \in counts
       /\ \A u \in Redirects[v] : <<u, n>> \in counts

Candidates == {counts \in SUBSET (URLs \X (0 .. MaxHops)) : FollowsLinks(counts)}

HopCounts == {p \in URLs \X (0 .. MaxHops) : \A counts \in Candidates : p \in counts}

(* A recorded hop count is honest: a path of links and redirects from a URL *)
(* the configuration names does lead to the document at that cost.          *)
HopsReal == \A u \in URLs : docs!Known(u) => <<u, docs!Lookup(u).hop>> \in HopCounts

(* The hop count a URL is indexed with only gets smaller, through links,    *)
(* redirects, new editions and reruns.                                      *)
HopsNeverGrow ==
  [][\A u \in URLs : docs!Known(u) /\ i_dbf'[u] # docs!NoDocID =>
       dbf'[i_dbf'[u]].hop <= dbf[i_dbf[u]].hop]_vars

(* Every step of a dig uses the document database as its interface allows:  *)
(* it implements DocumentDB, and so has its invariants.                     *)
DocsSpec == docs!Spec

(* Liveness *)

(* Every dig ends, on sites of any shape: cycles of links and redirects,    *)
(* servers that appear during the loop, signals.                            *)
DigEnds == pc # "idle" ~> pc = "idle"
=============================================================================
