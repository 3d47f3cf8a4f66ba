------------------------------- MODULE Server -------------------------------
(***************************************************************************)
(* The servers of one dig: hldig/Server.cc and the table Retriever keeps   *)
(* of them.  A server is registered when the first URL on it turns up; its *)
(* constructor asks for robots.txt and learns from the answer what it may  *)
(* not fetch, whether the host can be reached at all and whether it keeps  *)
(* connections open.  Each server has a queue of URLs to visit.            *)
(*                                                                         *)
(* The queue is a bag: queued[u] counts the URLRefs for u that wait in the *)
(* heap of u's server, and pop may take any of them.  The order the heap   *)
(* really gives is the subject of module HtHeap.                           *)
(***************************************************************************)
EXTENDS Integers

CONSTANTS
  URLs,
  Servers,
  ServerOf,          \* ServerOf[u], the server u.signature () names
  Disallowed,        \* the URLs the robots.txt files forbid
  LocalURLs,         \* the URLs local_urls maps to files
  RobotsReplies,     \* what asking for robots.txt may lead to
  KeepAliveReplies,  \* whether the host may keep its connections open
  MaxDocuments,      \* server_max_docs, -1 for no limit
  MaxRequests        \* max_connection_requests, -1 for no limit

(* What is assumed of them is ComponentsAssumption of module Retriever. *)

VARIABLES
  servers,     \* the servers registered so far
  bad,         \* those with _bad_server set
  disallow,    \* the URLs _disallow matches
  persistent,  \* the servers that allow persistent connections
  documents,   \* documents[s], the counter _documents
  queued       \* queued[u], the URLRefs for u in _paths

queueVars == <<documents, queued>>

vars == <<servers, bad, disallow, persistent, documents, queued>>

TypeOK ==
  /\ servers \subseteq Servers
  /\ bad \subseteq servers
  /\ disallow \subseteq URLs
  /\ persistent \subseteq servers
  /\ documents \in [Servers -> Nat]
  /\ queued \in [URLs -> Nat]

Init ==
  /\ servers = {}
  /\ bad = {}
  /\ disallow = {}
  /\ persistent = {}
  /\ documents = [s \in Servers |-> 0]
  /\ queued = [u \in URLs |-> 0]

(* A new process has an empty table. *)
Reset ==
  /\ servers' = {}
  /\ bad' = {}
  /\ disallow' = {}
  /\ persistent' = {}
  /\ documents' = [s \in Servers |-> 0]
  /\ queued' = [u \in URLs |-> 0]

(* Look the server up and construct it when it is not there yet. *)
Register(s) ==
  /\ servers' = servers \cup {s}
  /\ \/ s \in servers /\ UNCHANGED <<bad, disallow, persistent>>
     \/ /\ s \notin servers
        /\ \E robots \in RobotsReplies, keepAlive \in KeepAliveReplies :
             /\ bad' = IF robots = "unreachable" THEN bad \cup {s} ELSE bad
             /\ disallow' = IF robots = "rules"
                            THEN disallow \cup {u \in Disallowed : ServerOf[u] = s}
                            ELSE disallow
             /\ persistent' = IF keepAlive THEN persistent \cup {s} ELSE persistent

(* Mutant: the rules of robots.txt are left to IsValidURL. *)
RefusesAllowing(u, newDoc) ==
  \/ ServerOf[u] \in bad' /\ u \notin LocalURLs
  \/ MaxDocuments # -1 /\ newDoc /\ documents[ServerOf[u]] >= MaxDocuments

(* push, in the same step as the look-up above: what it reads of the server *)
(* is what the constructor left, hence the primes.                          *)
Refuses(u, newDoc) ==
  \/ ServerOf[u] \in bad' /\ u \notin LocalURLs
  \/ u \in disallow'
  \/ MaxDocuments # -1 /\ newDoc /\ documents[ServerOf[u]] >= MaxDocuments

(* Mutant: the documents are not counted. *)
PushUncounted(u, newDoc) ==
  IF Refuses(u, newDoc)
  THEN UNCHANGED queueVars
  ELSE queued' = [queued EXCEPT ![u] = @ + 1] /\ UNCHANGED documents

Push(u, newDoc) ==
  IF Refuses(u, newDoc)
  THEN UNCHANGED queueVars
  ELSE /\ queued' = [queued EXCEPT ![u] = @ + 1]
       /\ documents' = IF newDoc THEN [documents EXCEPT ![ServerOf[u]] = @ + 1]
                       ELSE documents

Waiting(s) == {u \in URLs : ServerOf[u] = s /\ queued[u] > 0}

Pop(u) ==
  /\ queued[u] > 0
  /\ queued' = [queued EXCEPT ![u] = @ - 1]
  /\ UNCHANGED <<servers, bad, disallow, persistent, documents>>

(* Popping every server until its queue is empty. *)
PopAll ==
  /\ queued' = [u \in URLs |-> 0]
  /\ UNCHANGED <<servers, bad, disallow, persistent, documents>>

(* IsDead (1) *)
MarkDead(s) ==
  /\ bad' = bad \cup {s}
  /\ UNCHANGED <<servers, disallow, persistent, documents, queued>>

(* How many documents Retriever::Start takes from the server in a row: one  *)
(* without persistent connections, one for a limit of 0, -1 for no limit.   *)
RequestsInARow(s) == IF s \notin persistent \/ MaxRequests = 0 THEN 1 ELSE MaxRequests
=============================================================================
