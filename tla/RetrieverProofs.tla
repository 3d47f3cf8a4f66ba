-------------------------- MODULE RetrieverProofs --------------------------
(***************************************************************************)
(* Theorems about Retriever, for sites, limits and numbers of any size.    *)
(*                                                                         *)
(* The main argument is one inductive invariant, IInv: the types, the      *)
(* consistency of the document database, and what holds of the document    *)
(* in hand between its look-up and docs.Add.  A step of Retriever keeps    *)
(* the document database right because it is a step of DocumentDB, whose   *)
(* own proofs say the rest.  The second part, from IndexInv on, is about   *)
(* what the word database says of the documents, the third, from Filling   *)
(* on, about what becomes of a URL the queues took.                        *)
(***************************************************************************)
EXTENDS Retriever, FiniteSetTheorems, TLAPS

DB == INSTANCE DocumentDBProofs WITH Refs <- DocumentRefs

AtDocument == pc \in {"status", "parsing", "finish"}

(* The document in hand: its ID was handed out before, and the record under *)
(* that ID, if there is one yet, is for the same URL.                       *)
InHand ==
  /\ pc = "parse_url" \/ AtDocument => urlref \in URLs /\ ServerOf[urlref] \in servers
  /\ AtDocument => /\ current_id \in docs!DocIDs
                   /\ current_id < nextDocID
                   /\ current_ref \in DocumentRefs
                   /\ current_ref.url = urlref
                   /\ docs!MayHold(current_id, current_ref)

OpenInRun == isopen <=> pc # "idle"

QueuesRegistered == \A u \in URLs : queued[u] > 0 => ServerOf[u] \in servers

DocsInv == docs!TypeOK /\ docs!NextIDFresh /\ docs!IndexConsistent /\ docs!ExcerptsOwned

IInv == TypeOK /\ DocsInv /\ InHand /\ OpenInRun /\ QueuesRegistered

-----------------------------------------------------------------------------
(* docs and DB are two instances of one module: their definitions agree. *)

LEMMA DBAssumptions == DB!RefsAssumption /\ DB!MaxDocIDAssumption
BY RetrieverAssumption, ComponentsAssumption
DEF DB!RefsAssumption, DB!MaxDocIDAssumption, DocumentRefs, docs!FirstDocID,
    DB!FirstDocID, docs!NEXT_DOC_ID_RECORD, DB!NEXT_DOC_ID_RECORD

LEMMA SameConstants ==
  /\ docs!DocIDs = DB!DocIDs /\ docs!FirstDocID = DB!FirstDocID
  /\ docs!NoDocID = DB!NoDocID
  /\ docs!FirstDocID = 2 /\ docs!NoDocID = 0 /\ docs!DocIDs = 2 .. MaxDocID
  /\ MaxDocID \in Nat /\ MaxDocID >= 2
BY ComponentsAssumption
DEF docs!DocIDs, DB!DocIDs, docs!FirstDocID, DB!FirstDocID, docs!NoDocID, DB!NoDocID,
    docs!NEXT_DOC_ID_RECORD, DB!NEXT_DOC_ID_RECORD

LEMMA SameStored == \A id : docs!Stored(id) <=> DB!Stored(id)
BY SameConstants DEF docs!Stored, DB!Stored

LEMMA SameNext == [docs!Next]_(docs!vars) <=> [DB!Next]_(DB!vars)
BY SameConstants, SameStored
DEF docs!Next, DB!Next, docs!vars, DB!vars, docs!Open, DB!Open, docs!OpenErased,
    DB!OpenErased, docs!Close, DB!Close, docs!NextDocID, DB!NextDocID, docs!tables,
    DB!tables, docs!MayHold, DB!MayHold, docs!Add, DB!Add, docs!Put, DB!Put,
    docs!NextDocIDAndAdd, DB!NextDocIDAndAdd, docs!Delete, DB!Delete,
    docs!Deletable, DB!Deletable

LEMMA SameInv == (DocsInv <=> DB!IInv) /\ (DocsInv' <=> DB!IInv')
BY SameConstants, SameStored
DEF DocsInv, DB!IInv, DB!Consistent, docs!TypeOK, DB!TypeOK, docs!NextIDFresh,
    DB!NextIDFresh, docs!Counter, DB!Counter, docs!IndexConsistent,
    DB!IndexConsistent, docs!ExcerptsOwned, DB!ExcerptsOwned, docs!Stored, DB!Stored

LEMMA DocsInvStep ==
  ASSUME DocsInv, [docs!Next]_(docs!vars)
  PROVE  DocsInv'
<1>1. DB!IInv /\ [DB!Next]_(DB!vars)
  BY SameInv, SameNext
<1>2. DB!TypeOK' /\ DB!Consistent'
  BY <1>1, DBAssumptions, DB!TypeStep, DB!ConsistentStep DEF DB!IInv
<1> QED BY <1>2, SameInv DEF DB!IInv

-----------------------------------------------------------------------------
(* The document references that the actions build. *)

LEMMA NewRefType ==
  ASSUME NEW u \in URLs, NEW hop \in 0 .. MaxHops
  PROVE  NewRef(u, hop) \in DocumentRefs /\ NewRef(u, hop).url = u
BY RetrieverAssumption DEF NewRef, DocumentRefs, States, NoTime

LEMMA EditType ==
  ASSUME NEW ref \in DocumentRefs
  PROVE  /\ \A s \in States : [ref EXCEPT !.state = s] \in DocumentRefs
                                /\ [ref EXCEPT !.state = s].url = ref.url
         /\ \A t \in 0 .. MaxVersion : [ref EXCEPT !.time = t] \in DocumentRefs
                                         /\ [ref EXCEPT !.time = t].url = ref.url
         /\ \A hop \in 0 .. MaxHops : Lower(ref, hop) \in DocumentRefs
                                        /\ Lower(ref, hop).url = ref.url
         /\ [ref EXCEPT !.accessed = TRUE] \in DocumentRefs
         /\ [ref EXCEPT !.accessed = TRUE].url = ref.url
BY DEF DocumentRefs, Lower

LEMMA KnownType ==
  ASSUME DocsInv, isopen, NEW u \in URLs, docs!Known(u)
  PROVE  /\ i_dbf[u] \in docs!DocIDs /\ i_dbf[u] < nextDocID
         /\ docs!Lookup(u) \in DocumentRefs /\ docs!Lookup(u).url = u
         /\ dbf[i_dbf[u]] # NoRef
BY SameConstants
DEF DocsInv, docs!Known, docs!Stored, docs!Lookup, docs!TypeOK, docs!NextIDFresh,
    docs!Counter, docs!IndexConsistent

-----------------------------------------------------------------------------
(* Every step of Retriever is a step of DocumentDB, or leaves it alone. *)

(* A record is written again under its own ID. *)
LEMMA RewriteStep ==
  ASSUME NEW id \in docs!DocIDs, NEW ref \in DocumentRefs, NEW h \in BOOLEAN,
         id < nextDocID, docs!MayHold(id, ref), docs!Add(id, ref, h)
  PROVE  docs!Next
BY DEF docs!Next

(* A record is written under the next new ID, where there is none. *)
LEMMA NewStep ==
  ASSUME DocsInv, NEW ref \in DocumentRefs, NEW h \in BOOLEAN,
         docs!NextDocIDAndAdd(nextDocID, ref, h)
  PROVE  docs!Next
<1>1. nextDocID \in docs!DocIDs /\ isopen
  BY SameConstants DEF docs!NextDocIDAndAdd, docs!NextDocID, DocsInv, docs!TypeOK
<1>2. dbf[nextDocID] = NoRef
  BY <1>1, SameConstants DEF DocsInv, docs!NextIDFresh, docs!Counter, docs!TypeOK
<1>3. docs!MayHold(nextDocID, ref) /\ nextDocID <= nextDocID
  BY <1>1, <1>2, SameConstants DEF docs!MayHold
<1> QED BY <1>1, <1>3 DEF docs!Next

(* A link or a redirect writes its target, found or new, with hop count hop *)
(* at most. *)
LEMMA TargetStep ==
  ASSUME DocsInv, isopen, NEW u \in URLs, NEW hop \in 0 .. MaxHops,
         IF docs!Known(u)
         THEN docs!Add(i_dbf[u], Lower(docs!Lookup(u), hop), FALSE)
         ELSE docs!NextDocIDAndAdd(nextDocID, NewRef(u, hop), FALSE)
  PROVE  docs!Next
<1>1. CASE docs!Known(u)
  <2>1. /\ i_dbf[u] \in docs!DocIDs /\ i_dbf[u] < nextDocID
        /\ Lower(docs!Lookup(u), hop) \in DocumentRefs
        /\ Lower(docs!Lookup(u), hop).url = u
        /\ docs!Lookup(u).url = u
    BY <1>1, KnownType, EditType
  <2>2. docs!MayHold(i_dbf[u], Lower(docs!Lookup(u), hop))
    BY <2>1 DEF docs!MayHold, docs!Lookup
  <2> QED BY <1>1, <2>1, <2>2, RewriteStep
<1>2. CASE ~docs!Known(u)
  BY <1>2, NewRefType, NewStep
<1> QED BY <1>1, <1>2

LEMMA HopType ==
  ASSUME NEW ref \in DocumentRefs
  PROVE  ref.hop \in 0 .. MaxHops /\ HopLimit \in 0 .. MaxHops
BY RetrieverAssumption DEF DocumentRefs, HopLimit

LEMMA LinkHopType ==
  ASSUME NEW ref \in DocumentRefs, NEW hops \in LinkHops, ref.hop + hops <= HopLimit
  PROVE  ref.hop + hops \in 0 .. MaxHops
BY HopType, RetrieverAssumption

LEMMA DocsStep ==
  ASSUME IInv, [Next]_vars
  PROVE  [docs!Next]_(docs!vars)
<1> USE DEF IInv
<1>0. UNCHANGED docVars => [docs!Next]_(docs!vars)
  BY DEF docVars, docs!vars
<1>1. ASSUME NEW m \in Modes, StartRun(m) PROVE docs!Next
  BY <1>1 DEF StartRun, docs!Next
<1>2. CASE ParseUrl
  <2>1. CASE docs!Known(urlref)
    BY <1>0, <1>2, <2>1 DEF ParseUrl
  <2>2. CASE ~docs!Known(urlref)
    BY <1>2, <2>2 DEF ParseUrl, docs!Next, docs!tables
  <2> QED BY <2>1, <2>2
<1>3. ASSUME NEW u \in URLs, NEW d \in Descriptions, Redirect(u, d)
      PROVE  [docs!Next]_(docs!vars)
  <2>1. AtDocument /\ isopen
    BY <1>3 DEF Redirect, AtDocument, OpenInRun
  <2>2. current_ref.hop \in 0 .. MaxHops
    BY <2>1, HopType DEF InHand
  <2>3. CASE ~IsValidURL(u, disallow)
    BY <1>0, <1>3, <2>3 DEF Redirect
  <2>4. CASE IsValidURL(u, disallow)
    BY <1>3, <2>1, <2>2, <2>4, TargetStep DEF Redirect
  <2> QED BY <2>3, <2>4
<1>4. ASSUME NEW p \in BOOLEAN, Changed(p) PROVE docs!Next
  <2>1. AtDocument
    BY <1>4 DEF Changed, Retrieved, AtDocument
  <2> DEFINE ref == [current_ref EXCEPT !.state = "obsolete"]
  <2>2. ref \in DocumentRefs /\ ref.url = current_ref.url
    BY <2>1, EditType DEF InHand, States
  <2>3. docs!NextDocID /\ docs!Put(current_id, ref, FALSE)
    BY <1>4 DEF Changed, docs!NextDocIDAndAdd
  <2>4. /\ current_id \in docs!DocIDs /\ current_id <= nextDocID
        /\ docs!MayHold(current_id, ref)
    BY <2>1, <2>2, SameConstants DEF InHand, docs!MayHold, DocsInv, docs!TypeOK
  <2> QED BY <2>2, <2>3, <2>4 DEF docs!Next, docs!NextDocIDAndAdd
<1>5. ASSUME NEW u \in URLs, NEW d \in Descriptions, NEW hops \in LinkHops,
             GotHref(u, d, hops)
      PROVE  docs!Next
  <2>1. AtDocument /\ isopen
    BY <1>5 DEF GotHref, InDocument, AtDocument, OpenInRun
  <2>2. current_ref.hop + hops \in 0 .. MaxHops
    BY <1>5, <2>1, LinkHopType DEF InHand, GotHref
  <2> QED BY <1>5, <2>1, <2>2, TargetStep DEF GotHref
<1>6. CASE Finish
  <2>1. AtDocument
    BY <1>6 DEF Finish, AtDocument
  <2> QED BY <1>6, <2>1, RewriteStep DEF Finish, InHand, TypeOK
<1>7. CASE CloseRun
  BY <1>7 DEF CloseRun, docs!Next
<1>8. CASE UNCHANGED vars
  BY <1>0, <1>8 DEF vars
<1>9. CASE Signal \/ \E u \in URLs : PageChange(u)
  BY <1>0, <1>9 DEF Signal, PageChange
<1>10. CASE Initialize \/ Loop
  BY <1>0, <1>10 DEF Initialize, Initial, NextSource, Start, Loop, Round, Pick,
     Pop, ServerDone
<1>11. CASE NotChanged \/ NotFound \/ NoHost \/ NotParsable \/ Duplicate \/ NotModified
  BY <1>0, <1>11 DEF NotChanged, NotFound, NoHost, NotParsable, Duplicate,
     NotModified, Outcome
<1>12. ASSUME NEW p \in BOOLEAN, FirstRetrieval(p) PROVE UNCHANGED docVars
  BY <1>12 DEF FirstRetrieval
<1>13. CASE RetrievedDocument \/ SaveLog
  BY <1>0, <1>13 DEF RetrievedDocument, SaveLog
<1>14. CASE GotWord \/ GotNoindex \/ \E d \in Descriptions :
               \/ GotHrefToSelf(d)
               \/ \E u \in URLs, hops \in LinkHops : GotHrefTooFar(u, d, hops)
  BY <1>0, <1>14 DEF GotWord, GotNoindex, GotHrefToSelf, GotHrefTooFar
<1> QED
  <2>1. CASE Answer
    BY <2>1, <1>0, <1>3, <1>4, <1>11, <1>12 DEF Answer
  <2>2. CASE ParserCall
    BY <2>2, <1>5, <1>14 DEF ParserCall
  <2>3. CASE Run
    BY <2>1, <2>3, <1>2, <1>6, <1>7, <1>10, <1>13 DEF Run
  <2> QED BY <2>2, <2>3, <1>1, <1>8, <1>9 DEF Next

(* What DocumentDB proves of its own steps holds of the dig. *)
LEMMA DocsInvKept ==
  ASSUME IInv, [Next]_vars
  PROVE  DocsInv'
BY DocsStep, DocsInvStep DEF IInv

-----------------------------------------------------------------------------
(* The other parts of the invariant, one lemma each.  In every proof the    *)
(* actions that leave the part alone come in one step at the end.           *)

WordsInv == wordList!TypeOK
ServersInv == srv!TypeOK /\ QueuesRegistered

LEMMA AddDescriptionType ==
  ASSUME WordsInv, NEW id \in docs!DocIDs, NEW d, wordList!AddDescription(id, d)
  PROVE  WordsInv'
BY RetrieverAssumption DEF WordsInv, wordList!TypeOK, wordList!AddDescription, LinkText

LEMMA NextIDType ==
  ASSUME DocsInv, docs!NextDocID
  PROVE  nextDocID \in docs!DocIDs
BY SameConstants DEF docs!NextDocID, DocsInv, docs!TypeOK

LEMMA WordsStep ==
  ASSUME IInv, [Next]_vars
  PROVE  WordsInv'
<1> USE DEF IInv
<1>1. WordsInv
  BY DEF TypeOK, WordsInv
<1>2. UNCHANGED wordVars => WordsInv'
  BY <1>1 DEF WordsInv, wordList!TypeOK, wordVars
<1>3. wordList!Skip \/ wordList!Flush => WordsInv'
  BY <1>1 DEF WordsInv, wordList!TypeOK, wordList!Skip, wordList!Flush
<1>4. ASSUME NEW m \in Modes, StartRun(m) PROVE WordsInv'
  BY <1>1, <1>4 DEF StartRun, WordsInv, wordList!TypeOK
<1>5. ASSUME NEW u \in URLs, NEW d \in Descriptions, Redirect(u, d)
      PROVE  WordsInv'
  <2>1. AtDocument /\ isopen
    BY <1>5 DEF Redirect, AtDocument, OpenInRun
  <2> DEFINE id == IF docs!Known(u) THEN i_dbf[u] ELSE nextDocID
  <2>2. words' = {}
    BY <1>5 DEF Redirect
  <2>3. \/ word_db' = word_db
        \/ id \in docs!DocIDs /\ word_db' = word_db \cup {<<id, LinkText>>}
    BY <1>5, <2>1, KnownType, NextIDType DEF Redirect, docs!NextDocIDAndAdd
  <2>4. LinkText \in 0 .. MaxVersion
    BY RetrieverAssumption DEF LinkText
  <2> QED BY <1>1, <2>2, <2>3, <2>4 DEF WordsInv, wordList!TypeOK
<1>6. CASE GotWord
  <2>1. AtDocument /\ urlref \in URLs /\ current_id \in docs!DocIDs
    BY <1>6 DEF GotWord, InDocument, AtDocument, InHand
  <2>2. version[urlref] \in 0 .. MaxVersion
    BY <2>1, RetrieverAssumption DEF TypeOK, Versions
  <2> QED BY <1>1, <1>6, <2>1, <2>2 DEF GotWord, wordList!Replace, WordsInv, wordList!TypeOK
<1>7. ASSUME NEW d \in Descriptions, GotHrefToSelf(d) PROVE WordsInv'
  <2>1. current_id \in docs!DocIDs
    BY <1>7 DEF GotHrefToSelf, InDocument, AtDocument, InHand
  <2> QED BY <1>1, <1>7, <2>1, AddDescriptionType DEF GotHrefToSelf
<1>8. ASSUME NEW u \in URLs, NEW d \in Descriptions, NEW hops \in LinkHops,
             GotHrefTooFar(u, d, hops) \/ GotHref(u, d, hops)
      PROVE  WordsInv'
  <2>1. isopen
    BY <1>8 DEF GotHrefTooFar, GotHref, InDocument, OpenInRun
  <2>2. CASE GotHrefTooFar(u, d, hops)
    BY <1>1, <2>1, <2>2, KnownType, AddDescriptionType DEF GotHrefTooFar
  <2>3. CASE GotHref(u, d, hops)
    <3>1. CASE docs!Known(u)
      BY <1>1, <2>1, <2>3, <3>1, KnownType, AddDescriptionType DEF GotHref
    <3>2. CASE ~docs!Known(u)
      BY <1>1, <2>3, <3>2, NextIDType, AddDescriptionType DEF GotHref, docs!NextDocIDAndAdd
    <3> QED BY <3>1, <3>2
  <2> QED BY <1>8, <2>2, <2>3
<1>9. CASE NotChanged \/ NotFound \/ NoHost \/ NotParsable \/ Duplicate \/ NotModified
  BY <1>3, <1>9 DEF NotChanged, NotFound, NoHost, NotParsable, Duplicate,
     NotModified, Outcome
<1>10. ASSUME NEW p \in BOOLEAN, FirstRetrieval(p) \/ Changed(p) PROVE WordsInv'
  BY <1>2, <1>3, <1>10 DEF FirstRetrieval, Changed
<1>11. CASE RetrievedDocument
  BY <1>3, <1>11 DEF RetrievedDocument
<1>12. CASE \/ Signal \/ Initialize \/ Loop \/ ParseUrl \/ Finish \/ SaveLog \/ CloseRun
            \/ GotNoindex \/ UNCHANGED vars \/ \E u \in URLs : PageChange(u)
  BY <1>2, <1>12 DEF Signal, Initialize, Initial, NextSource, Start, Loop, Round,
     Pick, Pop, ServerDone, ParseUrl, Finish, SaveLog, CloseRun, GotNoindex, vars,
     PageChange
<1> QED
  <2>1. CASE Answer
    BY <2>1, <1>5, <1>9, <1>10 DEF Answer
  <2>2. CASE ParserCall
    BY <2>2, <1>6, <1>7, <1>8, <1>12 DEF ParserCall
  <2>3. CASE Run
    BY <2>1, <2>3, <1>11, <1>12 DEF Run
  <2> QED BY <2>2, <2>3, <1>4, <1>12 DEF Next

(* Looking a server up, or constructing it, and pushing a URL of it. *)
LEMMA PushType ==
  ASSUME ServersInv, NEW u \in URLs, NEW newDoc \in BOOLEAN,
         srv!Register(ServerOf[u]),
         srv!Push(u, newDoc) \/ UNCHANGED <<documents, queued>>
  PROVE  ServersInv' /\ servers \subseteq servers'
<1> DEFINE s == ServerOf[u]
<1> USE DEF ServersInv, srv!TypeOK
<1>1. s \in Servers /\ servers' = servers \cup {s}
  BY ComponentsAssumption DEF srv!Register
<1>2. servers' \subseteq Servers /\ bad' \subseteq servers' /\ persistent' \subseteq servers'
  BY <1>1 DEF srv!Register
<1>3. disallow' \subseteq URLs
  <2>1. \/ disallow' = disallow
        \/ disallow' = disallow \cup {v \in Disallowed : ServerOf[v] = s}
    BY DEF srv!Register
  <2> QED BY <2>1, RetrieverAssumption
<1>4. /\ documents' \in [Servers -> Nat]
      /\ queued' \in [URLs -> Nat]
      /\ \A v \in URLs : queued'[v] > 0 => v = u \/ queued[v] > 0
  <2>1. CASE UNCHANGED <<documents, queued>>
    BY <2>1
  <2>2. CASE srv!Push(u, newDoc)
    <3>1. documents[s] + 1 \in Nat /\ queued[u] + 1 \in Nat
      BY <1>1
    <3>2. \/ UNCHANGED <<documents, queued>>
          \/ /\ queued' = [queued EXCEPT ![u] = queued[u] + 1]
             /\ documents' = documents
                \/ documents' = [documents EXCEPT ![s] = documents[s] + 1]
      BY <2>2 DEF srv!Push, srv!queueVars
    <3> QED BY <1>1, <3>1, <3>2
  <2> QED BY <2>1, <2>2
<1>5. QueuesRegistered'
  BY <1>1, <1>4 DEF QueuesRegistered
<1> QED BY <1>1, <1>2, <1>3, <1>4, <1>5

LEMMA EnqueueType ==
  ASSUME ServersInv, NEW u \in URLs, NEW newDoc \in BOOLEAN, Enqueue(u, newDoc)
  PROVE  ServersInv' /\ servers \subseteq servers'
<1>1. CASE u \in visited
  BY <1>1 DEF Enqueue, serverVars, ServersInv, srv!TypeOK, QueuesRegistered
<1>2. CASE u \notin visited
  BY <1>2, PushType DEF Enqueue
<1> QED BY <1>1, <1>2

LEMMA ServersStep ==
  ASSUME IInv, [Next]_vars
  PROVE  ServersInv' /\ (servers \subseteq servers' \/ pc' = "idle")
<1> USE DEF IInv
<1> DEFINE Goal == ServersInv' /\ servers \subseteq servers'
<1>1. ServersInv
  BY DEF TypeOK, ServersInv
<1>2. UNCHANGED serverVars => Goal
  BY <1>1 DEF ServersInv, srv!TypeOK, QueuesRegistered, serverVars
<1>3. ASSUME NEW url \in WrittenURLs, Initial(url) PROVE Goal
  <2>1. Normal[url] \in URLs
    BY RetrieverAssumption
  <2>2. /\ srv!Register(ServerOf[Normal[url]])
        /\ srv!Push(Normal[url], TRUE) \/ UNCHANGED <<documents, queued>>
    BY <1>3 DEF Initial
  <2> QED BY <1>1, <2>1, <2>2, PushType
<1>4. CASE Pop
  <2>1. PICK u \in URLs : srv!Pop(u)
    BY <1>4 DEF Pop, srv!Waiting
  <2>2. queued[u] - 1 \in Nat /\ queued[u] > 0
    BY <1>1, <2>1 DEF srv!Pop, ServersInv, srv!TypeOK
  <2> QED BY <1>1, <2>1, <2>2 DEF srv!Pop, ServersInv, srv!TypeOK, QueuesRegistered
<1>5. CASE NoHost
  <2>1. ServerOf[urlref] \in servers
    BY <1>5 DEF NoHost, AtStatus, AtDocument, InHand
  <2>2. UNCHANGED serverVars \/ srv!MarkDead(ServerOf[urlref])
    BY <1>5 DEF NoHost
  <2> QED BY <1>1, <1>2, <2>1, <2>2 DEF srv!MarkDead, ServersInv, srv!TypeOK, QueuesRegistered
<1>6. ASSUME NEW u \in URLs, NEW d \in Descriptions, Redirect(u, d) PROVE Goal
  BY <1>1, <1>2, <1>6, EnqueueType DEF Redirect
<1>7. ASSUME NEW u \in URLs, NEW d \in Descriptions, NEW hops \in LinkHops,
             GotHref(u, d, hops)
      PROVE  Goal
  BY <1>1, <1>7, EnqueueType DEF GotHref
<1>8. CASE SaveLog
  BY <1>1, <1>2, <1>8 DEF SaveLog, srv!PopAll, ServersInv, srv!TypeOK, QueuesRegistered
<1>9. ASSUME CloseRun PROVE ServersInv' /\ pc' = "idle"
  BY <1>1, <1>9 DEF CloseRun, srv!Reset, ServersInv, srv!TypeOK, QueuesRegistered
<1>10. ASSUME NEW p \in BOOLEAN, FirstRetrieval(p) \/ Changed(p) PROVE Goal
  BY <1>2, <1>10 DEF FirstRetrieval, Changed, Retrieved
<1>11. CASE NotChanged \/ NotFound \/ NotParsable \/ Duplicate \/ NotModified
  BY <1>2, <1>11 DEF NotChanged, NotFound, NotParsable, Duplicate, NotModified, Retrieved
<1>12. ASSUME NEW u \in URLs, NEW d \in Descriptions, NEW hops \in LinkHops,
              GotHrefTooFar(u, d, hops)
       PROVE  Goal
  BY <1>2, <1>12 DEF GotHrefTooFar
<1>13. CASE \/ Signal \/ NextSource \/ Start \/ Round \/ Pick \/ ServerDone \/ ParseUrl
            \/ RetrievedDocument \/ Finish \/ GotWord \/ GotNoindex \/ UNCHANGED vars
            \/ (\E u \in URLs : PageChange(u)) \/ (\E m \in Modes : StartRun(m))
  BY <1>2, <1>13 DEF Signal, NextSource, Start, Round, Pick, ServerDone, ParseUrl,
     RetrievedDocument, Finish, GotWord, GotNoindex, vars, PageChange, StartRun
<1>14. ASSUME NEW d \in Descriptions, GotHrefToSelf(d) PROVE Goal
  BY <1>2, <1>14 DEF GotHrefToSelf
<1> QED
  <2>1. CASE Answer
    BY <2>1, <1>5, <1>6, <1>10, <1>11 DEF Answer
  <2>2. CASE ParserCall
    BY <2>2, <1>7, <1>12, <1>13, <1>14 DEF ParserCall
  <2>3. CASE Run
    BY <2>1, <2>3, <1>3, <1>4, <1>8, <1>9, <1>13 DEF Run, Initialize, Loop
  <2> QED BY <2>2, <2>3, <1>13 DEF Next

-----------------------------------------------------------------------------
(* The document in hand. *)

(* Writing a target changes no URL under an ID that was handed out. *)
LEMMA TargetKeepsURLs ==
  ASSUME DocsInv, isopen, NEW u \in URLs, NEW hop \in 0 .. MaxHops,
         NEW id \in docs!DocIDs, id < nextDocID,
         IF docs!Known(u)
         THEN docs!Add(i_dbf[u], Lower(docs!Lookup(u), hop), FALSE)
         ELSE docs!NextDocIDAndAdd(nextDocID, NewRef(u, hop), FALSE)
  PROVE  /\ dbf'[id] # NoRef => dbf[id] # NoRef /\ dbf'[id].url = dbf[id].url
         /\ nextDocID' >= nextDocID /\ nextDocID' \in Nat
<1>0. dbf \in [docs!DocIDs -> DocumentRefs \cup {NoRef}] /\ nextDocID \in Nat
  BY SameConstants DEF DocsInv, docs!TypeOK
<1>1. CASE docs!Known(u)
  <2>1. /\ i_dbf[u] \in docs!DocIDs /\ dbf[i_dbf[u]] # NoRef
        /\ Lower(docs!Lookup(u), hop).url = dbf[i_dbf[u]].url
    BY <1>1, KnownType, EditType DEF docs!Lookup
  <2>2. /\ dbf' = [dbf EXCEPT ![i_dbf[u]] = Lower(docs!Lookup(u), hop)]
        /\ nextDocID' = nextDocID
    BY <1>1 DEF docs!Add, docs!Put
  <2> QED BY <1>0, <2>1, <2>2
<1>2. CASE ~docs!Known(u)
  <2>1. /\ dbf' = [dbf EXCEPT ![nextDocID] = NewRef(u, hop)]
        /\ nextDocID' = nextDocID + 1
    BY <1>2 DEF docs!NextDocIDAndAdd, docs!Put, docs!NextDocID
  <2> QED BY <1>0, <2>1, SameConstants
<1> QED BY <1>1, <1>2

(* What an edit of the reference in hand must keep. *)
LEMMA HandKept ==
  ASSUME IInv, AtDocument, pc' # "parse_url",
         urlref' = urlref, current_id' = current_id, servers \subseteq servers',
         current_ref' \in DocumentRefs, current_ref'.url = current_ref.url,
         nextDocID' \in Nat, nextDocID' >= nextDocID,
         dbf'[current_id] # NoRef =>
           dbf[current_id] # NoRef /\ dbf'[current_id].url = dbf[current_id].url
  PROVE  InHand'
BY SameConstants DEF IInv, InHand, AtDocument, docs!MayHold, docs!TypeOK, DocsInv

LEMMA HandStep ==
  ASSUME IInv, [Next]_vars
  PROVE  InHand'
<1> USE DEF IInv
<1>1. nextDocID \in Nat /\ (servers \subseteq servers' \/ pc' = "idle")
  BY ServersStep, SameConstants DEF DocsInv, docs!TypeOK
<1>2. pc' \notin {"parse_url", "status", "parsing", "finish"} => InHand'
  BY DEF InHand, AtDocument
<1>3. CASE Pop
  <2>1. CASE noSignal
    <3>1. PICK u \in URLs : queued[u] > 0 /\ urlref' = u /\ UNCHANGED servers
                              /\ pc' = "parse_url"
      BY <1>3, <2>1 DEF Pop, srv!Waiting, srv!Pop
    <3> QED BY <3>1 DEF InHand, AtDocument, QueuesRegistered
  <2>2. CASE ~noSignal
    BY <1>2, <1>3, <2>2 DEF Pop
  <2> QED BY <2>1, <2>2
<1>4. CASE ParseUrl
  <2>1. urlref \in URLs /\ ServerOf[urlref] \in servers /\ isopen
    BY <1>4 DEF ParseUrl, InHand, OpenInRun
  <2>2. pc' = "status" /\ urlref' = urlref /\ servers' = servers
    BY <1>4 DEF ParseUrl, serverVars
  <2>3. CASE docs!Known(urlref)
    <3> DEFINE ref == docs!Lookup(urlref)
    <3>1. ref \in DocumentRefs /\ ref.url = urlref /\ i_dbf[urlref] \in docs!DocIDs
          /\ i_dbf[urlref] < nextDocID
      BY <2>1, <2>3, KnownType
    <3>2. /\ current_id' = i_dbf[urlref] /\ UNCHANGED <<dbf, nextDocID>>
          /\ current_ref' = [ref EXCEPT !.accessed = TRUE, !.state = "normal"]
      BY <1>4, <2>3 DEF ParseUrl, docVars
    <3>3. current_ref' \in DocumentRefs /\ current_ref'.url = urlref
      BY <3>1, <3>2 DEF DocumentRefs, States
    <3> QED BY <2>1, <2>2, <3>1, <3>2, <3>3 DEF InHand, AtDocument, docs!MayHold, docs!Lookup
  <2>4. CASE ~docs!Known(urlref)
    <3>1. /\ current_id' = nextDocID /\ nextDocID' = nextDocID + 1
          /\ UNCHANGED dbf /\ docs!NextDocID
          /\ current_ref' = [NewRef(urlref, 0) EXCEPT !.accessed = TRUE]
      BY <1>4, <2>4 DEF ParseUrl, docs!NextDocID
    <3>2. nextDocID \in docs!DocIDs
      BY <3>1, NextIDType
    <3>3. dbf[nextDocID] = NoRef
      BY <1>1, <2>1, <3>2, SameConstants DEF DocsInv, docs!NextIDFresh, docs!Counter
    <3>4. current_ref' \in DocumentRefs /\ current_ref'.url = urlref
      <4>1. 0 \in 0 .. MaxHops
        BY RetrieverAssumption
      <4> QED BY <2>1, <3>1, <4>1, NewRefType, EditType
    <3> QED BY <1>1, <2>1, <2>2, <3>1, <3>2, <3>3, <3>4 DEF InHand, AtDocument, docs!MayHold
  <2> QED BY <2>3, <2>4
<1>5. ASSUME NEW s \in States, Outcome(s), pc = "status" PROVE InHand'
  <2>1. current_ref' = [current_ref EXCEPT !.state = s] /\ pc' = "finish"
        /\ UNCHANGED <<urlref, current_id, dbf, nextDocID>> /\ AtDocument
    BY <1>5 DEF Outcome, docVars, AtDocument
  <2>2. current_ref' \in DocumentRefs /\ current_ref'.url = current_ref.url
    BY <2>1, EditType DEF InHand
  <2> QED BY <1>1, <2>1, <2>2, HandKept
<1>6. ASSUME NEW u \in URLs, NEW d \in Descriptions, Redirect(u, d) PROVE InHand'
  <2>1. /\ AtDocument /\ isopen /\ pc' = "finish"
        /\ UNCHANGED <<urlref, current_id>>
        /\ current_ref' = [current_ref EXCEPT !.state = "obsolete"]
    BY <1>6 DEF Redirect, AtDocument, OpenInRun
  <2>2. current_ref' \in DocumentRefs /\ current_ref'.url = current_ref.url
    BY <2>1, EditType DEF InHand, States
  <2>3. CASE ~IsValidURL(u, disallow)
    <3>1. UNCHANGED <<dbf, nextDocID>>
      BY <1>6, <2>3 DEF Redirect, docVars
    <3> QED BY <1>1, <2>1, <2>2, <3>1, HandKept
  <2>4. CASE IsValidURL(u, disallow)
    <3>1. current_ref.hop \in 0 .. MaxHops /\ current_id \in docs!DocIDs /\ current_id < nextDocID
      BY <2>1, HopType DEF InHand
    <3>2. IF docs!Known(u)
          THEN docs!Add(i_dbf[u], Lower(docs!Lookup(u), current_ref.hop), FALSE)
          ELSE docs!NextDocIDAndAdd(nextDocID, NewRef(u, current_ref.hop), FALSE)
      BY <1>6, <2>4 DEF Redirect
    <3> QED BY <1>1, <2>1, <2>2, <3>1, <3>2, TargetKeepsURLs, HandKept
  <2> QED BY <2>3, <2>4
<1>7. ASSUME NEW p \in BOOLEAN, FirstRetrieval(p) PROVE InHand'
  <2>1. /\ AtDocument /\ pc' # "parse_url"
        /\ UNCHANGED <<urlref, current_id, dbf, nextDocID>>
        /\ current_ref' = current_ref \/ current_ref' = [current_ref EXCEPT !.state = "noindex"]
    BY <1>7 DEF FirstRetrieval, Retrieved, Parse, AtDocument, docVars
  <2>2. current_ref' \in DocumentRefs /\ current_ref'.url = current_ref.url
    BY <2>1, EditType DEF InHand, States
  <2>3. servers \subseteq servers'
    BY <1>7 DEF FirstRetrieval, Retrieved, serverVars
  <2> QED BY <1>1, <2>1, <2>2, <2>3, HandKept
<1>8. ASSUME NEW p \in BOOLEAN, Changed(p) PROVE InHand'
  <2> DEFINE new == [NewRef(urlref, current_ref.hop) EXCEPT !.accessed = TRUE]
  <2>1. /\ AtDocument /\ isopen /\ pc' # "parse_url" /\ pc' # "idle"
        /\ urlref' = urlref /\ current_id' = nextDocID
        /\ current_ref' = new \/ current_ref' = [new EXCEPT !.state = "noindex"]
        /\ docs!NextDocID
        /\ dbf' = [dbf EXCEPT ![current_id] = [current_ref EXCEPT !.state = "obsolete"]]
    BY <1>8 DEF Changed, Retrieved, Parse, AtDocument, OpenInRun, docs!NextDocIDAndAdd, docs!Put
  <2>2. current_ref.hop \in 0 .. MaxHops /\ urlref \in URLs /\ ServerOf[urlref] \in servers
        /\ current_id \in docs!DocIDs /\ current_id < nextDocID
    BY <2>1, HopType DEF InHand
  <2>3. new \in DocumentRefs /\ new.url = urlref
    BY <2>2, NewRefType, EditType
  <2>4. current_ref' \in DocumentRefs /\ current_ref'.url = urlref
    BY <2>1, <2>3, EditType DEF States
  <2>5. nextDocID \in docs!DocIDs /\ nextDocID' = nextDocID + 1
    BY <2>1, NextIDType DEF docs!NextDocID
  <2>6. dbf'[nextDocID] = NoRef
    BY <1>1, <2>1, <2>2, <2>5, SameConstants
    DEF DocsInv, docs!NextIDFresh, docs!Counter, docs!TypeOK
  <2> QED BY <1>1, <2>1, <2>2, <2>4, <2>5, <2>6 DEF InHand, AtDocument, docs!MayHold
<1>9. CASE GotNoindex \/ RetrievedDocument
  <2>1. /\ AtDocument /\ pc' # "parse_url" /\ UNCHANGED <<urlref, current_id, dbf, nextDocID, servers>>
        /\ \/ current_ref' = [current_ref EXCEPT !.state = "noindex"]
           \/ current_ref' = [current_ref EXCEPT !.time = version[urlref]]
    BY <1>9 DEF GotNoindex, InDocument, RetrievedDocument, AtDocument, docVars, serverVars
  <2>2. version[urlref] \in 0 .. MaxVersion
    BY <2>1, RetrieverAssumption DEF InHand, TypeOK, Versions
  <2>3. current_ref' \in DocumentRefs /\ current_ref'.url = current_ref.url
    <3>1. PICK ref \in DocumentRefs : ref = current_ref
      BY <2>1 DEF InHand
    <3>2. "noindex" \in States
      BY DEF States
    <3>3. CASE current_ref' = [ref EXCEPT !.state = "noindex"]
      BY <3>1, <3>2, <3>3, EditType
    <3>4. CASE current_ref' = [ref EXCEPT !.time = version[urlref]]
      BY <2>2, <3>1, <3>4, EditType
    <3> QED  BY <2>1, <3>1, <3>3, <3>4
  <2> QED BY <1>1, <2>1, <2>3, HandKept
<1>10. ASSUME NEW u \in URLs, NEW d \in Descriptions, NEW hops \in LinkHops,
              GotHref(u, d, hops)
       PROVE  InHand'
  <2>1. /\ AtDocument /\ isopen /\ pc' = pc /\ pc = "parsing"
        /\ UNCHANGED <<urlref, current_id, current_ref>>
    BY <1>10 DEF GotHref, InDocument, AtDocument, OpenInRun
  <2>2. current_ref.hop + hops \in 0 .. MaxHops
    BY <1>10, <2>1, LinkHopType DEF InHand, GotHref
  <2>3. IF docs!Known(u)
        THEN docs!Add(i_dbf[u], Lower(docs!Lookup(u), current_ref.hop + hops), FALSE)
        ELSE docs!NextDocIDAndAdd(nextDocID, NewRef(u, current_ref.hop + hops), FALSE)
    BY <1>10 DEF GotHref
  <2>4. current_id \in docs!DocIDs /\ current_id < nextDocID /\ current_ref \in DocumentRefs
    BY <2>1 DEF InHand
  <2> QED BY <1>1, <2>1, <2>2, <2>3, <2>4, TargetKeepsURLs, HandKept
<1>11. CASE GotWord \/ \E d \in Descriptions :
              \/ GotHrefToSelf(d)
              \/ \E u \in URLs, hops \in LinkHops : GotHrefTooFar(u, d, hops)
  <2>1. /\ AtDocument /\ pc' = pc /\ pc = "parsing"
        /\ UNCHANGED <<urlref, current_id, current_ref, dbf, nextDocID, servers>>
    BY <1>11 DEF GotWord, GotHrefToSelf, GotHrefTooFar, InDocument, AtDocument,
       docVars, serverVars
  <2> QED BY <1>1, <2>1, HandKept DEF InHand
<1>12. CASE Signal \/ UNCHANGED vars
  BY <1>12 DEF Signal, vars, InHand, AtDocument, docVars, serverVars, refVars, docs!MayHold
<1>13. CASE \/ Initialize \/ Round \/ Pick \/ ServerDone \/ Finish \/ SaveLog \/ CloseRun
            \/ (\E u \in URLs : PageChange(u)) \/ (\E m \in Modes : StartRun(m))
  BY <1>2, <1>13 DEF Initialize, Initial, NextSource, Start, Round, Pick, ServerDone,
     Finish, SaveLog, CloseRun, PageChange, StartRun
<1>14. CASE NotChanged \/ NotFound \/ NoHost \/ NotParsable \/ Duplicate \/ NotModified
  <2>1. pc = "status"
    BY <1>14 DEF NotChanged, NotFound, NoHost, NotParsable, Duplicate, NotModified,
       AtStatus, Retrieved
  <2>2. current_ref.state \in States
    BY <2>1 DEF InHand, AtDocument, DocumentRefs
  <2>3. Outcome(current_ref.state) \/ Outcome("not_found") \/ Outcome("noindex")
    BY <1>14 DEF NotChanged, NotFound, NoHost, NotParsable, Duplicate, NotModified
  <2> QED BY <1>5, <2>1, <2>2, <2>3 DEF States
<1> QED
  <2>1. CASE Answer
    BY <2>1, <1>6, <1>7, <1>8, <1>14 DEF Answer
  <2>2. CASE ParserCall
    BY <2>2, <1>9, <1>10, <1>11 DEF ParserCall
  <2>3. CASE Run
    BY <2>1, <2>3, <1>3, <1>4, <1>9, <1>13 DEF Run, Loop
  <2> QED BY <2>2, <2>3, <1>12, <1>13 DEF Next

-----------------------------------------------------------------------------
(* The types of what is left: the pages and the disk, the loop's variables, *)
(* the reference in hand, and the history.                                  *)

DiskType ==
  /\ md5_db \subseteq UNION {{Body[u][v] : v \in Versions} : u \in URLs}
  /\ url_log \subseteq URLs
  /\ version \in [URLs -> Versions]

LoopType ==
  /\ runs \in 0 .. MaxRuns /\ mode \in Modes \cup {"none"}
  /\ from \in {FromDocsFirst, FromStart, FromLog, FromDocsAfterLog}
  /\ todo \subseteq WrittenURLs
  /\ noSignal \in BOOLEAN /\ more \in BOOLEAN
  /\ remaining \subseteq Servers
  /\ server \in Servers \cup {NoServer} /\ count \in Nat

RefType ==
  /\ urlref \in URLs \cup {NoURL}
  /\ current_id \in docs!DocIDs \cup {docs!NoDocID}
  /\ current_ref \in DocumentRefs \cup {NoRef}
  /\ old_document \in BOOLEAN /\ headIsSet \in BOOLEAN

HistoryType ==
  pc \in Places /\ visited \subseteq WrittenURLs /\ fetched \subseteq URLs /\ accepted \subseteq URLs

LEMMA TypeParts ==
  TypeOK <=> /\ docs!TypeOK /\ WordsInv /\ srv!TypeOK
             /\ DiskType /\ LoopType /\ RefType /\ HistoryType
BY DEF TypeOK, WordsInv, DiskType, LoopType, RefType, HistoryType

LEMMA DiskStep ==
  ASSUME IInv, [Next]_vars
  PROVE  DiskType'
<1> USE DEF IInv
<1>1. DiskType
  BY TypeParts
<1>2. UNCHANGED diskVars => DiskType'
  BY <1>1 DEF DiskType, diskVars
<1>3. ASSUME NEW u \in URLs, PageChange(u) PROVE DiskType'
  BY <1>1, <1>3, RetrieverAssumption DEF PageChange, DiskType, Versions
<1>4. ASSUME NEW m \in Modes, StartRun(m) PROVE DiskType'
  BY <1>1, <1>4 DEF StartRun, DiskType
<1>5. CASE SaveLog
  BY <1>1, <1>5 DEF SaveLog, DiskType
<1>6. ASSUME Retrieved PROVE DiskType'
  <2>1. urlref \in URLs /\ version[urlref] \in Versions
    BY <1>1, <1>6 DEF Retrieved, InHand, AtDocument, DiskType
  <2>2. Digest \in UNION {{Body[u][v] : v \in Versions} : u \in URLs}
    BY <2>1 DEF Digest
  <2>3. md5_db' \subseteq md5_db \cup {Digest} /\ UNCHANGED <<url_log, version>>
    BY <1>6 DEF Retrieved
  <2> QED BY <1>1, <2>2, <2>3 DEF DiskType
<1>7. CASE NotChanged \/ NotFound \/ NoHost \/ NotParsable
  BY <1>2, <1>7 DEF NotChanged, NotFound, NoHost, NotParsable, AtStatus
<1>8. ASSUME NEW u \in URLs, NEW d \in Descriptions, Redirect(u, d) PROVE DiskType'
  BY <1>2, <1>8 DEF Redirect
<1>9. CASE ParserCall
  BY <1>2, <1>9 DEF ParserCall, GotWord, GotNoindex, GotHrefToSelf, GotHrefTooFar,
     GotHref, InDocument
<1>10. CASE Initialize \/ Loop \/ ParseUrl \/ RetrievedDocument \/ Finish \/ CloseRun
            \/ Signal \/ UNCHANGED vars
  BY <1>2, <1>10 DEF Initialize, Initial, NextSource, Start, Loop, Round, Pick, Pop,
     ServerDone, ParseUrl, RetrievedDocument, Finish, CloseRun, Signal, vars
<1>11. CASE Answer
  BY <1>6, <1>7, <1>8, <1>11 DEF Answer, Duplicate, NotModified, FirstRetrieval, Changed
<1> QED BY <1>3, <1>4, <1>5, <1>9, <1>10, <1>11 DEF Next, Run

LEMMA LoopStep ==
  ASSUME IInv, [Next]_vars
  PROVE  LoopType'
<1> USE DEF IInv
<1>1. LoopType /\ servers \subseteq Servers
  BY TypeParts DEF srv!TypeOK
<1>2. UNCHANGED loopVars => LoopType'
  BY <1>1 DEF LoopType, loopVars
<1>3. ASSUME NEW m \in Modes, StartRun(m) PROVE LoopType'
  <2>1. runs' \in 0 .. MaxRuns
    BY <1>1, <1>3, RetrieverAssumption DEF StartRun, LoopType
  <2>2. todo' \subseteq WrittenURLs
    BY <1>3 DEF StartRun, TypeOK, WrittenURLs
  <2> QED BY <1>1, <1>3, <2>1, <2>2 DEF StartRun, LoopType
<1>4. CASE NextSource
  <2>1. todo' \subseteq WrittenURLs
    BY <1>4, RetrieverAssumption DEF NextSource, docs!IndexedURLs, WrittenURLs
  <2>2. from' \in {FromDocsFirst, FromStart, FromLog, FromDocsAfterLog}
    BY <1>4 DEF NextSource
  <2>3. UNCHANGED <<runs, mode, noSignal, more, remaining, server, count>>
    BY <1>4 DEF NextSource
  <2> QED BY <1>1, <2>1, <2>2, <2>3 DEF LoopType
<1>5. ASSUME NEW url \in WrittenURLs, Initial(url) PROVE LoopType'
  BY <1>1, <1>5 DEF Initial, LoopType
<1>6. CASE Start \/ Signal \/ CloseRun
  BY <1>1, <1>6 DEF Start, Signal, CloseRun, LoopType, diskVars
<1>7. CASE Round \/ Pick \/ ServerDone
  <2>1. CASE Round
    BY <1>1, <2>1 DEF Round, LoopType, srv!TypeOK
  <2>2. CASE Pick
    <3>1. UNCHANGED <<runs, mode, from, todo, noSignal, more>> /\ count' = 0
      BY <2>2 DEF Pick
    <3>2. remaining' \subseteq Servers /\ server' \in Servers \cup {NoServer}
      BY <1>1, <2>2 DEF Pick, LoopType
    <3> QED BY <1>1, <3>1, <3>2 DEF LoopType
  <2>3. CASE ServerDone
    BY <1>2, <2>3 DEF ServerDone
  <2> QED BY <1>7, <2>1, <2>2, <2>3
<1>8. CASE Pop
  <2>1. count' \in Nat
    BY <1>1, <1>8 DEF Pop, LoopType
  <2>2. more' \in BOOLEAN
    BY <1>1, <1>8 DEF Pop, LoopType
  <2>3. UNCHANGED <<runs, mode, from, todo, noSignal, remaining, server>>
    BY <1>8 DEF Pop
  <2> QED BY <1>1, <2>1, <2>2, <2>3 DEF LoopType
<1>9. ASSUME NEW u \in URLs, NEW newDoc \in BOOLEAN, Enqueue(u, newDoc)
      PROVE  remaining' \subseteq Servers
  BY <1>1, <1>9, ComponentsAssumption DEF Enqueue, LoopType
<1>10. ASSUME NEW u \in URLs, NEW d \in Descriptions, Redirect(u, d) PROVE LoopType'
  <2>1. remaining' \subseteq Servers
    BY <1>1, <1>9, <1>10 DEF Redirect, LoopType
  <2> QED BY <1>1, <1>10, <2>1 DEF Redirect, LoopType
<1>11. ASSUME NEW u \in URLs, NEW d \in Descriptions, NEW hops \in LinkHops,
              GotHref(u, d, hops)
       PROVE  LoopType'
  <2>1. remaining' \subseteq Servers
    BY <1>9, <1>11 DEF GotHref
  <2> QED BY <1>1, <1>11, <2>1 DEF GotHref, InDocument, LoopType
<1>12. CASE GotWord \/ GotNoindex \/ \E d \in Descriptions :
              \/ GotHrefToSelf(d)
              \/ \E u \in URLs, hops \in LinkHops : GotHrefTooFar(u, d, hops)
  BY <1>1, <1>12 DEF GotWord, GotNoindex, GotHrefToSelf, GotHrefTooFar, InDocument, LoopType
<1>13. CASE NotChanged \/ NotFound \/ NoHost \/ NotParsable \/ Duplicate \/ NotModified
            \/ \E p \in BOOLEAN : FirstRetrieval(p) \/ Changed(p)
  BY <1>2, <1>13 DEF NotChanged, NotFound, NoHost, NotParsable, Duplicate, NotModified,
     FirstRetrieval, Changed, AtStatus, Retrieved
<1>14. CASE ParseUrl \/ RetrievedDocument \/ Finish \/ SaveLog \/ UNCHANGED vars
            \/ \E u \in URLs : PageChange(u)
  BY <1>2, <1>14 DEF ParseUrl, RetrievedDocument, Finish, SaveLog, vars, PageChange
<1> QED
  <2>1. CASE Answer
    BY <2>1, <1>10, <1>13 DEF Answer
  <2>2. CASE ParserCall
    BY <2>2, <1>11, <1>12 DEF ParserCall
  <2>3. CASE Run
    BY <2>1, <2>3, <1>4, <1>5, <1>6, <1>7, <1>8, <1>14 DEF Run, Initialize, Loop
  <2> QED BY <2>2, <2>3, <1>3, <1>6, <1>14 DEF Next

LEMMA RefStep ==
  ASSUME IInv, [Next]_vars
  PROVE  RefType'
<1> USE DEF IInv
<1>1. RefType
  BY TypeParts
<1>2. UNCHANGED refVars => RefType'
  BY <1>1 DEF RefType, refVars
<1>3. ASSUME AtDocument', old_document' \in BOOLEAN, headIsSet' \in BOOLEAN PROVE RefType'
  BY <1>3, HandStep DEF RefType, InHand
<1>4. CASE Pop
  <2>1. urlref' \in URLs \cup {NoURL}
    BY <1>1, <1>4 DEF Pop, srv!Waiting, RefType
  <2> QED BY <1>1, <1>4, <2>1 DEF Pop, RefType
<1>5. CASE ParseUrl
  <2>1. AtDocument' /\ headIsSet' = FALSE
    BY <1>5 DEF ParseUrl, AtDocument
  <2>2. CASE docs!Known(urlref)
    <3>1. docs!Lookup(urlref) \in DocumentRefs
      BY <1>5, <2>2, KnownType DEF ParseUrl, InHand, OpenInRun
    <3>2. old_document' = docs!Lookup(urlref).accessed
      BY <1>5, <2>2 DEF ParseUrl
    <3> QED BY <1>3, <2>1, <3>1, <3>2 DEF DocumentRefs
  <2>3. CASE ~docs!Known(urlref)
    BY <1>3, <1>5, <2>1, <2>3 DEF ParseUrl
  <2> QED BY <2>2, <2>3
<1>6. ASSUME NEW s, Outcome(s) PROVE RefType'
  BY <1>1, <1>3, <1>6 DEF Outcome, AtDocument, RefType
<1>7. CASE NotChanged \/ NotFound \/ NoHost \/ NotParsable \/ Duplicate \/ NotModified
  BY <1>6, <1>7 DEF NotChanged, NotFound, NoHost, NotParsable, Duplicate, NotModified
<1>8. ASSUME NEW u \in URLs, NEW d \in Descriptions, Redirect(u, d) PROVE RefType'
  BY <1>1, <1>3, <1>8 DEF Redirect, AtDocument, RefType
<1>9. ASSUME NEW p \in BOOLEAN, FirstRetrieval(p) \/ Changed(p) PROVE RefType'
  BY <1>1, <1>3, <1>9 DEF FirstRetrieval, Changed, Parse, AtDocument, RefType
<1>10. CASE GotNoindex \/ RetrievedDocument
  BY <1>1, <1>3, <1>10 DEF GotNoindex, InDocument, RetrievedDocument, AtDocument, RefType
<1>11. ASSUME NEW u \in URLs, NEW d \in Descriptions, NEW hops \in LinkHops,
              GotHref(u, d, hops) \/ GotHrefTooFar(u, d, hops)
       PROVE  UNCHANGED refVars
  BY <1>11 DEF GotHref, GotHrefTooFar, InDocument, refVars
<1>12. CASE GotWord \/ \E d \in Descriptions : GotHrefToSelf(d)
  BY <1>2, <1>12 DEF GotWord, GotHrefToSelf, InDocument, refVars
<1>13. CASE Finish
  BY <1>13 DEF Finish, NoDocument, RefType
<1>14. CASE \/ Initialize \/ Round \/ Pick \/ ServerDone \/ SaveLog \/ CloseRun \/ Signal
            \/ UNCHANGED vars \/ (\E u \in URLs : PageChange(u))
            \/ (\E m \in Modes : StartRun(m))
  BY <1>2, <1>14 DEF Initialize, Initial, NextSource, Start, Round, Pick, ServerDone,
     SaveLog, CloseRun, Signal, vars, PageChange, StartRun
<1> QED
  <2>1. CASE Answer
    BY <2>1, <1>7, <1>8, <1>9 DEF Answer
  <2>2. CASE ParserCall
    BY <2>2, <1>2, <1>10, <1>11, <1>12 DEF ParserCall
  <2>3. CASE Run
    BY <2>1, <2>3, <1>4, <1>5, <1>10, <1>13, <1>14 DEF Run, Loop
  <2> QED BY <2>2, <2>3, <1>14 DEF Next

LEMMA EnqueueHistory ==
  ASSUME HistoryType, NEW u \in URLs, NEW newDoc \in BOOLEAN, Enqueue(u, newDoc)
  PROVE  visited' \subseteq WrittenURLs /\ accepted' \subseteq URLs
BY DEF Enqueue, Mark, HistoryType, WrittenURLs

LEMMA HistoryStep ==
  ASSUME IInv, [Next]_vars
  PROVE  HistoryType'
<1> USE DEF IInv
<1>1. HistoryType
  BY TypeParts
<1> DEFINE Seen == <<history, visited>>
<1>2. pc' \in Places /\ UNCHANGED Seen => HistoryType'
  BY <1>1 DEF HistoryType, history
<1>3. ASSUME NEW url \in WrittenURLs, Initial(url) PROVE HistoryType'
  BY <1>1, <1>3 DEF Initial, Mark, HistoryType
<1>4. CASE ParseUrl
  BY <1>1, <1>4 DEF ParseUrl, InHand, HistoryType, Places
<1>5. ASSUME NEW u \in URLs, NEW d \in Descriptions, Redirect(u, d) PROVE HistoryType'
  BY <1>1, <1>5, EnqueueHistory DEF Redirect, HistoryType, Places
<1>6. ASSUME NEW u \in URLs, NEW d \in Descriptions, NEW hops \in LinkHops,
             GotHref(u, d, hops)
      PROVE  HistoryType'
  BY <1>1, <1>6, EnqueueHistory DEF GotHref, InDocument, HistoryType
<1>7. CASE NotChanged \/ NotFound \/ NoHost \/ NotParsable \/ Duplicate \/ NotModified
  BY <1>2, <1>7 DEF NotChanged, NotFound, NoHost, NotParsable, Duplicate, NotModified,
     Outcome, AtStatus, Retrieved, history, Places
<1>8. ASSUME NEW p \in BOOLEAN, FirstRetrieval(p) \/ Changed(p) PROVE HistoryType'
  BY <1>2, <1>8 DEF FirstRetrieval, Changed, Retrieved, Parse, history, Places
<1>9. ASSUME NEW u \in URLs, NEW d \in Descriptions, NEW hops \in LinkHops,
             GotHrefTooFar(u, d, hops)
      PROVE  HistoryType'
  BY <1>1, <1>2, <1>9 DEF GotHrefTooFar, InDocument, history, HistoryType
<1>10. CASE GotWord \/ GotNoindex \/ \E d \in Descriptions : GotHrefToSelf(d)
  BY <1>1, <1>2, <1>10 DEF GotWord, GotNoindex, GotHrefToSelf, InDocument, history, HistoryType
<1>11. CASE CloseRun
  BY <1>11 DEF CloseRun, HistoryType, Places
<1>12. CASE NextSource \/ Start \/ Loop \/ RetrievedDocument \/ Finish \/ SaveLog
  BY <1>1, <1>2, <1>12 DEF NextSource, Start, Loop, Round, Pick, Pop, ServerDone,
     RetrievedDocument, Finish, SaveLog, Places, HistoryType
<1>13. CASE Signal \/ UNCHANGED vars \/ (\E u \in URLs : PageChange(u))
            \/ (\E m \in Modes : StartRun(m))
  BY <1>1, <1>2, <1>13 DEF Signal, vars, PageChange, StartRun, Places, HistoryType
<1> QED
  <2>1. CASE Answer
    BY <2>1, <1>5, <1>7, <1>8 DEF Answer
  <2>2. CASE ParserCall
    BY <2>2, <1>6, <1>9, <1>10 DEF ParserCall
  <2>3. CASE Run
    BY <2>1, <2>3, <1>3, <1>4, <1>11, <1>12 DEF Run, Initialize
  <2> QED BY <2>2, <2>3, <1>13 DEF Next

LEMMA OpenStep ==
  ASSUME IInv, [Next]_vars
  PROVE  OpenInRun'
<1> USE DEF IInv
<1>1. ASSUME isopen' = isopen, pc # "idle", pc' # "idle" PROVE OpenInRun'
  BY <1>1 DEF OpenInRun
<1>2. ASSUME UNCHANGED <<isopen, pc>> PROVE OpenInRun'
  BY <1>2 DEF OpenInRun
<1>3. ASSUME NEW m \in Modes, StartRun(m) PROVE OpenInRun'
  BY <1>3 DEF StartRun, docs!Open, docs!OpenErased, OpenInRun
<1>4. CASE CloseRun
  BY <1>4 DEF CloseRun, docs!Close, OpenInRun
<1>5. ASSUME NEW u \in URLs, NEW d \in Descriptions, Redirect(u, d) PROVE OpenInRun'
  BY <1>1, <1>5 DEF Redirect, docs!Add, docs!NextDocIDAndAdd, docs!NextDocID, docVars
<1>6. ASSUME NEW u \in URLs, NEW d \in Descriptions, NEW hops \in LinkHops,
             GotHref(u, d, hops) \/ GotHrefTooFar(u, d, hops)
      PROVE  OpenInRun'
  BY <1>2, <1>6 DEF GotHref, GotHrefTooFar, InDocument, docs!Add, docs!NextDocIDAndAdd,
     docs!NextDocID, docVars
<1>7. CASE GotWord \/ GotNoindex \/ \E d \in Descriptions : GotHrefToSelf(d)
  BY <1>2, <1>7 DEF GotWord, GotNoindex, GotHrefToSelf, InDocument, docVars
<1>8. CASE NotChanged \/ NotFound \/ NoHost \/ NotParsable \/ Duplicate \/ NotModified
  BY <1>1, <1>8 DEF NotChanged, NotFound, NoHost, NotParsable, Duplicate, NotModified,
     Outcome, AtStatus, Retrieved, docVars
<1>9. ASSUME NEW p \in BOOLEAN, FirstRetrieval(p) \/ Changed(p) PROVE OpenInRun'
  BY <1>1, <1>9 DEF FirstRetrieval, Changed, Retrieved, Parse, docVars,
     docs!NextDocIDAndAdd, docs!NextDocID
<1>10. CASE ParseUrl \/ Finish
  BY <1>1, <1>10 DEF ParseUrl, Finish, docVars, docs!NextDocID, docs!Add
<1>11. CASE Initialize \/ Loop \/ RetrievedDocument \/ SaveLog
  BY <1>1, <1>11 DEF Initialize, Initial, NextSource, Start, Loop, Round, Pick, Pop,
     ServerDone, RetrievedDocument, SaveLog, docVars
<1>12. CASE Signal \/ UNCHANGED vars \/ \E u \in URLs : PageChange(u)
  BY <1>2, <1>12 DEF Signal, vars, PageChange, docVars
<1> QED
  <2>1. CASE Answer
    BY <2>1, <1>5, <1>8, <1>9 DEF Answer
  <2>2. CASE ParserCall
    BY <2>2, <1>6, <1>7 DEF ParserCall
  <2>3. CASE Run
    BY <2>1, <2>3, <1>4, <1>10, <1>11 DEF Run
  <2> QED BY <2>2, <2>3, <1>3, <1>12 DEF Next

-----------------------------------------------------------------------------
LEMMA InitInvariant == Init => IInv
<1> SUFFICES ASSUME Init PROVE IInv
  OBVIOUS
<1> USE DEF Init
<1>1. DocsInv
  <2>1. DB!Init
    BY SameConstants DEF docs!Init, DB!Init, docs!NoTables, DB!NoTables
  <2> QED BY <2>1, DBAssumptions, DB!TypeInit, DB!InitConsistent, SameInv DEF DB!IInv
<1>2. WordsInv /\ srv!TypeOK /\ QueuesRegistered
  BY DEF WordsInv, wordList!Init, wordList!TypeOK, srv!Init, srv!TypeOK, QueuesRegistered
<1>3. DiskType
  BY RetrieverAssumption DEF DiskType, Versions
<1>4. LoopType /\ HistoryType
  <2>1. runs \in 0 .. MaxRuns /\ count \in Nat
    BY RetrieverAssumption
  <2>2. noSignal \in BOOLEAN /\ more \in BOOLEAN
    OBVIOUS
  <2>3. HistoryType
    BY DEF HistoryType, Places
  <2> QED BY <2>1, <2>2, <2>3 DEF LoopType
<1>5. RefType
  BY DEF RefType
<1>6. InHand /\ OpenInRun
  BY DEF InHand, AtDocument, OpenInRun, docs!Init
<1> QED BY <1>1, <1>2, <1>3, <1>4, <1>5, <1>6, TypeParts DEF IInv, DocsInv

LEMMA StepInvariant == IInv /\ [Next]_vars => IInv'
<1> SUFFICES ASSUME IInv, [Next]_vars PROVE IInv'
  OBVIOUS
<1>1. DocsInv' /\ WordsInv' /\ ServersInv'
  BY DocsInvKept, WordsStep, ServersStep
<1>2. DiskType' /\ LoopType' /\ RefType' /\ HistoryType'
  BY DiskStep, LoopStep, RefStep, HistoryStep
<1>3. InHand' /\ OpenInRun'
  BY HandStep, OpenStep
<1>4. TypeOK'
  BY <1>1, <1>2 DEF TypeOK, DocsInv, WordsInv, ServersInv, DiskType, LoopType, RefType, HistoryType
<1> QED BY <1>1, <1>3, <1>4 DEF IInv, ServersInv

LEMMA Invariance == Spec => []IInv
BY InitInvariant, StepInvariant, PTL DEF Spec

(* Every variable of a dig keeps its type, in every run of hldig. *)
THEOREM TypeCorrect == Spec => []TypeOK
<1>1. IInv => TypeOK
  BY DEF IInv
<1> QED BY <1>1, Invariance, PTL

(* A dig uses the document database as DocumentDB allows and so implements  *)
(* it: parse_url, got_href and got_redirect only write records under IDs    *)
(* that were handed out, and never under the ID of another URL's document,  *)
(* although the record in hand is written back long after it was read.      *)
THEOREM ImplementsDocumentDB == Spec => DocsSpec
<1>1. Init => docs!Init
  BY DEF Init
<1>2. IInv /\ [Next]_vars => [docs!Next]_(docs!vars)
  BY DocsStep
<1> QED BY <1>1, <1>2, Invariance, PTL DEF Spec, DocsSpec, docs!Spec

-----------------------------------------------------------------------------
(* A URL is retrieved once.  Where every start URL is written in its normal *)
(* form, a URL that waits or was retrieved is a visited one, it waits once  *)
(* at most, and not at all once it was retrieved.                           *)

OnceInv ==
  /\ \A u \in URLs : queued[u] > 0 => queued[u] = 1 /\ u \in visited
  /\ \A u \in fetched : u \in visited /\ queued[u] = 0
  /\ pc = "parse_url" =>
       urlref \in visited /\ queued[urlref] = 0 /\ urlref \notin fetched
  /\ pc \in {"idle", "initial"} => fetched = {}
  /\ pc = "initial" /\ from = FromDocsFirst => todo \cap visited = {}

(* Pushing a URL that was not visited, and marking it. *)
LEMMA PushOnce ==
  ASSUME TypeOK, OnceInv, NEW u \in URLs, NEW newDoc, u \notin visited,
         srv!Push(u, newDoc) \/ UNCHANGED <<documents, queued>>,
         visited' = visited \cup {u}, fetched' = fetched
  PROVE  /\ \A v \in URLs : queued'[v] > 0 => queued'[v] = 1 /\ v \in visited'
         /\ \A v \in fetched' : v \in visited' /\ queued'[v] = 0
<1>1. queued \in [URLs -> Nat] /\ fetched \subseteq URLs
  BY DEF TypeOK, srv!TypeOK
<1>2. queued[u] = 0 /\ u \notin fetched
  BY <1>1 DEF OnceInv
<1>3. queued' = queued \/ queued' = [queued EXCEPT ![u] = queued[u] + 1]
  BY DEF srv!Push, srv!queueVars
<1> QED BY <1>1, <1>2, <1>3 DEF OnceInv

LEMMA EnqueueOnce ==
  ASSUME TypeOK, OnceInv, NEW u \in URLs, NEW newDoc, Enqueue(u, newDoc),
         fetched' = fetched, pc' \notin {"idle", "initial", "parse_url"}
  PROVE  OnceInv'
<1>1. CASE u \in visited
  BY <1>1 DEF Enqueue, serverVars, OnceInv
<1>2. CASE u \notin visited
  BY <1>2, PushOnce DEF Enqueue, Mark, OnceInv
<1> QED BY <1>1, <1>2

LEMMA OnceStep ==
  ASSUME StartURLs \subseteq URLs, TypeOK, OnceInv, [Next]_vars
  PROVE  OnceInv'
<1> DEFINE Seen == <<queued, visited, fetched>>
<1>1. ASSUME UNCHANGED Seen,
             pc' \notin {"initial", "idle", "parse_url"}
             \/ UNCHANGED <<pc, from, todo, urlref>>
      PROVE  OnceInv'
  BY <1>1 DEF OnceInv
<1>2. ASSUME NEW url \in WrittenURLs, Initial(url) PROVE OnceInv'
  <2>1. url \in URLs /\ Normal[url] = url
    BY RetrieverAssumption DEF WrittenURLs
  <2>2. UNCHANGED <<pc, from, fetched>> /\ todo' = todo \ {url} /\ pc = "initial" /\ url \in todo
    BY <1>2 DEF Initial
  <2>3. CASE UNCHANGED <<documents, queued, visited>>
    BY <2>2, <2>3 DEF OnceInv
  <2>4. CASE /\ ~(from # FromDocsFirst /\ url \in visited)
             /\ srv!Push(url, TRUE) \/ UNCHANGED <<documents, queued>>
             /\ visited' = visited \cup {url}
    <3>1. url \notin visited
      BY <2>2, <2>4 DEF OnceInv
    <3>2. /\ \A v \in URLs : queued'[v] > 0 => queued'[v] = 1 /\ v \in visited'
          /\ \A v \in fetched' : v \in visited' /\ queued'[v] = 0
      BY <2>1, <2>2, <2>4, <3>1, PushOnce
    <3> QED BY <2>2, <2>4, <3>2 DEF OnceInv
  <2> QED BY <1>2, <2>1, <2>3, <2>4 DEF Initial, Mark
<1>3. CASE NextSource
  <2>1. UNCHANGED Seen /\ pc = "initial" /\ pc' = pc
    BY <1>3 DEF NextSource, serverVars, history
  <2>2. from' = FromDocsFirst => visited' = {}
    BY <1>3 DEF NextSource, FromDocsFirst, FromStart, FromDocsAfterLog
  <2> QED BY <2>1, <2>2 DEF OnceInv
<1>4. ASSUME NEW m \in Modes, StartRun(m) PROVE OnceInv'
  <2>1. UNCHANGED Seen /\ pc = "idle" /\ pc' = "initial" /\ from' # FromDocsFirst
    BY <1>4 DEF StartRun, serverVars, history, FromLog, FromDocsFirst
  <2> QED BY <2>1 DEF OnceInv
<1>5. CASE Pop
  <2>1. PICK u \in URLs : /\ queued[u] > 0 /\ queued' = [queued EXCEPT ![u] = queued[u] - 1]
                          /\ \/ pc' = "pick"
                             \/ pc' = "parse_url" /\ urlref' = u
    BY <1>5 DEF Pop, srv!Waiting, srv!Pop
  <2>2. UNCHANGED <<visited, fetched>> /\ pc = "pop"
    BY <1>5 DEF Pop, history
  <2>3. queued \in [URLs -> Nat] /\ fetched \subseteq URLs
    BY DEF TypeOK, srv!TypeOK
  <2>4. queued[u] = 1 /\ u \in visited /\ u \notin fetched /\ queued'[u] = 0
    BY <2>1, <2>3 DEF OnceInv
  <2> QED BY <2>1, <2>2, <2>3, <2>4 DEF OnceInv
<1>6. CASE ParseUrl
  BY <1>6 DEF ParseUrl, serverVars, OnceInv
<1>7. ASSUME NEW u \in URLs, NEW d \in Descriptions, Redirect(u, d) PROVE OnceInv'
  <2>1. pc' = "finish" /\ fetched' = fetched
    BY <1>7 DEF Redirect
  <2>2. Enqueue(u, FALSE) \/ UNCHANGED <<serverVars, visited>>
    BY <1>7 DEF Redirect
  <2> QED BY <1>1, <2>1, <2>2, EnqueueOnce DEF serverVars
<1>8. ASSUME NEW u \in URLs, NEW d \in Descriptions, NEW hops \in LinkHops,
             GotHref(u, d, hops)
      PROVE  OnceInv'
  BY <1>8, EnqueueOnce DEF GotHref, InDocument
<1>9. ASSUME NEW u \in URLs, NEW d \in Descriptions, NEW hops \in LinkHops,
             GotHrefTooFar(u, d, hops)
      PROVE  OnceInv'
  BY <1>1, <1>9 DEF GotHrefTooFar, InDocument, serverVars
<1>10. CASE GotWord \/ GotNoindex \/ \E d \in Descriptions : GotHrefToSelf(d)
  BY <1>1, <1>10 DEF GotWord, GotNoindex, GotHrefToSelf, InDocument, serverVars
<1>11. CASE NotChanged \/ NotFound \/ NotParsable \/ Duplicate \/ NotModified
  BY <1>1, <1>11 DEF NotChanged, NotFound, NotParsable, Duplicate, NotModified,
     Outcome, AtStatus, Retrieved, serverVars
<1>12. CASE NoHost
  BY <1>1, <1>12 DEF NoHost, Outcome, AtStatus, serverVars, srv!MarkDead
<1>13. ASSUME NEW p \in BOOLEAN, FirstRetrieval(p) \/ Changed(p) PROVE OnceInv'
  BY <1>1, <1>13 DEF FirstRetrieval, Changed, Retrieved, Parse, serverVars
<1>14. CASE Start \/ Round \/ Pick \/ ServerDone \/ RetrievedDocument \/ Finish
  BY <1>1, <1>14 DEF Start, Round, Pick, ServerDone, RetrievedDocument, Finish,
     serverVars, history
<1>15. CASE SaveLog
  BY <1>15 DEF SaveLog, srv!PopAll, serverVars, history, OnceInv, TypeOK
<1>16. CASE CloseRun
  BY <1>16 DEF CloseRun, srv!Reset, OnceInv
<1>17. CASE Signal \/ UNCHANGED vars \/ \E u \in URLs : PageChange(u)
  BY <1>1, <1>17 DEF Signal, PageChange, vars, serverVars, history, loopVars, refVars
<1> QED
  <2>1. CASE Answer
    BY <2>1, <1>7, <1>11, <1>12, <1>13 DEF Answer
  <2>2. CASE ParserCall
    BY <2>2, <1>8, <1>9, <1>10 DEF ParserCall
  <2>3. CASE Run
    BY <2>1, <2>3, <1>2, <1>3, <1>5, <1>6, <1>14, <1>15, <1>16 DEF Run, Initialize, Loop
  <2> QED BY <2>2, <2>3, <1>4, <1>17 DEF Next

(* No dig retrieves a URL twice, whatever the site's links and redirects,   *)
(* the log, the database and the start URLs have in common, when the start  *)
(* URLs are written in normal form.                                         *)
THEOREM EachURLOnce ==
  ASSUME StartURLs \subseteq URLs
  PROVE  Spec => []FetchedOnce
<1>1. Init => OnceInv
  BY DEF Init, srv!Init, OnceInv
<1>2. TypeOK /\ OnceInv /\ [Next]_vars => OnceInv'
  BY OnceStep
<1>3. OnceInv => FetchedOnce
  BY DEF OnceInv, FetchedOnce
<1> QED BY <1>1, <1>2, <1>3, TypeCorrect, PTL DEF Spec

-----------------------------------------------------------------------------
(* What the word database says of the documents.                            *)
(*                                                                          *)
(* A posting is written while its document is in hand, the record of the    *)
(* document only when parse_url ends, and its date in between.  PostInv     *)
(* says which date a posting answers to at each of these moments.           *)

(* A document that was never retrieved has no date. *)
RecordsDated ==
  \A id \in docs!DocIDs : docs!Stored(id) /\ dbf[id].accessed = FALSE => dbf[id].time = NoTime

DatesInv ==
  /\ RecordsDated
  /\ AtDocument => current_ref.accessed = TRUE
  /\ pc = "status" /\ old_document = FALSE => current_ref.time = NoTime

(* The date the words of the document in hand will be found under. *)
HandTime == IF pc = "parsing" THEN version[urlref] ELSE current_ref.time

InHandID(id) == AtDocument /\ id = current_id

PostInv ==
  \A p \in word_db :
    IF InHandID(p[1]) THEN p[2] \in {LinkText, HandTime}
    ELSE docs!Stored(p[1]) /\ p[2] \in {LinkText, dbf[p[1]].time}

IndexInv == BufferOfThisPage /\ DatesInv /\ PostInv

(* No step but an erasure removes a record, and rewriting one that is not   *)
(* in hand leaves its dates alone.                                          *)
DatesKept ==
  \A id : docs!Stored(id) =>
    docs!Stored(id)' /\ dbf'[id].time = dbf[id].time /\ dbf'[id].accessed = dbf[id].accessed

LEMMA IndexTypes ==
  ASSUME IInv
  PROVE  /\ pc \in Places
         /\ words \subseteq docs!DocIDs \X (0 .. MaxVersion)
         /\ word_db \subseteq docs!DocIDs \X (0 .. MaxVersion)
         /\ dbf \in [docs!DocIDs -> DocumentRefs \cup {NoRef}]
         /\ AtDocument => /\ current_ref \in DocumentRefs /\ current_id \in docs!DocIDs
                          /\ current_id < nextDocID /\ urlref \in URLs
                          /\ docs!MayHold(current_id, current_ref)
         /\ \A id : docs!Stored(id) => dbf[id] \in DocumentRefs /\ id \in docs!DocIDs
         /\ isopen <=> pc # "idle"
         /\ isopen => ~docs!Stored(nextDocID) /\ \A id : docs!Stored(id) => id < nextDocID
BY SameConstants
DEF IInv, TypeOK, DocsInv, InHand, OpenInRun, wordList!TypeOK, docs!TypeOK, docs!Stored,
    docs!NextIDFresh, docs!Counter

-----------------------------------------------------------------------------
(* Records that are written. *)

LEMMA RewriteKeepsDates ==
  ASSUME IInv, NEW id \in docs!DocIDs, docs!Stored(id), NEW ref \in DocumentRefs,
         ref.time = dbf[id].time, ref.accessed = dbf[id].accessed,
         dbf' = [dbf EXCEPT ![id] = ref]
  PROVE  /\ DatesKept /\ docs!Stored(id)'
         /\ \A i \in docs!DocIDs : docs!Stored(i)' => docs!Stored(i)
<1>1. ref # NoRef
  BY RetrieverAssumption
<1> QED BY <1>1, IndexTypes DEF DatesKept, docs!Stored

LEMMA NewKeepsDates ==
  ASSUME IInv, isopen, NEW id \in docs!DocIDs, id = nextDocID, NEW ref \in DocumentRefs,
         dbf' = [dbf EXCEPT ![id] = ref]
  PROVE  /\ DatesKept /\ docs!Stored(id)' /\ dbf'[id] = ref
         /\ \A i \in docs!DocIDs : docs!Stored(i)' => docs!Stored(i) \/ i = id
<1>1. ref # NoRef
  BY RetrieverAssumption
<1>2. dbf \in [docs!DocIDs -> DocumentRefs \cup {NoRef}] /\ ~docs!Stored(id)
  BY IndexTypes
<1>3. dbf'[id] = ref /\ \A i \in docs!DocIDs \ {id} : dbf'[i] = dbf[i]
  BY <1>2
<1>4. DatesKept
  BY <1>2, <1>3 DEF DatesKept, docs!Stored
<1> QED BY <1>1, <1>3, <1>4 DEF docs!Stored

LEMMA NewRefDates ==
  ASSUME NEW u, NEW hop
  PROVE  NewRef(u, hop).time = NoTime /\ NewRef(u, hop).accessed = FALSE
BY DEF NewRef

LEMMA LowerDates ==
  ASSUME NEW ref \in DocumentRefs, NEW hop
  PROVE  Lower(ref, hop).time = ref.time /\ Lower(ref, hop).accessed = ref.accessed
BY DEF Lower, DocumentRefs

(* A link or a redirect finds or makes its target.                          *)
LEMMA TargetDates ==
  ASSUME IInv, isopen, RecordsDated, NEW u \in URLs, NEW hop \in 0 .. MaxHops, NEW id,
         id = IF docs!Known(u) THEN i_dbf[u] ELSE nextDocID,
         IF docs!Known(u) THEN docs!Add(id, Lower(docs!Lookup(u), hop), FALSE)
                          ELSE docs!NextDocIDAndAdd(id, NewRef(u, hop), FALSE)
  PROVE  DatesKept /\ RecordsDated' /\ docs!Stored(id)'
<1>1. CASE docs!Known(u)
  <2>1. /\ id \in docs!DocIDs /\ docs!Lookup(u) \in DocumentRefs
        /\ docs!Stored(id) /\ docs!Lookup(u) = dbf[id]
    BY <1>1, KnownType DEF IInv, docs!Known, docs!Lookup
  <2> DEFINE ref == Lower(docs!Lookup(u), hop)
  <2>2. /\ ref \in DocumentRefs
        /\ ref.time = dbf[id].time /\ ref.accessed = dbf[id].accessed
    <3>1. ref \in DocumentRefs
      BY <2>1, EditType
    <3>2. /\ ref.time = docs!Lookup(u).time
          /\ ref.accessed = docs!Lookup(u).accessed
      BY <2>1, LowerDates
    <3> QED BY <2>1, <3>1, <3>2
  <2>3. dbf' = [dbf EXCEPT ![id] = ref]
    BY <1>1 DEF docs!Add, docs!Put
  <2> HIDE DEF ref
  <2>4. /\ DatesKept /\ docs!Stored(id)'
        /\ \A i \in docs!DocIDs : docs!Stored(i)' => docs!Stored(i)
    BY <2>1, <2>2, <2>3, RewriteKeepsDates
  <2> QED BY <2>4 DEF RecordsDated, DatesKept, docs!Stored
<1>2. CASE ~docs!Known(u)
  <2>1. id = nextDocID /\ id \in docs!DocIDs
    BY <1>2, NextIDType DEF docs!NextDocIDAndAdd, IInv
  <2> DEFINE ref == NewRef(u, hop)
  <2>2. ref \in DocumentRefs /\ ref.time = NoTime
    BY NewRefType, NewRefDates
  <2>3. dbf' = [dbf EXCEPT ![id] = ref]
    BY <1>2, <2>1 DEF docs!NextDocIDAndAdd, docs!Put
  <2> HIDE DEF ref
  <2>4. /\ DatesKept /\ docs!Stored(id)' /\ dbf'[id] = ref
        /\ \A i \in docs!DocIDs : docs!Stored(i)' => docs!Stored(i) \/ i = id
    BY <2>1, <2>2, <2>3, NewKeepsDates
  <2>5. RecordsDated'
    BY <2>2, <2>4 DEF RecordsDated, DatesKept, docs!Stored
  <2> QED BY <2>1, <2>4, <2>5
<1> QED BY <1>1, <1>2

-----------------------------------------------------------------------------
(* The kinds of steps. *)

(* Words and descriptions are noted while a document is in hand, and its    *)
(* reference goes from one place in parse_url to a later one.               *)
Noting ==
  /\ UNCHANGED <<urlref, current_id, version>>
  /\ DatesKept /\ RecordsDated'
  /\ current_ref'.accessed = current_ref.accessed
  /\ \E id : /\ id = current_id \/ docs!Stored(id)'
             /\ word_db' \subseteq word_db \cup words \cup {<<id, LinkText>>}
  /\ \/ pc = "parsing" /\ pc' = "parsing"
        /\ words' \subseteq words \cup {<<current_id, version[urlref]>>}
     \/ pc = "parsing" /\ pc' = "finish"
        /\ words' = {} /\ current_ref'.time = version[urlref]
     \/ pc = "status" /\ pc' = "finish"
        /\ words' = {} /\ current_ref'.time = current_ref.time
     \/ pc = "status" /\ pc' = "parsing"
        /\ words' = words /\ current_ref.time = NoTime

(* No document is in hand. *)
Between == ~AtDocument /\ ~AtDocument' /\ UNCHANGED <<words, word_db, dbf>>

Still == UNCHANGED <<words, word_db, dbf, pc, refVars, version>>

LEMMA SameRecords == UNCHANGED dbf /\ RecordsDated => DatesKept /\ RecordsDated'
BY DEF DatesKept, RecordsDated, docs!Stored

LEMMA EditDates ==
  ASSUME NEW ref \in DocumentRefs
  PROVE  /\ \A s : /\ [ref EXCEPT !.state = s].time = ref.time
                  /\ [ref EXCEPT !.state = s].accessed = ref.accessed
         /\ \A t : /\ [ref EXCEPT !.time = t].time = t
                  /\ [ref EXCEPT !.time = t].accessed = ref.accessed
BY DEF DocumentRefs

LEMMA OutcomeNotes ==
  ASSUME IInv, IndexInv, NEW s, Outcome(s), pc = "status", UNCHANGED version
  PROVE  Noting
<1>1. current_ref \in DocumentRefs
  BY IndexTypes DEF AtDocument
<1>2. current_ref'.time = current_ref.time /\ current_ref'.accessed = current_ref.accessed
  BY <1>1, EditDates DEF Outcome
<1>3. /\ UNCHANGED <<urlref, current_id, dbf, word_db>>
      /\ words' = {} /\ pc' = "finish"
  BY DEF Outcome, docVars, wordList!Skip
<1>4. DatesKept /\ RecordsDated'
  BY <1>3, SameRecords DEF IndexInv, DatesInv
<1>5. \E id : /\ id = current_id \/ docs!Stored(id)'
             /\ word_db' \subseteq word_db \cup words \cup {<<id, LinkText>>}
  BY <1>3
<1> QED BY <1>2, <1>3, <1>4, <1>5 DEF Noting

LEMMA CallNotes ==
  ASSUME IndexInv, InDocument, DatesKept, RecordsDated',
         NEW id, id = current_id \/ docs!Stored(id)',
         current_ref'.accessed = current_ref.accessed,
         word_db' \subseteq word_db \cup words \cup {<<id, LinkText>>},
         words' \subseteq words \cup {<<current_id, version[urlref]>>}
  PROVE  Noting
BY DEF Noting, InDocument, diskVars

LEMMA DescriptionNotes ==
  ASSUME NEW id, NEW d, wordList!AddDescription(id, d)
  PROVE  word_db' \subseteq word_db \cup words \cup {<<id, LinkText>>} /\ words' \subseteq words
BY DEF wordList!AddDescription

LEMMA IndexKinds ==
  ASSUME IInv, IndexInv, [Next]_vars
  PROVE  \/ Noting \/ Between \/ Still
         \/ ParseUrl \/ Finish \/ (\E p \in BOOLEAN : Changed(p)) \/ \E m \in Modes : StartRun(m)
<1>0. /\ RecordsDated /\ (UNCHANGED dbf => DatesKept /\ RecordsDated')
      /\ AtDocument => current_ref \in DocumentRefs /\ isopen
  BY SameRecords, IndexTypes DEF IndexInv, DatesInv, AtDocument
<1>1. CASE NotChanged \/ NotFound \/ NoHost \/ NotParsable
  BY <1>1, OutcomeNotes DEF NotChanged, NotFound, NoHost, NotParsable, AtStatus, diskVars
<1>2. CASE Duplicate \/ NotModified
  BY <1>2, OutcomeNotes DEF Duplicate, NotModified, Retrieved
<1>3. ASSUME NEW u \in URLs, NEW d \in Descriptions, Redirect(u, d) PROVE Noting
  <2>1. /\ UNCHANGED <<urlref, current_id, version>>
        /\ pc = "status" /\ pc' = "finish" /\ words' = {}
        /\ current_ref' = [current_ref EXCEPT !.state = "obsolete"]
    BY <1>3 DEF Redirect, diskVars
  <2>2. current_ref'.time = current_ref.time /\ current_ref'.accessed = current_ref.accessed
    BY <1>0, <2>1, EditDates DEF AtDocument
  <2> DEFINE id == IF docs!Known(u) THEN i_dbf[u] ELSE nextDocID
  <2>3. CASE UNCHANGED <<docVars, word_db>>
    BY <1>0, <2>1, <2>2, <2>3 DEF Noting, docVars
  <2>4. CASE ~UNCHANGED <<docVars, word_db>>
    <3>1. /\ IF docs!Known(u) THEN docs!Add(id, Lower(docs!Lookup(u), current_ref.hop), FALSE)
                              ELSE docs!NextDocIDAndAdd(id, NewRef(u, current_ref.hop), FALSE)
          /\ word_db' \subseteq word_db \cup {<<id, LinkText>>}
      BY <1>3, <2>4 DEF Redirect
    <3>2. current_ref.hop \in 0 .. MaxHops
      BY <1>0, <2>1, HopType DEF AtDocument
    <3> HIDE DEF id
    <3>3. \E i : i = id
      OBVIOUS
    <3>4. PICK i : i = id
      BY <3>3
    <3>5. DatesKept /\ RecordsDated' /\ docs!Stored(i)'
      BY <1>0, <2>1, <3>1, <3>2, <3>4, TargetDates DEF AtDocument, id
    <3> QED BY <2>1, <2>2, <3>1, <3>4, <3>5 DEF Noting
  <2> QED BY <2>3, <2>4
<1>4. ASSUME NEW p \in BOOLEAN, FirstRetrieval(p) PROVE Noting
  <2>1. /\ UNCHANGED <<urlref, current_id, version, dbf, word_db>>
        /\ pc = "status" /\ old_document = FALSE
    BY <1>4 DEF FirstRetrieval, Retrieved, docVars, wordVars, wordList!Skip, IInv, TypeOK
  <2>2. /\ current_ref'.time = current_ref.time /\ current_ref'.accessed = current_ref.accessed
        /\ \/ pc' = "parsing" /\ words' = words
           \/ pc' = "finish" /\ words' = {}
    BY <1>0, <1>4, <2>1, EditDates DEF FirstRetrieval, Parse, AtDocument, wordVars, wordList!Skip
  <2>3. current_ref.time = NoTime
    BY <2>1 DEF IndexInv, DatesInv
  <2> QED BY <1>0, <2>1, <2>2, <2>3 DEF Noting
<1>5. CASE RetrievedDocument
  <2>1. /\ UNCHANGED <<urlref, current_id, version, dbf>>
        /\ pc = "parsing" /\ pc' = "finish"
    BY <1>5 DEF RetrievedDocument, docVars, diskVars
  <2>2. words' = {} /\ word_db' \subseteq word_db \cup words
    BY <1>5 DEF RetrievedDocument, wordList!Skip, wordList!Flush
  <2>3. current_ref'.time = version[urlref] /\ current_ref'.accessed = current_ref.accessed
    BY <1>0, <1>5, <2>1, EditDates DEF RetrievedDocument, AtDocument
  <2> QED BY <1>0, <2>1, <2>2, <2>3 DEF Noting
<1>6. CASE GotWord
  BY <1>0, <1>6, CallNotes DEF GotWord, wordList!Replace, docVars
<1>7. CASE GotNoindex
  <2>1. current_ref'.accessed = current_ref.accessed
    BY <1>0, <1>7, EditDates DEF GotNoindex, InDocument, AtDocument
  <2> QED BY <1>0, <1>7, <2>1, CallNotes DEF GotNoindex, docVars, wordVars
<1>8. ASSUME NEW d \in Descriptions, GotHrefToSelf(d) PROVE Noting
  BY <1>0, <1>8, DescriptionNotes, CallNotes DEF GotHrefToSelf, docVars
<1>9. ASSUME NEW u \in URLs, NEW d \in Descriptions, NEW hops \in LinkHops,
             GotHrefTooFar(u, d, hops)
      PROVE  Noting
  <2>1. PICK i : i = i_dbf[u]
    OBVIOUS
  <2>2. docs!Stored(i)' /\ UNCHANGED dbf
    BY <1>9, <2>1 DEF GotHrefTooFar, docs!Known, docs!Stored, docVars
  <2> QED BY <1>0, <1>9, <2>1, <2>2, DescriptionNotes, CallNotes DEF GotHrefTooFar
<1>10. ASSUME NEW u \in URLs, NEW d \in Descriptions, NEW hops \in LinkHops,
              GotHref(u, d, hops)
       PROVE  Noting
  <2>1. PICK i : i = IF docs!Known(u) THEN i_dbf[u] ELSE nextDocID
    OBVIOUS
  <2>2. current_ref.hop + hops \in 0 .. MaxHops
    BY <1>0, <1>10, LinkHopType DEF GotHref, InDocument, AtDocument
  <2>3. DatesKept /\ RecordsDated' /\ docs!Stored(i)'
    BY <1>0, <1>10, <2>1, <2>2, TargetDates DEF GotHref, InDocument, AtDocument
  <2> QED BY <1>10, <2>1, <2>3, DescriptionNotes, CallNotes DEF GotHref
<1>11. CASE Initialize \/ Loop \/ SaveLog \/ \E u \in URLs : PageChange(u)
  <2>1. UNCHANGED <<docVars, wordVars>>
    BY <1>11 DEF Initialize, Initial, NextSource, Start, Loop, Round, Pick, Pop, ServerDone,
       SaveLog, PageChange
  <2>2. ~AtDocument /\ ~AtDocument'
    BY <1>11 DEF Initialize, Initial, NextSource, Start, Loop, Round, Pick, Pop, ServerDone,
       SaveLog, PageChange, AtDocument
  <2> QED BY <2>1, <2>2 DEF Between, docVars, wordVars
<1>12. CASE CloseRun
  BY <1>12 DEF CloseRun, docs!Close, docs!tables, wordVars, AtDocument, Between
<1>13. CASE Signal \/ UNCHANGED vars
  BY <1>13 DEF Signal, vars, docVars, wordVars, diskVars, Still
<1> QED
  <2>1. CASE Answer
    BY <2>1, <1>1, <1>2, <1>3, <1>4 DEF Answer
  <2>2. CASE ParserCall
    BY <2>2, <1>6, <1>7, <1>8, <1>9, <1>10 DEF ParserCall
  <2>3. CASE Run
    BY <2>1, <2>3, <1>5, <1>11, <1>12 DEF Run
  <2> QED BY <2>2, <2>3, <1>11, <1>13 DEF Next

-----------------------------------------------------------------------------
(* Every kind of step keeps the invariant. *)

LEMMA NotingKeeps ==
  ASSUME IInv, IndexInv, AtDocument, Noting
  PROVE  IndexInv'
<1>1. BufferOfThisPage'
  BY DEF IndexInv, BufferOfThisPage, Noting
<1>2. DatesInv'
  BY DEF IndexInv, DatesInv, Noting, AtDocument
<1>3. PICK id : /\ id = current_id \/ docs!Stored(id)'
                /\ word_db' \subseteq word_db \cup words \cup {<<id, LinkText>>}
  BY DEF Noting
<1>4. /\ AtDocument' /\ current_id' = current_id
      /\ HandTime' = HandTime \/ HandTime = LinkText
      /\ \A p \in words : p[1] = current_id /\ p[2] = HandTime'
  BY DEF IndexInv, BufferOfThisPage, Noting, AtDocument, HandTime, NoTime, LinkText
<1>5. ASSUME NEW p \in word_db' PROVE IF InHandID(p[1])' THEN p[2] \in {LinkText, HandTime'}
                                      ELSE docs!Stored(p[1])' /\ p[2] \in {LinkText, dbf'[p[1]].time}
  <2>1. CASE p \in word_db
    <3>1. CASE p[1] = current_id
      BY <1>4, <2>1, <3>1 DEF IndexInv, PostInv, InHandID
    <3>2. CASE p[1] # current_id
      <4>1. docs!Stored(p[1]) /\ p[2] \in {LinkText, dbf[p[1]].time}
        BY <2>1, <3>2 DEF IndexInv, PostInv, InHandID
      <4> QED BY <1>4, <3>2, <4>1 DEF Noting, DatesKept, InHandID
    <3> QED BY <3>1, <3>2
  <2>2. CASE p \in words
    BY <1>4, <2>2 DEF InHandID
  <2>3. CASE p = <<id, LinkText>>
    BY <1>3, <1>4, <2>3 DEF InHandID
  <2> QED BY <1>3, <2>1, <2>2, <2>3
<1> QED BY <1>1, <1>2, <1>5 DEF IndexInv, PostInv

LEMMA BetweenKeeps ==
  ASSUME IndexInv, Between
  PROVE  IndexInv'
<1>1. BufferOfThisPage'
  BY DEF IndexInv, BufferOfThisPage, Between, AtDocument
<1>2. DatesInv'
  BY SameRecords DEF IndexInv, DatesInv, Between, AtDocument
<1>3. PostInv'
  BY DEF IndexInv, PostInv, InHandID, Between, docs!Stored
<1> QED BY <1>1, <1>2, <1>3 DEF IndexInv

LEMMA StillKeeps ==
  ASSUME IndexInv, Still
  PROVE  IndexInv'
<1>1. BufferOfThisPage'
  BY DEF IndexInv, BufferOfThisPage, Still, refVars
<1>2. DatesInv'
  BY SameRecords DEF IndexInv, DatesInv, Still, AtDocument, refVars
<1>3. PostInv'
  BY DEF IndexInv, PostInv, InHandID, HandTime, AtDocument, Still, refVars, docs!Stored
<1> QED BY <1>1, <1>2, <1>3 DEF IndexInv

(* The erasure of hldig -i, or the opening of the tables. *)
LEMMA StartRunKeeps ==
  ASSUME IndexInv, NEW m \in Modes, StartRun(m)
  PROVE  IndexInv'
<1>1. /\ ~AtDocument /\ ~AtDocument' /\ UNCHANGED words
      /\ \/ UNCHANGED <<word_db, dbf>>
         \/ word_db' = {} /\ \A id : ~docs!Stored(id)'
  BY DEF StartRun, docs!Open, docs!OpenErased, docs!tables, docs!Stored, AtDocument
<1>2. CASE UNCHANGED <<word_db, dbf>>
  BY <1>1, <1>2, BetweenKeeps DEF Between
<1>3. CASE word_db' = {} /\ \A id : ~docs!Stored(id)'
  BY <1>1, <1>3 DEF IndexInv, BufferOfThisPage, DatesInv, RecordsDated, PostInv, AtDocument
<1> QED BY <1>1, <1>2, <1>3

(* A URL is taken up: its document is in hand, under its ID or a new one.   *)
LEMMA ParseUrlKeeps ==
  ASSUME IInv, IndexInv, ParseUrl
  PROVE  IndexInv'
<1>1. /\ ~AtDocument /\ AtDocument' /\ pc' = "status"
      /\ UNCHANGED <<words, word_db, dbf>> /\ words = {}
  BY DEF ParseUrl, AtDocument, docVars, wordVars, IndexInv, BufferOfThisPage
<1>2. BufferOfThisPage'
  BY <1>1 DEF BufferOfThisPage
<1>3. /\ current_ref'.accessed = TRUE
      /\ old_document' = FALSE => current_ref'.time = NoTime
      /\ docs!Stored(current_id') => current_ref'.time = dbf[current_id'].time
  <2>1. isopen /\ urlref \in URLs
    BY IndexTypes DEF ParseUrl, IInv, InHand
  <2>2. CASE docs!Known(urlref)
    <3>1. /\ docs!Lookup(urlref) \in DocumentRefs /\ current_id' = i_dbf[urlref]
          /\ docs!Lookup(urlref) = dbf[current_id']
          /\ docs!Stored(i_dbf[urlref]) /\ i_dbf[urlref] \in docs!DocIDs
      BY <2>1, <2>2, KnownType DEF ParseUrl, IInv, docs!Lookup, docs!Known
    <3>2. /\ current_ref' = [docs!Lookup(urlref) EXCEPT !.accessed = TRUE, !.state = "normal"]
          /\ old_document' = docs!Lookup(urlref).accessed
      BY <2>2 DEF ParseUrl
    <3>3. current_ref'.accessed = TRUE /\ current_ref'.time = docs!Lookup(urlref).time
      BY <3>1, <3>2 DEF DocumentRefs
    <3>4. docs!Lookup(urlref).accessed = FALSE => docs!Lookup(urlref).time = NoTime
      BY <3>1 DEF IndexInv, DatesInv, RecordsDated
    <3> QED BY <3>1, <3>2, <3>3, <3>4
  <2>3. CASE ~docs!Known(urlref)
    <3>1. current_id' = nextDocID /\ current_ref' = [NewRef(urlref, 0) EXCEPT !.accessed = TRUE]
      BY <2>3 DEF ParseUrl
    <3>2. current_ref'.accessed = TRUE /\ current_ref'.time = NoTime
      BY <3>1 DEF NewRef
    <3> QED BY <2>1, <3>1, <3>2, IndexTypes
  <2> QED BY <2>2, <2>3
<1>4. DatesInv'
  BY <1>1, <1>3, SameRecords DEF IndexInv, DatesInv
<1>5. ASSUME NEW p \in word_db PROVE IF InHandID(p[1])' THEN p[2] \in {LinkText, HandTime'}
                                     ELSE docs!Stored(p[1])' /\ p[2] \in {LinkText, dbf'[p[1]].time}
  <2>1. docs!Stored(p[1]) /\ p[2] \in {LinkText, dbf[p[1]].time}
    BY <1>1 DEF IndexInv, PostInv, InHandID
  <2>2. HandTime' = current_ref'.time
    BY <1>1 DEF HandTime
  <2>3. CASE p[1] = current_id'
    BY <1>1, <1>3, <2>1, <2>2, <2>3 DEF InHandID
  <2>4. CASE p[1] # current_id'
    BY <1>1, <2>1, <2>4 DEF InHandID, docs!Stored
  <2> QED BY <2>3, <2>4
<1> QED BY <1>1, <1>2, <1>4, <1>5 DEF IndexInv, PostInv

(* parse_url ends: the record in hand is written under its ID. *)
LEMMA FinishKeeps ==
  ASSUME IInv, IndexInv, Finish
  PROVE  IndexInv'
<1>1. /\ pc = "finish" /\ AtDocument /\ ~AtDocument' /\ UNCHANGED <<words, word_db>>
      /\ dbf' = [dbf EXCEPT ![current_id] = current_ref]
  BY DEF Finish, AtDocument, wordVars, docs!Add, docs!Put
<1>2. /\ current_ref \in DocumentRefs /\ current_id \in docs!DocIDs
      /\ dbf \in [docs!DocIDs -> DocumentRefs \cup {NoRef}] /\ current_ref # NoRef
      /\ current_ref.accessed = TRUE
  BY <1>1, IndexTypes, RetrieverAssumption DEF IndexInv, DatesInv
<1>3. /\ dbf'[current_id] = current_ref
      /\ \A id \in docs!DocIDs \ {current_id} : dbf'[id] = dbf[id]
  BY <1>1, <1>2
<1>4. BufferOfThisPage'
  BY <1>1 DEF IndexInv, BufferOfThisPage, AtDocument
<1>5. DatesInv'
  BY <1>1, <1>2, <1>3 DEF IndexInv, DatesInv, RecordsDated, docs!Stored, AtDocument
<1>6. ASSUME NEW p \in word_db PROVE docs!Stored(p[1])' /\ p[2] \in {LinkText, dbf'[p[1]].time}
  <2>1. CASE p[1] = current_id
    <3>1. p[2] \in {LinkText, current_ref.time}
      BY <1>1, <2>1 DEF IndexInv, PostInv, InHandID, HandTime
    <3> QED BY <1>2, <1>3, <2>1, <3>1 DEF docs!Stored
  <2>2. CASE p[1] # current_id
    <3>1. docs!Stored(p[1]) /\ p[2] \in {LinkText, dbf[p[1]].time}
      BY <2>2 DEF IndexInv, PostInv, InHandID
    <3> QED BY <1>3, <2>2, <3>1 DEF docs!Stored
  <2> QED BY <2>1, <2>2
<1>7. PostInv'
  BY <1>1, <1>6 DEF PostInv, InHandID
<1> QED BY <1>4, <1>5, <1>7 DEF IndexInv

(* A new edition: the old record is written as obsolete, with the old date  *)
(* that its words were read from, and the page gets a new ID, under which   *)
(* no word can have been written before.                                    *)
LEMMA ChangedKeeps ==
  ASSUME IInv, IndexInv, NEW p \in BOOLEAN, Changed(p)
  PROVE  IndexInv'
<1> DEFINE obsolete == [current_ref EXCEPT !.state = "obsolete"]
<1>1. /\ pc = "status" /\ AtDocument /\ pc' \in {"parsing", "finish"} /\ AtDocument'
      /\ words' = {} /\ UNCHANGED word_db
      /\ dbf' = [dbf EXCEPT ![current_id] = obsolete]
      /\ current_id' = nextDocID /\ isopen
  BY DEF Changed, Retrieved, Parse, AtDocument, wordList!Skip, docs!NextDocIDAndAdd,
     docs!NextDocID, docs!Put
<1>2. /\ current_ref \in DocumentRefs /\ current_id \in docs!DocIDs
      /\ current_id < nextDocID /\ current_ref.accessed = TRUE
      /\ dbf \in [docs!DocIDs -> DocumentRefs \cup {NoRef}]
  BY <1>1, IndexTypes DEF IndexInv, DatesInv
<1>3. /\ obsolete \in DocumentRefs /\ obsolete # NoRef
      /\ obsolete.time = current_ref.time /\ obsolete.accessed = TRUE
  <2>0. current_ref \in DocumentRefs /\ "obsolete" \in States
    BY <1>2 DEF States
  <2>1. obsolete \in DocumentRefs
    BY <2>0, EditType
  <2>2. obsolete.time = current_ref.time /\ obsolete.accessed = current_ref.accessed
    BY <2>0, EditDates
  <2>3. NoRef \notin DocumentRefs
    BY RetrieverAssumption
  <2> HIDE DEF obsolete
  <2> QED
    BY <1>2, <2>1, <2>2, <2>3
<1> HIDE DEF obsolete
<1>4. /\ dbf'[current_id] = obsolete
      /\ \A id \in docs!DocIDs \ {current_id} : dbf'[id] = dbf[id]
  BY <1>1, <1>2
<1>5. current_ref'.accessed = TRUE
  <2> DEFINE ref == [NewRef(urlref, current_ref.hop) EXCEPT !.accessed = TRUE]
  <2>1. current_ref' = ref \/ current_ref' = [ref EXCEPT !.state = "noindex"]
    BY DEF Changed, Parse
  <2> QED BY <2>1 DEF NewRef
<1>6. BufferOfThisPage'
  BY <1>1 DEF BufferOfThisPage
<1>7. DatesInv'
  BY <1>1, <1>2, <1>3, <1>4, <1>5 DEF IndexInv, DatesInv, RecordsDated, docs!Stored
<1>8. ASSUME NEW q \in word_db
      PROVE  q[1] # nextDocID /\ docs!Stored(q[1])' /\ q[2] \in {LinkText, dbf'[q[1]].time}
  <2>1. CASE q[1] = current_id
    <3>1. q[2] \in {LinkText, current_ref.time}
      BY <1>1, <2>1 DEF IndexInv, PostInv, InHandID, HandTime
    <3>2. q[1] # nextDocID
      BY <1>2, <2>1, SameConstants DEF IInv, TypeOK, docs!TypeOK
    <3> QED BY <1>2, <1>3, <1>4, <2>1, <3>1, <3>2 DEF docs!Stored
  <2>2. CASE q[1] # current_id
    <3>1. docs!Stored(q[1]) /\ q[2] \in {LinkText, dbf[q[1]].time}
      BY <2>2 DEF IndexInv, PostInv, InHandID
    <3>2. q[1] # nextDocID
      BY <1>1, <3>1, IndexTypes
    <3> QED BY <1>4, <2>2, <3>1, <3>2 DEF docs!Stored
  <2> QED BY <2>1, <2>2
<1>9. PostInv'
  BY <1>1, <1>8 DEF PostInv, InHandID
<1> QED BY <1>6, <1>7, <1>9 DEF IndexInv

LEMMA IndexStep == IInv /\ IndexInv /\ [Next]_vars => IndexInv'
<1> SUFFICES ASSUME IInv, IndexInv, [Next]_vars PROVE IndexInv'
  OBVIOUS
<1>1. CASE Noting
  BY <1>1, NotingKeeps DEF Noting, AtDocument
<1>2. CASE Between \/ Still
  BY <1>2, BetweenKeeps, StillKeeps
<1>3. CASE ParseUrl \/ Finish \/ \E p \in BOOLEAN : Changed(p)
  BY <1>3, ParseUrlKeeps, FinishKeeps, ChangedKeeps
<1>4. CASE \E m \in Modes : StartRun(m)
  BY <1>4, StartRunKeeps
<1> QED BY <1>1, <1>2, <1>3, <1>4, IndexKinds

LEMMA IndexInvariance == Spec => [](IInv /\ IndexInv)
<1>1. Init => IndexInv
  <2> SUFFICES ASSUME Init PROVE IndexInv
    OBVIOUS
  <2>1. words = {} /\ word_db = {} /\ ~AtDocument
    BY DEF Init, wordList!Init, AtDocument
  <2>2. \A id : ~docs!Stored(id)
    BY DEF Init, docs!Init, docs!NoTables, docs!Stored
  <2>3. DatesInv
    BY <2>1, <2>2 DEF DatesInv, RecordsDated, AtDocument
  <2> QED BY <2>1, <2>3 DEF IndexInv, BufferOfThisPage, PostInv
<1> QED BY <1>1, InitInvariant, StepInvariant, IndexStep, PTL DEF Spec

(* The word buffer is empty whenever no page is being parsed, and then has  *)
(* words of that page only: every way out of parse_url skips or flushes it. *)
THEOREM BufferIsClean == Spec => []BufferOfThisPage
<1>1. IndexInv => BufferOfThisPage
  BY DEF IndexInv
<1> QED BY <1>1, IndexInvariance, PTL

(* Every posting leads to a document, and the words of a body to the record *)
(* of the version they were read from, after any number of changes of the   *)
(* page and of digs, although words are written before their record is.     *)
THEOREM PostingsAreDated == Spec => []PostingsMatchRecords
<1>1. IndexInv => PostingsMatchRecords
  BY DEF IndexInv, PostInv, InHandID, PostingsMatchRecords
<1> QED BY <1>1, IndexInvariance, PTL

-----------------------------------------------------------------------------
(* The records and the URL index.  A step writes one record at most, and    *)
(* its index entry with it.                                                 *)

Wrote(id, ref) ==
  /\ id \in docs!DocIDs /\ ref \in DocumentRefs
  /\ dbf' = [dbf EXCEPT ![id] = ref]
  /\ i_dbf' = [i_dbf EXCEPT ![ref.url] = id]

(* A document that is in hand stays so. *)
HandStays ==
  /\ AtDocument' <=> AtDocument
  /\ AtDocument => UNCHANGED <<urlref, current_id>> /\ current_ref'.hop = current_ref.hop

(* Where the page in hand leads, and the hop count it offers. *)
Leads(u, hop) ==
  \/ u \in Links[urlref] \ {urlref} /\ \E hops \in LinkHops : hop = current_ref.hop + hops
  \/ u \in Redirects[urlref] /\ hop = current_ref.hop

(* The record a link or a redirect writes. *)
Target(u, hop, id, ref) ==
  \/ docs!Known(u) /\ id = i_dbf[u] /\ ref = Lower(docs!Lookup(u), hop)
  \/ ~docs!Known(u) /\ id = nextDocID /\ ref = NewRef(u, hop)

Linked ==
  /\ AtDocument /\ HandStays
  /\ \E u \in URLs, hop \in 0 .. MaxHops :
       /\ Leads(u, hop)
       /\ \E id, ref : Wrote(id, ref) /\ Target(u, hop, id, ref)
       /\ \E newDoc \in BOOLEAN : Enqueue(u, newDoc)

LEMMA WroteFacts ==
  ASSUME IInv, NEW id, NEW ref, Wrote(id, ref)
  PROVE  /\ dbf'[id] = ref /\ \A i \in docs!DocIDs \ {id} : dbf'[i] = dbf[i]
         /\ ref.url \in URLs /\ i_dbf'[ref.url] = id
         /\ \A u \in URLs \ {ref.url} : i_dbf'[u] = i_dbf[u]
         /\ docs!Stored(id)' /\ \A i : i # id => (docs!Stored(i)' <=> docs!Stored(i))
<1>1. dbf \in [docs!DocIDs -> DocumentRefs \cup {NoRef}]
  BY IndexTypes
<1>2. i_dbf \in [URLs -> docs!DocIDs \cup {docs!NoDocID}]
  BY DEF IInv, DocsInv, docs!TypeOK
<1>3. ref.url \in URLs /\ ref # NoRef
  BY RetrieverAssumption DEF Wrote, DocumentRefs
<1>4. /\ dbf'[id] = ref /\ \A i \in docs!DocIDs \ {id} : dbf'[i] = dbf[i]
      /\ i_dbf'[ref.url] = id /\ \A u \in URLs \ {ref.url} : i_dbf'[u] = i_dbf[u]
  BY <1>1, <1>2, <1>3 DEF Wrote
<1> QED BY <1>3, <1>4 DEF Wrote, docs!Stored

LEMMA Indexed ==
  ASSUME IInv, NEW u \in URLs, i_dbf[u] \in docs!DocIDs
  PROVE  docs!Known(u)
<1>1. i_dbf[u] # docs!NoDocID
  BY SameConstants
<1> QED BY <1>1 DEF IInv, DocsInv, docs!IndexConsistent, docs!Known

(* The entries of other URLs are left alone, and what they lead to. *)
LEMMA OthersKept ==
  ASSUME IInv, NEW id, NEW ref, Wrote(id, ref), docs!MayHold(id, ref),
         NEW v \in URLs, v # ref.url
  PROVE  /\ i_dbf'[v] = i_dbf[v]
         /\ docs!Known(v)' <=> docs!Known(v)
         /\ docs!Known(v) => docs!Lookup(v)' = docs!Lookup(v)
<1>1. i_dbf'[v] = i_dbf[v]
  BY WroteFacts
<1>2. CASE docs!Known(v)
  <2>1. i_dbf[v] # docs!NoDocID /\ dbf[i_dbf[v]] # NoRef /\ i_dbf[v] \in docs!DocIDs
    BY <1>2, SameConstants DEF docs!Known, docs!Stored
  <2>2. dbf[i_dbf[v]].url = v
    BY <2>1 DEF IInv, DocsInv, docs!IndexConsistent
  <2>3. i_dbf[v] # id
    BY <2>1, <2>2 DEF docs!MayHold
  <2>4. dbf'[i_dbf[v]] = dbf[i_dbf[v]]
    BY <2>1, <2>3, WroteFacts
  <2> QED BY <1>1, <1>2, <2>1, <2>4 DEF docs!Known, docs!Stored, docs!Lookup
<1>3. CASE ~docs!Known(v)
  <2>1. i_dbf[v] \notin docs!DocIDs
    BY <1>3, Indexed
  <2> QED BY <1>1, <1>3, <2>1 DEF docs!Known, docs!Stored
<1> QED BY <1>2, <1>3

LEMMA TargetWrites ==
  ASSUME IInv, isopen, NEW u \in URLs, NEW hop \in 0 .. MaxHops, NEW id,
         id = IF docs!Known(u) THEN i_dbf[u] ELSE nextDocID,
         IF docs!Known(u) THEN docs!Add(id, Lower(docs!Lookup(u), hop), FALSE)
                          ELSE docs!NextDocIDAndAdd(id, NewRef(u, hop), FALSE)
  PROVE  \E ref : Wrote(id, ref) /\ Target(u, hop, id, ref)
<1>1. CASE docs!Known(u)
  <2> DEFINE ref == Lower(docs!Lookup(u), hop)
  <2>1. id \in docs!DocIDs /\ ref \in DocumentRefs
    BY <1>1, KnownType, EditType DEF IInv
  <2>2. Wrote(id, ref)
    BY <1>1, <2>1 DEF Wrote, docs!Add, docs!Put
  <2> QED BY <1>1, <2>2 DEF Target
<1>2. CASE ~docs!Known(u)
  <2> DEFINE ref == NewRef(u, hop)
  <2>1. id \in docs!DocIDs /\ ref \in DocumentRefs
    BY <1>2, NextIDType, NewRefType DEF IInv, docs!NextDocIDAndAdd
  <2>2. Wrote(id, ref)
    BY <1>2, <2>1 DEF Wrote, docs!NextDocIDAndAdd, docs!Put
  <2> QED BY <1>2, <2>2 DEF Target
<1> QED BY <1>1, <1>2

LEMMA EditHop ==
  ASSUME NEW ref \in DocumentRefs
  PROVE  /\ \A s : [ref EXCEPT !.state = s].hop = ref.hop
         /\ \A t : [ref EXCEPT !.time = t].hop = ref.hop
BY DEF DocumentRefs

(* Links and redirects, when they write anything. *)
LEMMA RedirectLinks ==
  ASSUME IInv, NEW u \in URLs, NEW d \in Descriptions, Redirect(u, d)
  PROVE  (UNCHANGED <<dbf, i_dbf, serverVars, visited>> /\ HandStays) \/ Linked
<1>1. /\ AtDocument /\ AtDocument' /\ UNCHANGED <<urlref, current_id>>
      /\ Leads(u, current_ref.hop)
      /\ current_ref' = [current_ref EXCEPT !.state = "obsolete"]
  BY DEF Redirect, AtDocument, Leads
<1>2. current_ref \in DocumentRefs /\ isopen
  BY <1>1, IndexTypes DEF AtDocument
<1>3. HandStays
  BY <1>1, <1>2, EditHop DEF HandStays
<1>4. CASE UNCHANGED <<docVars, serverVars, visited>>
  BY <1>3, <1>4 DEF docVars, serverVars
<1>5. CASE ~UNCHANGED <<docVars, serverVars, visited>>
  <2> DEFINE id == IF docs!Known(u) THEN i_dbf[u] ELSE nextDocID
  <2>1. /\ IF docs!Known(u) THEN docs!Add(id, Lower(docs!Lookup(u), current_ref.hop), FALSE)
                            ELSE docs!NextDocIDAndAdd(id, NewRef(u, current_ref.hop), FALSE)
        /\ Enqueue(u, FALSE)
    BY <1>5 DEF Redirect
  <2>2. current_ref.hop \in 0 .. MaxHops
    BY <1>2, HopType
  <2> HIDE DEF id
  <2>3. PICK i : i = id
    OBVIOUS
  <2>4. \E ref : Wrote(i, ref) /\ Target(u, current_ref.hop, i, ref)
    BY <1>2, <2>1, <2>2, <2>3, TargetWrites DEF id
  <2> QED BY <1>1, <1>3, <2>1, <2>2, <2>4 DEF Linked
<1> QED BY <1>4, <1>5

LEMMA HrefLinks ==
  ASSUME IInv, NEW u \in URLs, NEW d \in Descriptions, NEW hops \in LinkHops, GotHref(u, d, hops)
  PROVE  Linked
<1>1. /\ AtDocument /\ AtDocument' /\ UNCHANGED <<urlref, current_id, current_ref>>
      /\ Leads(u, current_ref.hop + hops) /\ Enqueue(u, TRUE)
  BY DEF GotHref, InDocument, AtDocument, Leads
<1>2. current_ref \in DocumentRefs /\ isopen
  BY <1>1, IndexTypes DEF AtDocument
<1>3. PICK i : i = IF docs!Known(u) THEN i_dbf[u] ELSE nextDocID
  OBVIOUS
<1>4. current_ref.hop + hops \in 0 .. MaxHops
  BY <1>2, LinkHopType DEF GotHref
<1>5. \E ref : Wrote(i, ref) /\ Target(u, current_ref.hop + hops, i, ref)
  BY <1>2, <1>3, <1>4, TargetWrites DEF GotHref
<1> QED BY <1>1, <1>4, <1>5 DEF Linked, HandStays

(* The steps, as far as the records and the index are concerned. *)
LEMMA TableKinds ==
  ASSUME IInv, [Next]_vars
  PROVE  \/ UNCHANGED <<dbf, i_dbf>> /\ HandStays
         \/ Linked
         \/ ParseUrl \/ Finish \/ (\E p \in BOOLEAN : Changed(p)) \/ \E m \in Modes : StartRun(m)
<1>0. AtDocument => current_ref \in DocumentRefs /\ isopen
  BY IndexTypes DEF AtDocument
<1>1. CASE \/ NotChanged \/ NotFound \/ NoHost \/ NotParsable \/ Duplicate \/ NotModified
  <2>1. AtDocument /\ AtDocument' /\ UNCHANGED <<dbf, i_dbf, urlref, current_id>>
    BY <1>1 DEF NotChanged, NotFound, NoHost, NotParsable, Duplicate, NotModified, Retrieved,
       AtStatus, AtDocument, Outcome, docVars
  <2>2. \E st : current_ref' = [current_ref EXCEPT !.state = st]
    BY <1>1 DEF NotChanged, NotFound, NoHost, NotParsable, Duplicate, NotModified, Outcome
  <2> QED BY <1>0, <2>1, <2>2, EditHop DEF HandStays
<1>2. ASSUME NEW u \in URLs, NEW d \in Descriptions, Redirect(u, d)
      PROVE  (UNCHANGED <<dbf, i_dbf>> /\ HandStays) \/ Linked
  BY <1>2, RedirectLinks
<1>3. ASSUME NEW p \in BOOLEAN, FirstRetrieval(p) PROVE UNCHANGED <<dbf, i_dbf>> /\ HandStays
  <2>1. AtDocument /\ AtDocument' /\ UNCHANGED <<dbf, i_dbf, urlref, current_id>>
    BY <1>3 DEF FirstRetrieval, Retrieved, Parse, AtDocument, docVars
  <2>2. current_ref' = current_ref \/ current_ref' = [current_ref EXCEPT !.state = "noindex"]
    BY <1>3 DEF FirstRetrieval, Parse
  <2>3. current_ref \in DocumentRefs
    BY <1>0, <2>1
  <2>4. current_ref'.hop = current_ref.hop
    BY <2>2, <2>3 DEF DocumentRefs
  <2> QED BY <2>1, <2>4 DEF HandStays
<1>4. CASE RetrievedDocument \/ GotNoindex
  <2>1. AtDocument /\ AtDocument' /\ UNCHANGED <<dbf, i_dbf, urlref, current_id>>
    BY <1>4 DEF RetrievedDocument, GotNoindex, InDocument, AtDocument, docVars
  <2>2. \/ current_ref' = [current_ref EXCEPT !.time = version[urlref]]
        \/ current_ref' = [current_ref EXCEPT !.state = "noindex"]
    BY <1>4 DEF RetrievedDocument, GotNoindex
  <2>3. current_ref \in DocumentRefs
    BY <1>0, <2>1
  <2>4. current_ref'.hop = current_ref.hop
    BY <2>2, <2>3 DEF DocumentRefs
  <2> QED BY <2>1, <2>4 DEF HandStays
<1>5. CASE GotWord \/ \E d \in Descriptions :
             \/ GotHrefToSelf(d)
             \/ \E u \in URLs, hops \in LinkHops : GotHrefTooFar(u, d, hops)
  BY <1>5 DEF GotWord, GotHrefToSelf, GotHrefTooFar, InDocument, AtDocument, docVars, HandStays
<1>6. ASSUME NEW u \in URLs, NEW d \in Descriptions, NEW hops \in LinkHops,
             GotHref(u, d, hops)
      PROVE  Linked
  BY <1>6, HrefLinks
<1>7. CASE \/ Initialize \/ Loop \/ SaveLog \/ CloseRun \/ \E u \in URLs : PageChange(u)
  <2>1. UNCHANGED <<dbf, i_dbf>>
    BY <1>7 DEF Initialize, Initial, NextSource, Start, Loop, Round, Pick, Pop, ServerDone,
       SaveLog, CloseRun, PageChange, docVars, docs!Close, docs!tables
  <2>2. ~AtDocument /\ ~AtDocument'
    BY <1>7 DEF Initialize, Initial, NextSource, Start, Loop, Round, Pick, Pop, ServerDone,
       SaveLog, CloseRun, PageChange, AtDocument
  <2> QED BY <2>1, <2>2 DEF HandStays
<1>8. CASE Signal \/ UNCHANGED vars
  BY <1>8 DEF Signal, vars, docVars, refVars, AtDocument, HandStays
<1> QED
  <2>1. CASE Answer
    BY <2>1, <1>1, <1>2, <1>3 DEF Answer
  <2>2. CASE ParserCall
    BY <2>2, <1>4, <1>5, <1>6 DEF ParserCall
  <2>3. CASE Run
    BY <2>1, <2>3, <1>4, <1>7 DEF Run
  <2> QED BY <2>2, <2>3, <1>7, <1>8 DEF Next

(* What the steps that write a record write, and where a document is taken  *)
(* in hand from.                                                            *)

LEMMA TargetFacts ==
  ASSUME IInv, isopen, NEW u \in URLs, NEW hop \in 0 .. MaxHops, NEW id, NEW ref,
         Target(u, hop, id, ref)
  PROVE  /\ ref.url = u
         /\ id \in docs!DocIDs => docs!MayHold(id, ref)
         /\ \/ /\ docs!Known(u) /\ docs!Stored(id) /\ id = i_dbf[u]
               /\ ref.state = dbf[id].state /\ ref.time = dbf[id].time
               /\ ref.accessed = dbf[id].accessed
               /\ ref.hop = IF dbf[id].hop > hop THEN hop ELSE dbf[id].hop
            \/ /\ ~docs!Known(u) /\ id = nextDocID /\ ~docs!Stored(id)
               /\ ref = NewRef(u, hop) /\ ref.hop = hop
<1>1. CASE docs!Known(u)
  <2>1. /\ docs!Lookup(u) \in DocumentRefs /\ docs!Lookup(u).url = u
        /\ id = i_dbf[u] /\ docs!Lookup(u) = dbf[id] /\ docs!Stored(id)
        /\ ref = Lower(docs!Lookup(u), hop)
    BY <1>1, KnownType DEF IInv, Target, docs!Known, docs!Lookup
  <2>2. ref.url = u
    BY <2>1, EditType
  <2> QED BY <1>1, <2>1, <2>2 DEF Lower, DocumentRefs, docs!MayHold
<1>2. CASE ~docs!Known(u)
  BY <1>2, IndexTypes DEF Target, NewRef, docs!MayHold, docs!Stored
<1> QED BY <1>1, <1>2

LEMMA ParseUrlFacts ==
  ASSUME IInv, ParseUrl
  PROVE  /\ ~AtDocument /\ pc' = "status" /\ UNCHANGED <<dbf, i_dbf, urlref>>
         /\ urlref \in URLs /\ fetched' = fetched \cup {urlref}
         /\ current_ref'.state = "normal"
         /\ \/ /\ docs!Known(urlref) /\ current_id' = i_dbf[urlref]
               /\ current_ref'.hop = docs!Lookup(urlref).hop
            \/ /\ ~docs!Known(urlref) /\ current_id' = nextDocID /\ ~docs!Stored(nextDocID)
               /\ current_ref'.hop = 0
<1>1. /\ ~AtDocument /\ pc' = "status" /\ UNCHANGED <<dbf, i_dbf, urlref>>
      /\ urlref \in URLs /\ isopen /\ fetched' = fetched \cup {urlref}
  BY IndexTypes DEF ParseUrl, AtDocument, docVars, IInv, InHand
<1>2. CASE docs!Known(urlref)
  <2>1. /\ docs!Lookup(urlref) \in DocumentRefs /\ current_id' = i_dbf[urlref]
        /\ current_ref' = [docs!Lookup(urlref) EXCEPT !.accessed = TRUE, !.state = "normal"]
    BY <1>1, <1>2, KnownType DEF ParseUrl, IInv
  <2> QED BY <1>1, <1>2, <2>1 DEF DocumentRefs
<1>3. CASE ~docs!Known(urlref)
  <2>1. current_id' = nextDocID /\ current_ref' = [NewRef(urlref, 0) EXCEPT !.accessed = TRUE]
    BY <1>3 DEF ParseUrl
  <2> QED BY <1>1, <1>3, <2>1, IndexTypes DEF NewRef
<1> QED BY <1>2, <1>3

LEMMA FinishFacts ==
  ASSUME IInv, Finish
  PROVE  /\ AtDocument /\ ~AtDocument' /\ Wrote(current_id, current_ref)
         /\ current_ref.url = urlref /\ urlref \in URLs
<1>1. /\ AtDocument /\ ~AtDocument'
      /\ dbf' = [dbf EXCEPT ![current_id] = current_ref]
      /\ i_dbf' = [i_dbf EXCEPT ![current_ref.url] = current_id]
  BY DEF Finish, AtDocument, docs!Add, docs!Put
<1> QED BY <1>1 DEF Wrote, IInv, InHand

LEMMA ChangedFacts ==
  ASSUME IInv, NEW p \in BOOLEAN, Changed(p)
  PROVE  /\ AtDocument /\ UNCHANGED urlref /\ urlref \in URLs
         /\ current_id' = nextDocID /\ current_ref'.hop = current_ref.hop
         /\ \E ref : /\ Wrote(current_id, ref)
                     /\ ref.url = urlref /\ ref.state = "obsolete" /\ ref.hop = current_ref.hop
<1> DEFINE ref == [current_ref EXCEPT !.state = "obsolete"]
<1>1. /\ AtDocument /\ UNCHANGED urlref /\ current_id' = nextDocID
      /\ dbf' = [dbf EXCEPT ![current_id] = ref]
      /\ i_dbf' = [i_dbf EXCEPT ![ref.url] = current_id]
  BY DEF Changed, Retrieved, AtDocument, docs!NextDocIDAndAdd, docs!Put
<1>2. /\ current_ref \in DocumentRefs /\ current_id \in docs!DocIDs
      /\ current_ref.url = urlref /\ urlref \in URLs
  BY <1>1 DEF IInv, InHand
<1>3. ref \in DocumentRefs /\ ref.url = current_ref.url
  BY <1>2, EditType DEF States
<1>4. ref.state = "obsolete" /\ ref.hop = current_ref.hop
  BY <1>2 DEF DocumentRefs
<1>5. current_ref'.hop = current_ref.hop
  <2> DEFINE new == [NewRef(urlref, current_ref.hop) EXCEPT !.accessed = TRUE]
  <2>1. current_ref' = new \/ current_ref' = [new EXCEPT !.state = "noindex"]
    BY DEF Changed, Parse
  <2> QED BY <2>1 DEF NewRef
<1>6. Wrote(current_id, ref)
  BY <1>1, <1>2, <1>3 DEF Wrote
<1> HIDE DEF ref
<1> QED BY <1>1, <1>2, <1>3, <1>4, <1>5, <1>6

LEMMA StartRunFacts ==
  ASSUME NEW m \in Modes, StartRun(m)
  PROVE  /\ ~AtDocument /\ ~AtDocument'
         /\ \/ UNCHANGED <<dbf, i_dbf>>
            \/ (\A id : ~docs!Stored(id)') /\ \A u \in URLs : i_dbf'[u] = docs!NoDocID
BY DEF StartRun, docs!Open, docs!OpenErased, docs!tables, docs!Stored, AtDocument

-----------------------------------------------------------------------------
(* One live record per URL. *)

Live(id) == docs!Stored(id) /\ dbf[id].state # "obsolete"

(* The document in hand is the only one its URL may have a live record of:  *)
(* when Finish gives it the index entry, no other is left behind.           *)
LiveInv ==
  /\ \A id : Live(id) => i_dbf[dbf[id].url] = id
  /\ AtDocument => \A id : Live(id) /\ dbf[id].url = urlref => id = current_id

NoSelfRedirect == \A u \in URLs : u \notin Redirects[u]

LEMMA StoredURL ==
  ASSUME IInv, NEW id, docs!Stored(id)
  PROVE  id \in docs!DocIDs /\ dbf[id].url \in URLs
BY IndexTypes DEF DocumentRefs

LEMMA LiveStep ==
  ASSUME NoSelfRedirect, IInv, LiveInv, [Next]_vars
  PROVE  LiveInv'
<1>1. CASE UNCHANGED <<dbf, i_dbf>> /\ HandStays
  BY <1>1 DEF LiveInv, HandStays, Live, docs!Stored
<1>2. CASE Linked
  <2>1. PICK u \in URLs, hop \in 0 .. MaxHops : Leads(u, hop)
                /\ \E id, ref : Wrote(id, ref) /\ Target(u, hop, id, ref)
    BY <1>2 DEF Linked
  <2>2. PICK id, ref : Wrote(id, ref) /\ Target(u, hop, id, ref)
    BY <2>1
  <2>3. /\ AtDocument /\ isopen /\ urlref \in URLs /\ u # urlref
        /\ AtDocument' => UNCHANGED <<urlref, current_id>>
    BY <1>2, <2>1, IndexTypes DEF Linked, HandStays, Leads, NoSelfRedirect, AtDocument
  <2>4. /\ ref.url = u
        /\ \/ docs!Known(u) /\ docs!Stored(id) /\ id = i_dbf[u] /\ ref.state = dbf[id].state
           \/ ~docs!Known(u) /\ ~docs!Stored(id)
    BY <2>2, <2>3, TargetFacts
  <2>5. \A i : Live(i) /\ dbf[i].url = u => i = id
    BY <2>4 DEF LiveInv, Live, docs!Known
  <2>6. \A i : Live(i)' /\ i # id => Live(i) /\ dbf'[i] = dbf[i]
    BY <2>2, WroteFacts DEF Live, docs!Stored
  <2>7. \A i : Live(i)' => i_dbf'[dbf'[i].url] = i
    BY <2>2, <2>4, <2>5, <2>6, WroteFacts, StoredURL DEF LiveInv, Live
  <2>8. dbf'[id].url # urlref
    BY <2>2, <2>3, <2>4, WroteFacts
  <2> QED BY <2>3, <2>6, <2>7, <2>8 DEF LiveInv
<1>3. CASE ParseUrl
  <2>1. /\ UNCHANGED <<dbf, i_dbf, urlref>>
        /\ docs!Known(urlref) => current_id' = i_dbf[urlref]
    BY <1>3, ParseUrlFacts
  <2> QED BY <2>1 DEF LiveInv, Live, docs!Known, docs!Stored
<1>4. CASE Finish
  <2>1. /\ AtDocument /\ ~AtDocument' /\ Wrote(current_id, current_ref)
        /\ current_ref.url = urlref
    BY <1>4, FinishFacts
  <2>2. \A i : Live(i)' /\ i # current_id => Live(i) /\ dbf'[i] = dbf[i]
    BY <2>1, WroteFacts DEF Live, docs!Stored
  <2>3. \A i : Live(i)' => i_dbf'[dbf'[i].url] = i
    BY <2>1, <2>2, WroteFacts, StoredURL DEF LiveInv, Live
  <2> QED BY <2>1, <2>3 DEF LiveInv
<1>5. ASSUME NEW p \in BOOLEAN, Changed(p) PROVE LiveInv'
  <2>1. AtDocument /\ UNCHANGED urlref
    BY <1>5, ChangedFacts
  <2>2. PICK ref : Wrote(current_id, ref) /\ ref.url = urlref /\ ref.state = "obsolete"
    BY <1>5, ChangedFacts
  <2>3. \A i : Live(i)' => i # current_id /\ Live(i) /\ dbf'[i] = dbf[i]
    BY <2>2, WroteFacts DEF Live, docs!Stored
  <2>4. \A i : Live(i)' => dbf'[i].url # urlref
    BY <2>1, <2>3 DEF LiveInv
  <2> QED BY <2>1, <2>2, <2>3, <2>4, WroteFacts, StoredURL DEF LiveInv, Live
<1>6. ASSUME NEW m \in Modes, StartRun(m) PROVE LiveInv'
  BY <1>6, StartRunFacts DEF LiveInv, Live, docs!Stored
<1> QED BY <1>1, <1>2, <1>3, <1>4, <1>5, <1>6, TableKinds

(* No URL has two live documents and no live document is out of reach of    *)
(* the index: not between a change and Finish, when the new edition has an  *)
(* ID but no record yet, and not when a link or a redirect makes a record   *)
(* while another document is in hand.  A page that redirects to itself is   *)
(* excluded: Redirect would make a second record of the document in hand.   *)
THEOREM OneLiveRecord == NoSelfRedirect /\ Spec => []LiveRecordsIndexed
<1> SUFFICES ASSUME NoSelfRedirect PROVE Spec => []LiveRecordsIndexed
  OBVIOUS
<1>1. Init => LiveInv
  BY DEF Init, docs!Init, docs!NoTables, LiveInv, Live, docs!Stored, AtDocument
<1>2. LiveInv => LiveRecordsIndexed
  BY DEF LiveInv, Live, LiveRecordsIndexed
<1>3. IInv /\ LiveInv /\ [Next]_vars => LiveInv'
  BY LiveStep
<1> QED BY <1>1, <1>2, <1>3, Invariance, PTL DEF Spec

-----------------------------------------------------------------------------
(* Hop counts. *)

(* The document in hand was given the hop count of its record, or a link or *)
(* redirect gave its record that of the document in hand.                   *)
HopInv == AtDocument /\ docs!Known(urlref) => current_ref.hop <= docs!Lookup(urlref).hop

HopShrinks(u) ==
  docs!Known(u) /\ i_dbf'[u] # docs!NoDocID => dbf'[i_dbf'[u]].hop <= dbf[i_dbf[u]].hop

LEMMA HopTypes ==
  ASSUME IInv
  PROVE  /\ \A u \in URLs : docs!Known(u) => docs!Lookup(u).hop \in 0 .. MaxHops
         /\ AtDocument => current_ref.hop \in 0 .. MaxHops /\ urlref \in URLs /\ isopen
<1>1. \A u \in URLs : docs!Known(u) => docs!Lookup(u) \in DocumentRefs
  BY IndexTypes DEF docs!Known, docs!Lookup
<1>2. AtDocument => current_ref \in DocumentRefs /\ urlref \in URLs /\ isopen
  BY IndexTypes DEF AtDocument
<1> QED BY <1>1, <1>2, HopType

LEMMA HopStep ==
  ASSUME IInv, HopInv, [Next]_vars
  PROVE  HopInv' /\ \A u \in URLs : HopShrinks(u)
<1>0. UNCHANGED <<dbf, i_dbf>> => /\ \A u \in URLs : HopShrinks(u)
                                  /\ \A u \in URLs : docs!Known(u)' <=> docs!Known(u)
                                  /\ \A u \in URLs : docs!Lookup(u)' = docs!Lookup(u)
  BY HopTypes DEF HopShrinks, docs!Lookup, docs!Known, docs!Stored
<1>1. CASE UNCHANGED <<dbf, i_dbf>> /\ HandStays
  BY <1>0, <1>1, HopTypes DEF HopInv, HandStays
<1>2. CASE Linked
  <2>1. PICK u \in URLs, hop \in 0 .. MaxHops : Leads(u, hop)
                /\ \E id, ref : Wrote(id, ref) /\ Target(u, hop, id, ref)
    BY <1>2 DEF Linked
  <2>2. PICK id, ref : Wrote(id, ref) /\ Target(u, hop, id, ref)
    BY <2>1
  <2>3. /\ AtDocument /\ isopen
        /\ u = urlref => hop = current_ref.hop
        /\ current_ref.hop \in 0 .. MaxHops
        /\ AtDocument' => UNCHANGED urlref /\ current_ref'.hop = current_ref.hop
    BY <1>2, <2>1, HopTypes DEF Linked, HandStays, Leads
  <2>4. /\ ref.url = u
        /\ docs!Known(u) => /\ id = i_dbf[u]
                            /\ ref.hop = IF dbf[id].hop > hop THEN hop ELSE dbf[id].hop
        /\ ~docs!Known(u) => ref.hop = hop
        /\ id \in docs!DocIDs => docs!MayHold(id, ref)
    BY <2>2, <2>3, TargetFacts
  <2>5. i_dbf'[u] = id /\ dbf'[id] = ref
    BY <2>2, <2>4, WroteFacts
  <2>6. ASSUME NEW v \in URLs, v # u
        PROVE  /\ i_dbf'[v] = i_dbf[v]
               /\ docs!Known(v)' <=> docs!Known(v)
               /\ docs!Known(v) => docs!Lookup(v)' = docs!Lookup(v)
    BY <2>2, <2>4, <2>6, OthersKept DEF Wrote
  <2>7. \A v \in URLs : HopShrinks(v)
    <3>1. HopShrinks(u)
      BY <2>4, <2>5, HopTypes DEF HopShrinks, docs!Lookup
    <3>2. ASSUME NEW v \in URLs, v # u PROVE HopShrinks(v)
      BY <2>6, <3>2, HopTypes DEF HopShrinks, docs!Lookup
    <3> QED BY <3>1, <3>2
  <2>8. PICK v \in URLs : v = urlref
    BY <2>3, HopTypes
  <2>9. docs!Known(v)' => current_ref.hop <= docs!Lookup(v)'.hop
    <3>1. CASE u = v
      <4>1. CASE docs!Known(u)
        <5>1. /\ dbf[id].hop \in 0 .. MaxHops /\ current_ref.hop <= dbf[id].hop
              /\ hop = current_ref.hop
          BY <2>3, <2>4, <2>8, <3>1, <4>1, HopTypes DEF HopInv, docs!Lookup
        <5> QED BY <2>4, <2>5, <3>1, <4>1, <5>1 DEF docs!Lookup
      <4>2. CASE ~docs!Known(u)
        BY <2>3, <2>4, <2>5, <2>8, <3>1, <4>2 DEF docs!Lookup
      <4> QED BY <4>1, <4>2
    <3>2. CASE u # v
      BY <2>3, <2>6, <2>8, <3>2 DEF HopInv
    <3> QED BY <3>1, <3>2
  <2> QED BY <2>3, <2>7, <2>8, <2>9 DEF HopInv
<1>3. CASE ParseUrl
  BY <1>0, <1>3, ParseUrlFacts, HopTypes DEF HopInv
<1>4. ASSUME NEW ref, Wrote(current_id, ref), AtDocument,
             ref.url = urlref, ref.hop = current_ref.hop
      PROVE  /\ \A u \in URLs : HopShrinks(u)
             /\ \A u : u = urlref => docs!Lookup(u)'.hop = current_ref.hop
  <2>1. /\ i_dbf'[urlref] = current_id /\ dbf'[current_id] = ref
        /\ docs!MayHold(current_id, ref)
    BY <1>4, WroteFacts DEF IInv, InHand, docs!MayHold
  <2>2. HopShrinks(urlref)
    BY <1>4, <2>1 DEF HopInv, HopShrinks, docs!Lookup
  <2>3. ASSUME NEW v \in URLs, v # urlref PROVE HopShrinks(v)
    <3>1. /\ i_dbf'[v] = i_dbf[v]
          /\ docs!Known(v) => docs!Lookup(v)' = docs!Lookup(v)
      BY <1>4, <2>1, <2>3, OthersKept
    <3> QED BY <3>1, HopTypes DEF HopShrinks, docs!Lookup
  <2> QED BY <1>4, <2>1, <2>2, <2>3 DEF docs!Lookup
<1>5. CASE Finish
  BY <1>4, <1>5, FinishFacts DEF HopInv
<1>6. ASSUME NEW p \in BOOLEAN, Changed(p)
      PROVE  HopInv' /\ \A u \in URLs : HopShrinks(u)
  <2>1. PICK ref : Wrote(current_id, ref) /\ ref.url = urlref /\ ref.hop = current_ref.hop
    BY <1>6, ChangedFacts
  <2>2. AtDocument /\ UNCHANGED urlref /\ current_ref'.hop = current_ref.hop
    BY <1>6, ChangedFacts
  <2>3. /\ \A u \in URLs : HopShrinks(u)
        /\ \A u : u = urlref => docs!Lookup(u)'.hop = current_ref.hop
    BY <1>4, <2>1, <2>2
  <2> QED BY <2>2, <2>3, HopTypes DEF HopInv, docs!Lookup
<1>7. ASSUME NEW m \in Modes, StartRun(m)
      PROVE  HopInv' /\ \A u \in URLs : HopShrinks(u)
  <2>1. ~AtDocument'
    BY <1>7, StartRunFacts
  <2>2. \A u \in URLs : HopShrinks(u)
    BY <1>0, <1>7, StartRunFacts DEF HopShrinks
  <2> QED BY <2>1, <2>2 DEF HopInv
<1> QED BY <1>1, <1>2, <1>3, <1>5, <1>6, <1>7, TableKinds

(* The hop count a URL is indexed with only gets smaller: Lower keeps the   *)
(* smaller one, a new edition takes over that of the old, and Finish writes *)
(* a reference that was read before links and redirects, a redirect of the  *)
(* page to itself included, may have rewritten the record.                  *)
THEOREM HopCountsOnlyFall == Spec => HopsNeverGrow
<1>1. Init => HopInv
  BY DEF Init, HopInv, AtDocument
<1>2. IInv /\ HopInv /\ [Next]_vars => HopInv'
  BY HopStep
<1>3. IInv /\ HopInv /\ [Next]_vars => [\A u \in URLs : HopShrinks(u)]_vars
  BY HopStep
<1>4. HopsNeverGrow <=> [][\A u \in URLs : HopShrinks(u)]_vars
  BY DEF HopsNeverGrow, HopShrinks
<1> QED BY <1>1, <1>2, <1>3, <1>4, Invariance, PTL DEF Spec

-----------------------------------------------------------------------------
(* What a dig retrieved is up to date. *)

Current(u) ==
  docs!Known(u) /\ (docs!Lookup(u).state = "normal" => docs!Lookup(u).time = version[u])

(* What was retrieved is current, except for the document in hand, whose    *)
(* reference is current once it is ready to be written.                     *)
CurrentInv ==
  /\ pc = "idle" => fetched = {}
  /\ \A u \in fetched : (AtDocument /\ u = urlref) \/ Current(u)
  /\ pc = "finish" /\ current_ref.state = "normal" => current_ref.time = version[urlref]

LEMMA FetchedKinds ==
  ASSUME [Next]_vars
  PROVE  /\ \/ UNCHANGED <<version, fetched>>
            \/ ParseUrl /\ UNCHANGED version
            \/ fetched' = {}
            \/ UNCHANGED fetched /\ pc = "idle"
         /\ pc' = "idle" => fetched' = {} \/ (pc = "idle" /\ UNCHANGED fetched)
<1>1. CASE Answer
  BY <1>1 DEF Answer, NotChanged, NotFound, NoHost, NotParsable, Duplicate, NotModified,
     Redirect, FirstRetrieval, Changed, Retrieved, AtStatus, Outcome, Parse, diskVars
<1>2. CASE ParserCall
  BY <1>2 DEF ParserCall, GotWord, GotNoindex, GotHrefToSelf, GotHrefTooFar, GotHref,
     InDocument, diskVars
<1>3. CASE ParseUrl
  BY <1>3 DEF ParseUrl, diskVars
<1>4. CASE Initialize \/ Loop
  BY <1>4 DEF Initialize, Initial, NextSource, Start, Loop, Round, Pick, Pop, ServerDone,
     diskVars, history
<1>5. CASE RetrievedDocument \/ Finish \/ SaveLog \/ CloseRun
  BY <1>5 DEF RetrievedDocument, Finish, SaveLog, CloseRun, diskVars, history
<1>6. CASE Signal \/ UNCHANGED vars \/ (\E u \in URLs : PageChange(u)) \/ \E m \in Modes : StartRun(m)
  BY <1>6 DEF Signal, PageChange, StartRun, vars, diskVars, history
<1> QED BY <1>1, <1>2, <1>3, <1>4, <1>5, <1>6 DEF Next, Run

LEMMA EditState ==
  ASSUME NEW ref \in DocumentRefs
  PROVE  \A s : /\ [ref EXCEPT !.state = s].state = s
                /\ [ref EXCEPT !.state = s].time = ref.time
BY DEF DocumentRefs

(* Every way to Finish: the date is that of the page, or the state is not   *)
(* "normal".  Only a duplicate keeps its state without being read.          *)
LEMMA ReadyKinds ==
  ASSUME IInv, ~CheckUniqueMD5, [Next]_vars, pc' = "finish"
  PROVE  \/ pc = "finish" /\ UNCHANGED <<urlref, current_ref, version>>
         \/ /\ UNCHANGED <<urlref, version>>
            /\ current_ref'.state = "normal" => current_ref'.time = version[urlref]
<1>0. AtDocument => current_ref \in DocumentRefs
  BY IndexTypes
<1>1. CASE NotChanged \/ NotModified
  <2>1. /\ AtDocument /\ UNCHANGED <<urlref, version>> /\ current_ref.time = version[urlref]
        /\ current_ref' = [current_ref EXCEPT !.state = current_ref.state]
    BY <1>1 DEF NotChanged, NotModified, Retrieved, AtStatus, Outcome, AtDocument, diskVars
  <2>2. current_ref'.time = current_ref.time
    BY <1>0, <2>1, EditState
  <2> QED BY <2>1, <2>2
<1>2. CASE NotFound \/ NoHost \/ NotParsable \/ \E t \in URLs, d \in Descriptions : Redirect(t, d)
  <2>1. AtDocument /\ UNCHANGED <<urlref, version>>
    BY <1>2 DEF NotFound, NoHost, NotParsable, Redirect, AtStatus, Outcome, AtDocument, diskVars
  <2>2. \/ current_ref' = [current_ref EXCEPT !.state = "not_found"]
        \/ current_ref' = [current_ref EXCEPT !.state = "noindex"]
        \/ current_ref' = [current_ref EXCEPT !.state = "obsolete"]
    BY <1>2 DEF NotFound, NoHost, NotParsable, Redirect, Outcome
  <2>3. current_ref \in DocumentRefs
    BY <1>0, <2>1
  <2>4. current_ref'.state # "normal"
    BY <2>2, <2>3, EditState
  <2> QED BY <2>1, <2>4
<1>3. ~Duplicate
  BY DEF Duplicate, IsDuplicate, Digested
<1>4. ASSUME NEW p \in BOOLEAN, FirstRetrieval(p) \/ Changed(p)
      PROVE  UNCHANGED <<urlref, version>> /\ current_ref'.state # "normal"
  <2>1. AtDocument /\ UNCHANGED <<urlref, version>> /\ p = FALSE
    BY <1>4 DEF FirstRetrieval, Changed, Retrieved, Parse, AtDocument
  <2>2. CASE FirstRetrieval(p)
    <3>1. current_ref' = [current_ref EXCEPT !.state = "noindex"]
      BY <2>1, <2>2 DEF FirstRetrieval, Parse
    <3>2. current_ref \in DocumentRefs
      BY <1>0, <2>1
    <3> QED BY <2>1, <3>1, <3>2, EditState
  <2>3. CASE Changed(p)
    <3> DEFINE new == [NewRef(urlref, current_ref.hop) EXCEPT !.accessed = TRUE]
    <3>1. current_ref' = [new EXCEPT !.state = "noindex"]
      BY <2>1, <2>3 DEF Changed, Parse
    <3>2. current_ref'.state = "noindex"
      BY <3>1 DEF NewRef
    <3> QED BY <2>1, <3>2
  <2> QED BY <1>4, <2>2, <2>3
<1>5. CASE RetrievedDocument
  <2>1. /\ AtDocument /\ UNCHANGED <<urlref, version>>
        /\ current_ref' = [current_ref EXCEPT !.time = version[urlref]]
    BY <1>5 DEF RetrievedDocument, AtDocument, diskVars
  <2>2. current_ref \in DocumentRefs
    BY <1>0, <2>1
  <2>3. current_ref'.time = version[urlref]
    BY <2>1, <2>2, EditDates
  <2> QED BY <2>1, <2>3
<1>6. CASE Signal \/ UNCHANGED vars
  BY <1>6 DEF Signal, vars, refVars, diskVars
<1>7. /\ ~ParserCall /\ ~Initialize /\ ~Loop /\ ~ParseUrl /\ ~Finish /\ ~SaveLog /\ ~CloseRun
      /\ ~(\E u \in URLs : PageChange(u)) /\ ~(\E m \in Modes : StartRun(m))
  BY DEF ParserCall, GotWord, GotNoindex, GotHrefToSelf, GotHrefTooFar, GotHref, InDocument,
     Initialize, Initial, NextSource, Start, Loop, Round, Pick, Pop, ServerDone, ParseUrl, Finish,
     SaveLog, CloseRun, PageChange, StartRun
<1> QED BY <1>1, <1>2, <1>3, <1>4, <1>5, <1>6, <1>7 DEF Next, Run, Answer

LEMMA CurrentTable ==
  ASSUME IInv, CurrentInv, [Next]_vars, UNCHANGED <<version, fetched>>,
         NEW u \in fetched, u \in URLs
  PROVE  (AtDocument' /\ u = urlref') \/ Current(u)'
<1>0. (AtDocument /\ u = urlref) \/ Current(u)
  BY DEF CurrentInv
<1>1. CASE UNCHANGED <<dbf, i_dbf>> /\ HandStays
  BY <1>0, <1>1 DEF HandStays, Current, docs!Known, docs!Lookup, docs!Stored
<1>2. CASE Linked
  <2>1. PICK v \in URLs, hop \in 0 .. MaxHops : Leads(v, hop)
                /\ \E id, ref : Wrote(id, ref) /\ Target(v, hop, id, ref)
    BY <1>2 DEF Linked
  <2>2. PICK id, ref : Wrote(id, ref) /\ Target(v, hop, id, ref)
    BY <2>1
  <2>3. AtDocument /\ isopen /\ AtDocument' /\ UNCHANGED urlref
    BY <1>2, IndexTypes DEF Linked, HandStays, AtDocument
  <2>4. /\ ref.url = v
        /\ id \in docs!DocIDs => docs!MayHold(id, ref)
        /\ docs!Known(v) => id = i_dbf[v] /\ ref.state = dbf[id].state /\ ref.time = dbf[id].time
    BY <2>2, <2>3, TargetFacts
  <2>5. CASE u = v /\ Current(u)
    <3>1. i_dbf'[u] = id /\ dbf'[id] = ref /\ docs!Stored(id)'
      BY <2>2, <2>4, <2>5, WroteFacts
    <3> QED BY <2>4, <2>5, <3>1 DEF Current, docs!Known, docs!Lookup
  <2>6. CASE u # v /\ Current(u)
    BY <2>2, <2>4, <2>6, OthersKept DEF Current, Wrote
  <2> QED BY <1>0, <2>3, <2>5, <2>6
<1>3. CASE ParseUrl
  BY <1>0, <1>3, ParseUrlFacts DEF Current, docs!Known, docs!Lookup, docs!Stored
<1>4. ASSUME NEW ref, Wrote(current_id, ref), AtDocument, ref.url = urlref, u # urlref
      PROVE  Current(u)'
  <2>1. docs!MayHold(current_id, ref)
    BY <1>4 DEF IInv, InHand, docs!MayHold
  <2> QED BY <1>0, <1>4, <2>1, OthersKept DEF Current
<1>5. CASE Finish
  <2>1. CASE u = urlref
    <3>1. PICK id, ref : id = current_id /\ ref = current_ref
      OBVIOUS
    <3>2. Wrote(id, ref) /\ ref.url = u
      BY <1>5, <2>1, <3>1, FinishFacts
    <3>3. i_dbf'[u] = id /\ dbf'[id] = ref /\ docs!Stored(id)'
      BY <3>2, WroteFacts
    <3>4. ref.state = "normal" => ref.time = version'[u]
      BY <1>5, <2>1, <3>1 DEF CurrentInv, Finish
    <3> QED BY <3>3, <3>4 DEF Current, docs!Known, docs!Lookup
  <2>2. CASE u # urlref
    BY <1>4, <1>5, <2>2, FinishFacts
  <2> QED BY <2>1, <2>2
<1>6. ASSUME NEW p \in BOOLEAN, Changed(p) PROVE (AtDocument' /\ u = urlref') \/ Current(u)'
  <2>1. AtDocument' /\ UNCHANGED urlref
    BY <1>6 DEF Changed, Retrieved, Parse, AtDocument
  <2>2. CASE u # urlref
    BY <1>4, <1>6, <2>2, ChangedFacts
  <2> QED BY <2>1, <2>2
<1>7. ~\E m \in Modes : StartRun(m)
  BY DEF StartRun, CurrentInv
<1> QED BY <1>1, <1>2, <1>3, <1>5, <1>6, <1>7, TableKinds

LEMMA CurrentStep ==
  ASSUME ~CheckUniqueMD5, IInv, CurrentInv, [Next]_vars
  PROVE  CurrentInv'
<1>1. pc' = "idle" => fetched' = {}
  BY FetchedKinds DEF CurrentInv
<1>2. (pc = "finish" /\ current_ref.state = "normal" => current_ref.time = version[urlref])'
  BY ReadyKinds DEF CurrentInv
<1>3. fetched \subseteq URLs
  BY DEF IInv, TypeOK
<1>4. ASSUME NEW u \in fetched' PROVE (AtDocument' /\ u = urlref') \/ Current(u)'
  <2>1. CASE UNCHANGED <<version, fetched>>
    BY <1>3, <1>4, <2>1, CurrentTable
  <2>2. CASE ParseUrl /\ UNCHANGED version
    <3>1. /\ ~AtDocument /\ UNCHANGED <<dbf, i_dbf, urlref>> /\ AtDocument'
          /\ fetched' = fetched \cup {urlref}
      BY <2>2, ParseUrlFacts DEF AtDocument
    <3>2. u = urlref' \/ Current(u)
      BY <1>4, <3>1 DEF CurrentInv
    <3> QED BY <2>2, <3>1, <3>2 DEF Current, docs!Known, docs!Lookup, docs!Stored
  <2>3. CASE UNCHANGED fetched /\ pc = "idle"
    BY <1>4, <2>3 DEF CurrentInv
  <2> QED BY <1>4, <2>1, <2>2, <2>3, FetchedKinds
<1> QED BY <1>1, <1>2, <1>4 DEF CurrentInv

(* What a dig retrieved and left in state normal, it describes as the page  *)
(* is: the conditional request and the comparison of dates skip only what   *)
(* has not changed, and no link or redirect that finds the record later     *)
(* takes its date back.  With check_unique_md5 a page that came to equal    *)
(* another is skipped with its old date, hence the hypothesis.              *)
THEOREM RetrievedStaysCurrent == ~CheckUniqueMD5 /\ Spec => []RetrievedIsCurrent
<1> SUFFICES ASSUME ~CheckUniqueMD5 PROVE Spec => []RetrievedIsCurrent
  OBVIOUS
<1>1. Init => CurrentInv
  BY DEF Init, CurrentInv
<1>2. IInv /\ CurrentInv /\ [Next]_vars => CurrentInv'
  BY CurrentStep
<1>3. CurrentInv => RetrievedIsCurrent
  BY DEF CurrentInv, RetrievedIsCurrent, Current, AtDocument
<1> QED BY <1>1, <1>2, <1>3, Invariance, PTL DEF Spec

-----------------------------------------------------------------------------
(* No contents twice. *)

(* The postings of a body, and those of the page that is being parsed. *)
BodyPostings ==
  {p \in word_db : p[2] # LinkText}
    \cup (IF pc = "parsing" THEN {<<current_id, version[urlref]>>} ELSE {})

URLOf(id) == IF InHandID(id) THEN urlref ELSE dbf[id].url

ContentsOf(p) == Body[URLOf(p[1])][p[2]]

(* The digest of what is posted was seen, so a page whose digest was not    *)
(* seen has contents that nothing else has.                                 *)
ContentsInv ==
  \A p \in BodyPostings : ContentsOf(p) # NoBody =>
    ContentsOf(p) \in md5_db /\ \A q \in BodyPostings : q # p => ContentsOf(q) # ContentsOf(p)

Erased == word_db' = {} /\ pc' # "parsing"

LEMMA URLKept ==
  ASSUME IInv, [Next]_vars, NEW id, InHandID(id) \/ docs!Stored(id)
  PROVE  URLOf(id)' = URLOf(id) \/ Erased
<1>0. (AtDocument /\ id = current_id /\ docs!Stored(id) => dbf[id].url = urlref) /\ InHand
  BY DEF IInv, InHand, docs!MayHold, docs!Stored
<1>1. CASE UNCHANGED <<dbf, i_dbf>> /\ HandStays
  BY <1>1 DEF HandStays, URLOf, InHandID
<1>2. ASSUME NEW i, NEW ref, Wrote(i, ref), docs!MayHold(i, ref), docs!Stored(id)
      PROVE  dbf'[id].url = dbf[id].url
  <2>1. dbf'[i] = ref /\ (id # i => dbf'[id] = dbf[id])
    BY <1>2, WroteFacts DEF docs!Stored
  <2> QED BY <1>2, <2>1 DEF docs!MayHold, docs!Stored
<1>3. CASE Linked
  <2>1. PICK v \in URLs, hop \in 0 .. MaxHops : Leads(v, hop)
                /\ \E i, ref : Wrote(i, ref) /\ Target(v, hop, i, ref)
    BY <1>3 DEF Linked
  <2>2. PICK i, ref : Wrote(i, ref) /\ Target(v, hop, i, ref)
    BY <2>1
  <2>3. AtDocument /\ isopen /\ AtDocument' /\ UNCHANGED <<urlref, current_id>>
    BY <1>3, IndexTypes DEF Linked, HandStays, AtDocument
  <2>4. docs!MayHold(i, ref)
    BY <2>2, <2>3, TargetFacts DEF Wrote
  <2> QED BY <1>2, <2>2, <2>3, <2>4 DEF URLOf, InHandID
<1>4. CASE ParseUrl
  <2>1. /\ ~AtDocument /\ UNCHANGED <<dbf, urlref>> /\ urlref \in URLs
        /\ \/ docs!Known(urlref) /\ current_id' = i_dbf[urlref]
           \/ current_id' = nextDocID /\ ~docs!Stored(nextDocID)
    BY <1>4, ParseUrlFacts
  <2>2. docs!Stored(id) /\ URLOf(id) = dbf[id].url
    BY <2>1 DEF InHandID, URLOf
  <2>3. docs!Known(urlref) => dbf[i_dbf[urlref]].url = urlref
    BY <1>4, <2>1, KnownType, IndexTypes DEF IInv, docs!Lookup, ParseUrl
  <2> QED BY <2>1, <2>2, <2>3 DEF URLOf, InHandID
<1>5. CASE Finish
  <2>1. PICK i, ref : i = current_id /\ ref = current_ref
    OBVIOUS
  <2>2. AtDocument /\ ~AtDocument' /\ Wrote(i, ref) /\ ref.url = urlref
    BY <1>5, <2>1, FinishFacts
  <2>3. docs!MayHold(i, ref)
    BY <1>0, <2>1, <2>2 DEF InHand
  <2>4. CASE id = i
    BY <2>1, <2>2, <2>4, WroteFacts DEF URLOf, InHandID
  <2>5. CASE id # i
    BY <1>2, <2>1, <2>2, <2>3, <2>5 DEF URLOf, InHandID
  <2> QED BY <2>4, <2>5
<1>6. ASSUME NEW p \in BOOLEAN, Changed(p) PROVE URLOf(id)' = URLOf(id)
  <2>1. PICK i : i = current_id
    OBVIOUS
  <2>2. AtDocument /\ UNCHANGED urlref /\ current_id' = nextDocID /\ isopen
    BY <1>6, ChangedFacts, IndexTypes DEF AtDocument
  <2>3. PICK ref : Wrote(i, ref) /\ ref.url = urlref
    BY <1>6, <2>1, ChangedFacts
  <2>4. docs!MayHold(i, ref)
    BY <1>0, <2>1, <2>2, <2>3 DEF InHand, docs!MayHold
  <2>5. id # nextDocID
    BY <2>2, IndexTypes, SameConstants DEF InHandID, IInv, DocsInv, docs!TypeOK
  <2>6. CASE id = i
    BY <2>1, <2>2, <2>3, <2>5, <2>6, WroteFacts DEF URLOf, InHandID
  <2>7. CASE id # i
    BY <1>2, <2>1, <2>2, <2>3, <2>4, <2>5, <2>7 DEF URLOf, InHandID
  <2> QED BY <2>6, <2>7
<1>7. ASSUME NEW m \in Modes, StartRun(m) PROVE URLOf(id)' = URLOf(id) \/ Erased
  BY <1>7 DEF StartRun, docs!Open, docs!OpenErased, docs!tables, URLOf, InHandID, AtDocument, Erased
<1> QED BY <1>1, <1>3, <1>4, <1>5, <1>6, <1>7, TableKinds

(* Digests are added; parsing begins when the digest is new.                *)
LEMMA DigestKinds ==
  ASSUME [Next]_vars
  PROVE  /\ md5_db \subseteq md5_db' \/ Erased
         /\ pc' = "parsing" =>
              \/ pc = "parsing" /\ UNCHANGED <<current_id, urlref, version>>
              \/ Retrieved /\ ~IsDuplicate /\ UNCHANGED word_db
<1>1. CASE NotChanged \/ NotFound \/ NoHost \/ NotParsable
  BY <1>1 DEF NotChanged, NotFound, NoHost, NotParsable, AtStatus, Outcome, diskVars
<1>2. CASE Duplicate \/ NotModified \/ \E t \in URLs, d \in Descriptions : Redirect(t, d)
  BY <1>2 DEF Duplicate, NotModified, Redirect, Retrieved, Outcome, diskVars
<1>3. CASE \E p \in BOOLEAN : FirstRetrieval(p) \/ Changed(p)
  BY <1>3 DEF FirstRetrieval, Changed, Retrieved, wordList!Skip, wordVars
<1>4. CASE ParserCall
  BY <1>4 DEF ParserCall, GotWord, GotNoindex, GotHrefToSelf, GotHrefTooFar, GotHref,
     InDocument, diskVars
<1>5. CASE ParseUrl \/ Initialize \/ Loop
  BY <1>5 DEF ParseUrl, Initialize, Initial, NextSource, Start, Loop, Round, Pick, Pop,
     ServerDone, diskVars
<1>6. CASE RetrievedDocument \/ Finish \/ SaveLog \/ CloseRun
  BY <1>6 DEF RetrievedDocument, Finish, SaveLog, CloseRun, diskVars
<1>7. CASE Signal \/ UNCHANGED vars \/ (\E u \in URLs : PageChange(u)) \/ \E m \in Modes : StartRun(m)
  BY <1>7 DEF Signal, PageChange, StartRun, vars, diskVars, refVars, Erased
<1> QED BY <1>1, <1>2, <1>3, <1>4, <1>5, <1>6, <1>7 DEF Next, Run, Answer

LEMMA PostingsGrow ==
  ASSUME IInv, IndexInv, [Next]_vars, NEW p \in word_db', p[2] # LinkText
  PROVE  p \in word_db \/ (pc = "parsing" /\ p = <<current_id, version[urlref]>>)
<1>1. CASE Noting
  <2>1. p \in word_db \cup words
    BY <1>1 DEF Noting
  <2> QED BY <2>1 DEF IndexInv, BufferOfThisPage
<1>2. CASE Between \/ Still
  BY <1>2 DEF Between, Still
<1>3. CASE ParseUrl \/ Finish \/ \E parser \in BOOLEAN : Changed(parser)
  BY <1>3 DEF ParseUrl, Finish, Changed, wordVars, wordList!Skip
<1>4. CASE \E m \in Modes : StartRun(m)
  BY <1>4 DEF StartRun
<1> QED BY <1>1, <1>2, <1>3, <1>4, IndexKinds

LEMMA ContentsStep ==
  ASSUME CheckUniqueMD5, IInv, IndexInv, ContentsInv, [Next]_vars
  PROVE  ContentsInv'
<1>1. CASE Erased
  BY <1>1 DEF Erased, ContentsInv, BodyPostings
<1>2. CASE ~Erased
  <2>1. ASSUME NEW p \in BodyPostings PROVE ContentsOf(p)' = ContentsOf(p)
    <3>1. InHandID(p[1]) \/ docs!Stored(p[1])
      BY <2>1 DEF BodyPostings, IndexInv, PostInv, InHandID, AtDocument
    <3> QED BY <1>2, <3>1, URLKept DEF ContentsOf
  <2>2. md5_db \subseteq md5_db'
    BY <1>2, DigestKinds
  <2>3. CASE BodyPostings' \subseteq BodyPostings
    BY <2>1, <2>2, <2>3 DEF ContentsInv
  <2>4. CASE Retrieved /\ ~IsDuplicate /\ UNCHANGED word_db /\ pc' = "parsing"
    <3>1. PICK new : new = <<current_id', version[urlref]>>
      OBVIOUS
    <3>2. PICK digest : digest = Digest
      OBVIOUS
    <3>3. BodyPostings' \subseteq BodyPostings \cup {new}
      BY <2>4, <3>1 DEF Retrieved, BodyPostings
    <3>4. ContentsOf(new)' = digest
      BY <2>4, <3>1, <3>2 DEF Retrieved, ContentsOf, URLOf, InHandID, AtDocument, Digest
    <3>5. digest # NoBody => digest \in md5_db' /\ digest \notin md5_db
      BY <2>4, <3>2 DEF Retrieved, IsDuplicate, Digested
    <3>6. ASSUME NEW p \in BodyPostings', ContentsOf(p)' # NoBody
          PROVE  /\ ContentsOf(p)' \in md5_db'
                 /\ \A q \in BodyPostings' : q # p => ContentsOf(q)' # ContentsOf(p)'
      <4>1. CASE p = new
        <5>1. \A q \in BodyPostings' : q # p => q \in BodyPostings /\ ContentsOf(q)' = ContentsOf(q)
          BY <2>1, <3>3, <4>1
        <5> QED BY <3>4, <3>5, <3>6, <4>1, <5>1 DEF ContentsInv
      <4>2. CASE p # new
        <5>1. /\ p \in BodyPostings /\ ContentsOf(p)' = ContentsOf(p)
              /\ ContentsOf(p) \in md5_db
              /\ \A q \in BodyPostings : q # p => ContentsOf(q) # ContentsOf(p)
          BY <2>1, <3>3, <3>6, <4>2 DEF ContentsInv
        <5>2. \A q \in BodyPostings' : q = new \/ (q \in BodyPostings /\ ContentsOf(q)' = ContentsOf(q))
          BY <2>1, <3>3
        <5> QED BY <2>2, <3>4, <3>5, <3>6, <5>1, <5>2
      <4> QED BY <4>1, <4>2
    <3> QED BY <3>6 DEF ContentsInv
  <2>5. (pc' = "parsing" => pc = "parsing" /\ UNCHANGED <<current_id, urlref, version>>)
          => BodyPostings' \subseteq BodyPostings
    BY PostingsGrow DEF BodyPostings
  <2> QED BY <2>3, <2>4, <2>5, DigestKinds
<1> QED BY <1>1, <1>2

(* With check_unique_md5 no contents are indexed twice, under two documents *)
(* or in two versions of one, over any sequence of digs since the databases *)
(* were erased: the digest of a page is entered before the page is parsed,  *)
(* and every posting of a body has its digest in the table.                 *)
THEOREM ContentsIndexedOnce == CheckUniqueMD5 /\ Spec => []ContentsOnce
<1> SUFFICES ASSUME CheckUniqueMD5 PROVE Spec => []ContentsOnce
  OBVIOUS
<1>1. Init => ContentsInv
  BY DEF Init, wordList!Init, ContentsInv, BodyPostings
<1>2. IInv /\ IndexInv /\ ContentsInv /\ [Next]_vars => ContentsInv'
  BY ContentsStep
<1>3. IInv /\ ContentsInv => ContentsOnce
  <2> SUFFICES ASSUME IInv, ContentsInv, NEW p \in word_db, NEW q \in word_db, p # q,
                      LinkText \notin {p[2], q[2]}, docs!Stored(p[1]), docs!Stored(q[1]),
                      Body[dbf[p[1]].url][p[2]] # NoBody
               PROVE  Body[dbf[p[1]].url][p[2]] # Body[dbf[q[1]].url][q[2]]
    BY DEF ContentsOnce
  <2>1. \A id : docs!Stored(id) => URLOf(id) = dbf[id].url
    BY DEF URLOf, InHandID, IInv, InHand, docs!MayHold, docs!Stored
  <2> QED BY <2>1 DEF ContentsInv, BodyPostings, ContentsOf
<1> QED BY <1>1, <1>2, <1>3, IndexInvariance, PTL DEF Spec

-----------------------------------------------------------------------------
(***************************************************************************)
(* The loop of Retriever::Start and robots.txt, for every site and         *)
(* configuration.  The steps between two looks at the queues, a parse_url  *)
(* with all that its parser calls back with, only fill them.  Filling says *)
(* how, and one lemma (StepKinds) reduces Next to it and to the steps of   *)
(* the loop.                                                               *)
(***************************************************************************)
InQueue == {u \in URLs : queued[u] > 0}

Grown == {u \in URLs : queued'[u] > queued[u]}

(* What is pushed is remembered, and of a registered server whose rules     *)
(* allow it; rules that are new concern servers that are new.               *)
Filling ==
  /\ queued' \in [URLs -> Nat] /\ \A u \in URLs : queued'[u] >= queued[u]
  /\ accepted' = accepted \cup Grown
  /\ remaining \subseteq remaining' /\ servers \subseteq servers'
  /\ \A u \in Grown : u \notin disallow' /\ ServerOf[u] \in servers'
  /\ \A u \in disallow' : u \in disallow \/ ServerOf[u] \notin servers
  /\ UNCHANGED <<fetched, noSignal, more, server, count, url_log>>
  /\ \/ pc = "initial" /\ pc' = "initial"
     \/ pc \in {"status", "parsing"} /\ pc' \in {"parsing", "finish"}
     \/ pc = "finish" /\ pc' = "pop"

(* The rest of the state that the theorems of this module speak of. *)
view == <<queued, accepted, fetched, urlref, pc, noSignal, more, remaining, server,
          count, url_log, servers, disallow>>

LEMMA QueueTypes ==
  ASSUME IInv
  PROVE  /\ queued \in [URLs -> Nat] /\ pc \in Places /\ fetched \subseteq URLs
         /\ accepted \subseteq URLs /\ disallow \subseteq URLs
         /\ noSignal \in BOOLEAN /\ more \in BOOLEAN
         /\ pc = "parse_url" => urlref \in URLs
         /\ \A u \in InQueue : ServerOf[u] \in servers
BY DEF IInv, TypeOK, srv!TypeOK, InHand, QueuesRegistered, InQueue

(* Looking a server up and pushing, or not pushing, a URL of it. *)
LEMMA PushFills ==
  ASSUME queued \in [URLs -> Nat], NEW u \in URLs, NEW newDoc,
         srv!Register(ServerOf[u]),
         srv!Push(u, newDoc) \/ UNCHANGED <<documents, queued>>
  PROVE  /\ queued' \in [URLs -> Nat] /\ \A v \in URLs : queued'[v] >= queued[v]
         /\ servers \subseteq servers'
         /\ \A v \in Grown : v \notin disallow' /\ ServerOf[v] \in servers'
         /\ \A v \in disallow' : v \in disallow \/ ServerOf[v] \notin servers
<1>1. servers' = servers \cup {ServerOf[u]}
  BY DEF srv!Register
<1>2. \A v \in disallow' : v \in disallow \/ ServerOf[v] \notin servers
  BY DEF srv!Register
<1>3. CASE UNCHANGED queued
  BY <1>1, <1>2, <1>3 DEF Grown
<1>4. CASE u \notin disallow' /\ queued' = [queued EXCEPT ![u] = queued[u] + 1]
  <2>1. Grown \subseteq {u}
    BY <1>4 DEF Grown
  <2> QED BY <1>1, <1>2, <1>4, <2>1
<1> QED BY <1>3, <1>4 DEF srv!Push, srv!Refuses, srv!queueVars

LEMMA EnqueueFills ==
  ASSUME queued \in [URLs -> Nat], NEW u \in URLs, NEW newDoc, Enqueue(u, newDoc),
         UNCHANGED <<fetched, noSignal, more, server, count, url_log>>,
         pc \in {"status", "parsing"}, pc' \in {"parsing", "finish"}
  PROVE  Filling
<1>1. accepted' = accepted \cup Grown
  BY DEF Enqueue, Grown
<1>2. remaining \subseteq remaining'
  BY DEF Enqueue
<1>3. CASE u \in visited
  BY <1>1, <1>2, <1>3 DEF Enqueue, serverVars, Filling, Grown
<1>4. CASE u \notin visited
  BY <1>1, <1>2, <1>4, PushFills DEF Enqueue, Filling
<1> QED BY <1>3, <1>4

LEMMA QuietFills ==
  ASSUME queued \in [URLs -> Nat],
         UNCHANGED <<servers, disallow, queued, accepted, fetched, noSignal, more,
                     remaining, server, count, url_log>>,
         \/ pc = "initial" /\ pc' = "initial"
         \/ pc \in {"status", "parsing"} /\ pc' \in {"parsing", "finish"}
         \/ pc = "finish" /\ pc' = "pop"
  PROVE  Filling
BY DEF Filling, Grown

LEMMA StepKinds ==
  ASSUME IInv, [Next]_vars
  PROVE  \/ Filling \/ UNCHANGED view
         \/ Signal \/ Start \/ Round \/ Pick \/ Pop \/ ServerDone \/ ParseUrl \/ SaveLog
         \/ CloseRun \/ \E m \in Modes : StartRun(m)
<1>0. queued \in [URLs -> Nat]
  BY QueueTypes
<1>1. ASSUME NEW url \in WrittenURLs, Initial(url) PROVE Filling
  <2>1. Normal[url] \in URLs
    BY RetrieverAssumption
  <2>2. /\ srv!Register(ServerOf[Normal[url]])
        /\ srv!Push(Normal[url], TRUE) \/ UNCHANGED <<documents, queued>>
    BY <1>1 DEF Initial
  <2>3. /\ accepted' = accepted \cup Grown
        /\ UNCHANGED <<fetched, noSignal, more, remaining, server, count, url_log>>
        /\ pc = "initial" /\ pc' = "initial"
    BY <1>1 DEF Initial, Grown, diskVars
  <2> QED BY <1>0, <2>1, <2>2, <2>3, PushFills DEF Filling
<1>2. ASSUME NEW u \in URLs, NEW d \in Descriptions, Redirect(u, d) PROVE Filling
  <2>1. /\ UNCHANGED <<fetched, noSignal, more, server, count, url_log>>
        /\ pc = "status" /\ pc' = "finish"
    BY <1>2 DEF Redirect, diskVars
  <2>2. CASE UNCHANGED <<serverVars, visited, remaining, accepted>>
    BY <1>0, <2>1, <2>2, QuietFills DEF serverVars
  <2>3. CASE Enqueue(u, FALSE)
    BY <1>0, <2>1, <2>3, EnqueueFills
  <2> QED BY <1>2, <2>2, <2>3 DEF Redirect
<1>3. ASSUME NEW u \in URLs, NEW d \in Descriptions, NEW hops \in LinkHops,
             GotHref(u, d, hops)
      PROVE  Filling
  BY <1>0, <1>3, EnqueueFills DEF GotHref, InDocument, diskVars
<1>4. ASSUME NEW u \in URLs, NEW d \in Descriptions, NEW hops \in LinkHops,
             GotHrefTooFar(u, d, hops)
      PROVE  UNCHANGED view
  BY <1>4 DEF GotHrefTooFar, InDocument, serverVars, diskVars, view
<1>5. CASE GotWord \/ GotNoindex \/ \E d \in Descriptions : GotHrefToSelf(d)
  BY <1>5 DEF GotWord, GotNoindex, GotHrefToSelf, InDocument, serverVars, diskVars, view
<1>6. CASE NotChanged \/ NotFound \/ NotParsable \/ Duplicate \/ NotModified
  BY <1>0, <1>6, QuietFills DEF NotChanged, NotFound, NotParsable, Duplicate,
     NotModified, Outcome, AtStatus, Retrieved, serverVars, diskVars, loopVars
<1>7. CASE NoHost
  BY <1>0, <1>7, QuietFills DEF NoHost, Outcome, AtStatus, srv!MarkDead, serverVars,
     diskVars, loopVars
<1>8. ASSUME NEW p \in BOOLEAN, FirstRetrieval(p) \/ Changed(p) PROVE Filling
  BY <1>0, <1>8, QuietFills DEF FirstRetrieval, Changed, Retrieved, Parse, serverVars,
     loopVars
<1>9. CASE RetrievedDocument \/ Finish \/ NextSource
  BY <1>0, <1>9, QuietFills DEF RetrievedDocument, Finish, NextSource, serverVars,
     diskVars, loopVars, history
<1>10. CASE UNCHANGED vars \/ \E u \in URLs : PageChange(u)
  BY <1>10 DEF PageChange, vars, serverVars, diskVars, loopVars, refVars, history, view
<1> QED
  <2>1. CASE Answer
    BY <2>1, <1>2, <1>6, <1>7, <1>8 DEF Answer
  <2>2. CASE ParserCall
    BY <2>2, <1>3, <1>4, <1>5 DEF ParserCall
  <2>3. CASE Run
    BY <2>1, <2>3, <1>1, <1>9 DEF Run, Initialize, Loop
  <2> QED BY <2>2, <2>3, <1>10 DEF Next

-----------------------------------------------------------------------------
(* The loop of Start. *)

(* The URLs a dig still has: retrieved, waiting, popped, or in the log once *)
(* the queues were written to it.                                           *)
Kept == fetched \cup InQueue \cup (IF pc = "parse_url" THEN {urlref} ELSE {})
                \cup (IF pc = "close" THEN url_log ELSE {})

(* Where a popped URL may have been dropped: between the failed test of     *)
(* noSignal and the end of the process.                                     *)
MayHaveDropped == ~noSignal /\ pc \in {"pick", "round", "exit", "close"}

KeptInv ==
  /\ ~MayHaveDropped => accepted \subseteq Kept
  /\ \E d \in URLs \cup {NoURL} : accepted \subseteq Kept \cup {d}
  /\ pc \in {"idle", "initial"} => noSignal
  /\ pc \notin {"idle", "close"} \/ (pc = "close" /\ noSignal) => url_log = {}

(* While more is FALSE nothing was popped in this round, so what waits      *)
(* waits at the servers the round has still to look at.                     *)
RoundInv ==
  /\ pc \in {"parse_url", "status", "parsing", "finish"} => more
  /\ pc = "pop" /\ ~more =>
       count = 0 /\ \A u \in InQueue : ServerOf[u] \in remaining \cup {server}
  /\ pc = "pick" /\ ~more /\ noSignal => \A u \in InQueue : ServerOf[u] \in remaining
  /\ pc = "round" /\ ~more /\ noSignal => InQueue = {}
  /\ pc = "exit" /\ noSignal => InQueue = {}
  /\ pc = "close" => InQueue = {}

(* What waits, is in hand or was retrieved, the rules of its server allow.  *)
RobotsInv ==
  \A u \in InQueue \cup fetched \cup (IF pc = "parse_url" THEN {urlref} ELSE {}) :
    u \notin disallow /\ ServerOf[u] \in servers

QueueInv == IInv /\ KeptInv /\ RoundInv

LEMMA PopFacts ==
  ASSUME IInv, Pop
  PROVE  \E u \in InQueue :
           /\ queued' = [queued EXCEPT ![u] = queued[u] - 1]
           /\ \A v \in InQueue' : v \in InQueue
           /\ InQueue \subseteq InQueue' \cup {u}
           /\ UNCHANGED <<accepted, fetched, noSignal, remaining, server, servers,
                          disallow, url_log>>
           /\ pc = "pop"
           /\ \/ noSignal /\ urlref' = u /\ more' = TRUE /\ pc' = "parse_url"
              \/ ~noSignal /\ pc' = "pick"
<1>1. PICK u \in InQueue : srv!Pop(u) /\ \/ noSignal /\ urlref' = u /\ more' = TRUE /\ pc' = "parse_url"
                                         \/ ~noSignal /\ pc' = "pick"
  BY DEF Pop, srv!Waiting, InQueue
<1>2. queued' = [queued EXCEPT ![u] = queued[u] - 1] /\ u \in URLs
  BY <1>1 DEF srv!Pop, InQueue
<1>3. (\A v \in InQueue' : v \in InQueue) /\ InQueue \subseteq InQueue' \cup {u}
  BY <1>1, <1>2, QueueTypes DEF InQueue
<1>4. /\ UNCHANGED <<accepted, fetched, noSignal, remaining, server, servers,
                     disallow, url_log>>
      /\ pc = "pop"
  BY <1>1 DEF Pop, srv!Pop, history, diskVars
<1> QED BY <1>1, <1>2, <1>3, <1>4

LEMMA KeptStep == QueueInv /\ [Next]_vars => KeptInv'
<1> SUFFICES ASSUME QueueInv, [Next]_vars PROVE KeptInv'
  OBVIOUS
<1>0. IInv /\ KeptInv /\ RoundInv
  BY DEF QueueInv
<1>1. CASE Filling
  <2>1. ~MayHaveDropped /\ accepted \subseteq fetched \cup InQueue
    BY <1>0, <1>1 DEF Filling, KeptInv, MayHaveDropped, Kept
  <2>2. InQueue \subseteq InQueue' /\ Grown \subseteq InQueue'
    BY <1>0, <1>1, QueueTypes DEF Filling, InQueue, Grown
  <2>3. accepted' \subseteq Kept'
    BY <1>1, <2>1, <2>2 DEF Filling, Kept
  <2> QED BY <1>0, <1>1, <2>3 DEF Filling, KeptInv
<1>2. ASSUME UNCHANGED <<queued, accepted, fetched>>,
             pc \notin {"parse_url", "close"}, pc' \notin {"parse_url", "close", "idle"},
             MayHaveDropped => MayHaveDropped',
             pc' = "initial" => noSignal', url_log' = {}
      PROVE  KeptInv'
  <2>1. Kept' = Kept
    BY <1>2 DEF Kept, InQueue
  <2> QED BY <1>0, <1>2, <2>1 DEF KeptInv
<1>3. CASE UNCHANGED view
  <2>1. Kept' = Kept /\ MayHaveDropped' = MayHaveDropped
    BY <1>3 DEF view, Kept, InQueue, MayHaveDropped
  <2> QED BY <1>0, <1>3, <2>1 DEF KeptInv, view
<1>4. CASE Signal
  <2>1. UNCHANGED <<queued, accepted, fetched, urlref, url_log, pc>>
    BY <1>4 DEF Signal, serverVars, refVars, history, diskVars
  <2>2. Kept' = Kept
    BY <2>1 DEF Kept, InQueue
  <2>3. MayHaveDropped => MayHaveDropped'
    BY <1>4 DEF Signal, MayHaveDropped
  <2>4. pc \notin {"idle", "initial", "close"}
    BY <1>4 DEF Signal
  <2> QED BY <1>0, <2>1, <2>2, <2>3, <2>4 DEF KeptInv
<1>5. CASE Start \/ Round \/ Pick \/ ServerDone
  <2>1. UNCHANGED <<queued, accepted, fetched, url_log>>
    BY <1>5 DEF Start, Round, Pick, ServerDone, serverVars, history, diskVars
  <2>2. pc \in {"initial", "round", "pick", "pop"} /\ pc' \in {"round", "exit", "pick", "pop"}
    BY <1>5 DEF Start, Round, Pick, ServerDone
  <2>3. MayHaveDropped => MayHaveDropped'
    BY <1>5 DEF Start, Round, Pick, ServerDone, loopVars, MayHaveDropped
  <2>4. url_log' = {}
    BY <1>0, <2>1, <2>2 DEF KeptInv
  <2> QED BY <1>2, <2>1, <2>2, <2>3, <2>4
<1>7. CASE Pop
  <2>1. PICK u \in InQueue :
           /\ InQueue \subseteq InQueue' \cup {u}
           /\ UNCHANGED <<accepted, fetched, noSignal, url_log>>
           /\ pc = "pop"
           /\ \/ noSignal /\ urlref' = u /\ pc' = "parse_url"
              \/ ~noSignal /\ pc' = "pick"
    BY <1>0, <1>7, PopFacts
  <2>2. accepted \subseteq fetched \cup InQueue /\ u \in URLs
    BY <1>0, <2>1 DEF KeptInv, MayHaveDropped, Kept, InQueue
  <2>3. accepted' \subseteq Kept' \cup {u}
    BY <2>1, <2>2 DEF Kept
  <2>4. ~MayHaveDropped' => accepted' \subseteq Kept'
    BY <2>1, <2>2 DEF Kept, MayHaveDropped
  <2>5. url_log' = {}
    BY <1>0, <2>1 DEF KeptInv
  <2> QED BY <2>1, <2>2, <2>3, <2>4, <2>5 DEF KeptInv
<1>8. CASE ParseUrl
  <2>1. /\ UNCHANGED <<queued, accepted, noSignal, url_log>>
        /\ fetched' = fetched \cup {urlref}
    BY <1>8 DEF ParseUrl, serverVars, loopVars, diskVars
  <2>2. pc = "parse_url" /\ pc' = "status"
    BY <1>8 DEF ParseUrl
  <2>3. accepted' \subseteq Kept'
    BY <1>0, <2>1, <2>2 DEF KeptInv, MayHaveDropped, Kept, InQueue
  <2> QED BY <1>0, <2>1, <2>2, <2>3 DEF KeptInv
<1>9. CASE SaveLog
  <2>1. pc = "exit" /\ pc' = "close" /\ UNCHANGED <<accepted, fetched, noSignal>>
    BY <1>9 DEF SaveLog, loopVars, history
  <2>2. Kept \subseteq Kept'
    BY <1>9, <2>1 DEF SaveLog, serverVars, Kept, InQueue
  <2>3. MayHaveDropped' <=> MayHaveDropped
    BY <2>1 DEF MayHaveDropped
  <2>4. noSignal => url_log' = {}
    BY <1>0, <1>9, <2>1 DEF SaveLog, KeptInv
  <2> QED BY <1>0, <2>1, <2>2, <2>3, <2>4 DEF KeptInv
<1>10. CASE CloseRun
  BY <1>10 DEF CloseRun, KeptInv
<1>11. ASSUME NEW m \in Modes, StartRun(m) PROVE KeptInv'
  BY <1>0, <1>2, <1>11 DEF StartRun, serverVars, history, KeptInv, MayHaveDropped
<1> QED BY <1>0, <1>1, <1>3, <1>4, <1>5, <1>7, <1>8, <1>9, <1>10, <1>11, StepKinds

(* A server that is picked may be asked for at least one document. *)
LEMMA FirstRequest ==
  ASSUME count = 0
  PROVE  MayRequest
BY ComponentsAssumption DEF MayRequest, srv!RequestsInARow

LEMMA RoundStep == QueueInv /\ [Next]_vars => RoundInv'
<1> SUFFICES ASSUME QueueInv, [Next]_vars PROVE RoundInv'
  OBVIOUS
<1>0. IInv /\ KeptInv /\ RoundInv
  BY DEF QueueInv
<1>1. CASE Filling
  BY <1>0, <1>1 DEF Filling, RoundInv
<1>2. CASE UNCHANGED view
  BY <1>0, <1>2 DEF view, RoundInv, InQueue
<1>3. CASE Signal
  BY <1>0, <1>3 DEF Signal, serverVars, RoundInv, InQueue
<1>4. CASE Start \/ \E m \in Modes : StartRun(m)
  BY <1>4 DEF Start, StartRun, RoundInv
<1>5. CASE Round
  <2>1. UNCHANGED <<queued, noSignal>> /\ InQueue' = InQueue
    BY <1>5 DEF Round, serverVars, InQueue
  <2> QED BY <1>0, <1>5, <2>1, QueueTypes DEF Round, RoundInv
<1>6. CASE Pick
  <2>1. UNCHANGED <<queued, noSignal, more>> /\ InQueue' = InQueue
    BY <1>6 DEF Pick, serverVars, InQueue
  <2> QED BY <1>0, <1>6, <2>1 DEF Pick, RoundInv
<1>7. CASE Pop
  <2>1. /\ UNCHANGED noSignal
        /\ \/ more' = TRUE /\ pc' = "parse_url"
           \/ ~noSignal /\ pc' = "pick"
    BY <1>0, <1>7, PopFacts
  <2> QED BY <2>1 DEF RoundInv
<1>8. CASE ServerDone
  <2>1. UNCHANGED <<queued, noSignal, more, remaining, server, count>> /\ InQueue' = InQueue
    BY <1>8 DEF ServerDone, serverVars, loopVars, InQueue
  <2>2. pc = "pop" /\ pc' = "pick"
    BY <1>8 DEF ServerDone
  <2>3. ASSUME ~more PROVE \A u \in InQueue : ServerOf[u] \in remaining
    <3>1. count = 0 /\ \A u \in InQueue : ServerOf[u] \in remaining \cup {server}
      BY <1>0, <2>2, <2>3 DEF RoundInv
    <3>2. srv!Waiting(server) = {}
      BY <1>8, <3>1, FirstRequest DEF ServerDone
    <3> QED BY <3>1, <3>2 DEF srv!Waiting, InQueue
  <2> QED BY <2>1, <2>2, <2>3 DEF RoundInv
<1>9. CASE ParseUrl
  BY <1>0, <1>9 DEF ParseUrl, loopVars, RoundInv
<1>10. CASE SaveLog
  <2>1. pc = "exit" /\ pc' = "close" /\ UNCHANGED noSignal
    BY <1>10 DEF SaveLog, loopVars
  <2>2. InQueue' = {}
    BY <1>0, <1>10, <2>1 DEF SaveLog, serverVars, srv!PopAll, RoundInv, InQueue
  <2> QED BY <2>1, <2>2 DEF RoundInv
<1>11. CASE CloseRun
  BY <1>11 DEF CloseRun, RoundInv
<1> QED BY <1>0, <1>1, <1>2, <1>3, <1>4, <1>5, <1>6, <1>7, <1>8, <1>9, <1>10, <1>11, StepKinds

LEMMA QueueInvariance == Spec => []QueueInv
<1>1. Init => QueueInv
  <2> SUFFICES ASSUME Init PROVE QueueInv
    OBVIOUS
  <2>1. KeptInv /\ RoundInv
    BY DEF Init, KeptInv, RoundInv, MayHaveDropped
  <2> QED BY <2>1, InitInvariant DEF QueueInv
<1>2. QueueInv /\ [Next]_vars => QueueInv'
  BY StepInvariant, KeptStep, RoundStep DEF QueueInv
<1> QED BY <1>1, <1>2, PTL DEF Spec

(* A dig that no signal ends has retrieved every URL its queues took: the   *)
(* flag more, which ends the loop, and the round over the servers, of which *)
(* new ones turn up while it runs, never leave a URL waiting.               *)
THEOREM DigForgetsNothing == Spec => []NothingForgotten
<1>1. QueueInv => NothingForgotten
  BY DEF QueueInv, KeptInv, RoundInv, Kept, MayHaveDropped, NothingForgotten
<1> QED BY <1>1, QueueInvariance, PTL

(* What an interrupted dig neither retrieves nor logs is at most one URL,   *)
(* however many wait: the one popped before the signal was seen.            *)
THEOREM SignalDropsAtMostOne == Spec => []AtMostOneDropped
<1>1. QueueInv => AtMostOneDropped
  <2> SUFFICES ASSUME QueueInv, pc = "close"
               PROVE  Cardinality(accepted \ (fetched \cup url_log)) <= 1
    BY DEF AtMostOneDropped
  <2>1. PICK d \in URLs \cup {NoURL} : accepted \subseteq Kept \cup {d}
    BY DEF QueueInv, KeptInv
  <2>2. accepted \ (fetched \cup url_log) \subseteq {d}
    BY <2>1 DEF QueueInv, RoundInv, Kept
  <2>3. IsFiniteSet({d}) /\ Cardinality({d}) = 1
    BY FS_Singleton
  <2> QED BY <2>2, <2>3, FS_Subset
<1> QED BY <1>1, QueueInvariance, PTL

-----------------------------------------------------------------------------
(* Robots. *)

LEMMA RobotsStep == IInv /\ RobotsInv /\ [Next]_vars => RobotsInv'
<1> SUFFICES ASSUME IInv, RobotsInv, [Next]_vars PROVE RobotsInv'
  OBVIOUS
<1>1. CASE Filling
  <2>1. ASSUME NEW u \in InQueue' \cup fetched' PROVE u \notin disallow' /\ ServerOf[u] \in servers'
    <3>1. CASE u \in Grown
      BY <1>1, <3>1 DEF Filling
    <3>2. CASE u \in InQueue \cup fetched
      <4>1. u \notin disallow /\ ServerOf[u] \in servers
        BY <3>2 DEF RobotsInv
      <4> QED BY <1>1, <4>1 DEF Filling
    <3>3. u \in Grown \cup InQueue \cup fetched
      BY <1>1, <2>1, QueueTypes DEF Filling, Grown, InQueue
    <3> QED BY <3>1, <3>2, <3>3
  <2>2. pc' # "parse_url"
    BY <1>1 DEF Filling
  <2> QED BY <2>1, <2>2 DEF RobotsInv
<1>2. ASSUME UNCHANGED <<queued, fetched, disallow, servers>>,
             pc' # "parse_url" \/ UNCHANGED <<pc, urlref>>
      PROVE  RobotsInv'
  BY <1>2 DEF RobotsInv, InQueue
<1>3. CASE UNCHANGED view
  BY <1>2, <1>3 DEF view
<1>4. CASE Signal
  BY <1>2, <1>4 DEF Signal, serverVars, refVars, history
<1>5. CASE Start \/ Round \/ Pick \/ ServerDone \/ \E m \in Modes : StartRun(m)
  BY <1>2, <1>5 DEF Start, Round, Pick, ServerDone, StartRun, serverVars, history
<1>6. CASE Pop
  <2>1. PICK u \in InQueue :
           /\ \A v \in InQueue' : v \in InQueue
           /\ UNCHANGED <<fetched, servers, disallow>>
           /\ urlref' = u \/ pc' = "pick"
    BY <1>6, PopFacts
  <2> QED BY <2>1 DEF RobotsInv
<1>7. CASE ParseUrl
  <2>1. /\ UNCHANGED <<queued, servers, disallow>> /\ fetched' = fetched \cup {urlref}
        /\ pc = "parse_url" /\ pc' = "status"
    BY <1>7 DEF ParseUrl, serverVars
  <2> QED BY <2>1 DEF RobotsInv, InQueue
<1>8. CASE SaveLog
  <2>1. UNCHANGED <<fetched, servers, disallow>> /\ pc' = "close"
    BY <1>8 DEF SaveLog, serverVars, srv!PopAll, history
  <2>2. InQueue' \subseteq InQueue
    BY <1>8 DEF SaveLog, serverVars, srv!PopAll, InQueue
  <2> QED BY <2>1, <2>2 DEF RobotsInv
<1>9. CASE CloseRun
  BY <1>9 DEF CloseRun, srv!Reset, RobotsInv, InQueue
<1> QED BY <1>1, <1>3, <1>4, <1>5, <1>6, <1>7, <1>8, <1>9, StepKinds

(* What robots.txt forbids is never retrieved, although URLs of a server    *)
(* pass IsValidURL before the server, and so its rules, are known.          *)
THEOREM RobotsRespected == Spec => []RobotsObeyed
<1>1. Init => RobotsInv
  BY DEF Init, srv!Init, RobotsInv, InQueue
<1>2. IInv /\ RobotsInv /\ [Next]_vars => RobotsInv'
  BY RobotsStep
<1>3. RobotsInv => RobotsObeyed
  BY DEF RobotsInv, RobotsObeyed
<1> QED BY <1>1, <1>2, <1>3, Invariance, PTL DEF Spec

-----------------------------------------------------------------------------
(* The limit of documents per server. *)

Redirected == UNION {Redirects[u] : u \in URLs}

(* What the limit counts: URLs that something other than a redirect leads to. *)
Counted(s) == {u \in accepted : ServerOf[u] = s} \ Redirected

(* A URL is retrieved only after a queue took it, and every URL counted     *)
(* added one to the counter of its server, when that was below the limit.   *)
LimitInv ==
  /\ InQueue \cup fetched \cup (IF pc = "parse_url" THEN {urlref} ELSE {}) \subseteq accepted
  /\ \A s \in Servers :
       /\ IsFiniteSet(Counted(s)) /\ Cardinality(Counted(s)) <= documents[s]
       /\ MaxDocuments # -1 => documents[s] <= MaxDocuments

(* A queue takes u. *)
Taken(u) ==
  /\ accepted' = accepted \cup {u}
  /\ \/ /\ documents' = [documents EXCEPT ![ServerOf[u]] = @ + 1]
        /\ MaxDocuments # -1 => documents[ServerOf[u]] < MaxDocuments
     \/ UNCHANGED documents /\ u \in Redirected

NothingTaken == UNCHANGED <<documents, accepted>>

LEMMA PushTakes ==
  ASSUME IInv, NEW u \in URLs, NEW newDoc \in BOOLEAN, newDoc \/ u \in Redirected,
         srv!Push(u, newDoc) \/ UNCHANGED <<documents, queued>>,
         accepted' = accepted \cup Grown
  PROVE  NothingTaken \/ Taken(u)
<1>1. /\ queued \in [URLs -> Nat] /\ documents \in [Servers -> Nat] /\ ServerOf[u] \in Servers
      /\ MaxDocuments \in Nat \cup {-1}
  BY ComponentsAssumption DEF IInv, TypeOK, srv!TypeOK
<1>2. CASE UNCHANGED <<documents, queued>>
  <2>1. Grown = {}
    BY <1>1, <1>2 DEF Grown
  <2> QED BY <1>2, <2>1 DEF NothingTaken
<1>3. CASE srv!Push(u, newDoc) /\ ~srv!Refuses(u, newDoc)
  <2>1. queued' = [queued EXCEPT ![u] = queued[u] + 1]
    BY <1>3 DEF srv!Push
  <2>2. Grown = {u}
    BY <1>1, <2>1 DEF Grown
  <2>3. CASE newDoc
    <3>1. documents' = [documents EXCEPT ![ServerOf[u]] = @ + 1]
      BY <1>3, <2>3 DEF srv!Push
    <3>2. MaxDocuments # -1 => documents[ServerOf[u]] < MaxDocuments
      BY <1>1, <1>3, <2>3 DEF srv!Refuses
    <3> QED BY <2>2, <3>1, <3>2 DEF Taken
  <2>4. CASE ~newDoc
    BY <1>3, <2>2, <2>4 DEF srv!Push, Taken
  <2> QED BY <2>3, <2>4
<1> QED BY <1>2, <1>3 DEF srv!Push, srv!queueVars

LEMMA EnqueueTakes ==
  ASSUME IInv, NEW u \in URLs, NEW newDoc \in BOOLEAN, newDoc \/ u \in Redirected,
         Enqueue(u, newDoc)
  PROVE  NothingTaken \/ Taken(u)
<1>1. accepted' = accepted \cup Grown
  BY DEF Enqueue, Grown
<1>2. srv!Push(u, newDoc) \/ UNCHANGED <<documents, queued>>
  BY DEF Enqueue, serverVars
<1> QED BY <1>1, <1>2, PushTakes

LEMMA TakenKinds ==
  ASSUME IInv, [Next]_vars
  PROVE  NothingTaken \/ CloseRun \/ \E u \in URLs : Taken(u)
<1>1. ASSUME NEW url \in WrittenURLs, Initial(url)
      PROVE  NothingTaken \/ \E u \in URLs : Taken(u)
  <2>1. Normal[url] \in URLs
    BY RetrieverAssumption
  <2>2. /\ srv!Push(Normal[url], TRUE) \/ UNCHANGED <<documents, queued>>
        /\ accepted' = accepted \cup Grown
    BY <1>1 DEF Initial, Grown
  <2> QED BY <2>1, <2>2, PushTakes
<1>2. ASSUME NEW u \in URLs, NEW d \in Descriptions, Redirect(u, d)
      PROVE  NothingTaken \/ Taken(u)
  <2>1. CASE UNCHANGED <<serverVars, accepted>>
    BY <2>1 DEF serverVars, NothingTaken
  <2>2. CASE Enqueue(u, FALSE)
    <3>1. urlref \in URLs /\ u \in Redirects[urlref]
      BY <1>2, IndexTypes DEF Redirect, AtDocument
    <3>2. u \in Redirected
      BY <3>1 DEF Redirected
    <3> QED BY <2>2, <3>2, EnqueueTakes
  <2> QED BY <1>2, <2>1, <2>2 DEF Redirect
<1>3. ASSUME NEW u \in URLs, NEW d \in Descriptions, NEW hops \in LinkHops,
             GotHref(u, d, hops)
      PROVE  NothingTaken \/ Taken(u)
  BY <1>3, EnqueueTakes DEF GotHref
<1>4. CASE GotWord \/ GotNoindex \/ \E d \in Descriptions :
             \/ GotHrefToSelf(d)
             \/ \E u \in URLs, hops \in LinkHops : GotHrefTooFar(u, d, hops)
  BY <1>4 DEF GotWord, GotNoindex, GotHrefToSelf, GotHrefTooFar, serverVars, NothingTaken
<1>5. CASE NotChanged \/ NotFound \/ NotParsable \/ NoHost
  BY <1>5 DEF NotChanged, NotFound, NotParsable, NoHost, Outcome, srv!MarkDead, serverVars,
     NothingTaken
<1>6. CASE Duplicate \/ NotModified \/ \E p \in BOOLEAN : FirstRetrieval(p) \/ Changed(p)
  BY <1>6 DEF Duplicate, NotModified, FirstRetrieval, Changed, Retrieved, serverVars,
     NothingTaken
<1>7. CASE NextSource \/ Start \/ Loop \/ ParseUrl \/ RetrievedDocument \/ Finish \/ SaveLog
  BY <1>7 DEF NextSource, Start, Loop, Round, Pick, Pop, ServerDone, ParseUrl,
     RetrievedDocument, Finish, SaveLog, srv!Pop, srv!PopAll, serverVars, history, NothingTaken
<1>8. CASE \/ Signal \/ UNCHANGED vars
           \/ (\E u \in URLs : PageChange(u)) \/ \E m \in Modes : StartRun(m)
  BY <1>8 DEF Signal, PageChange, StartRun, vars, serverVars, history, NothingTaken
<1> QED
  <2>1. CASE Answer
    BY <2>1, <1>2, <1>5, <1>6 DEF Answer
  <2>2. CASE ParserCall
    BY <2>2, <1>3, <1>4 DEF ParserCall
  <2>3. CASE Run
    BY <2>1, <2>3, <1>1, <1>7 DEF Run, Initialize
  <2> QED BY <2>2, <2>3, <1>8 DEF Next

(* A URL taken from a server adds at most one to what its limit counts.     *)
LEMMA CountedGrows ==
  ASSUME IInv, LimitInv, NEW u \in URLs, Taken(u), NEW s \in Servers
  PROVE  /\ IsFiniteSet(Counted(s)') /\ Cardinality(Counted(s)') <= documents'[s]
         /\ MaxDocuments # -1 => documents'[s] <= MaxDocuments
<1>1. /\ documents \in [Servers -> Nat] /\ ServerOf[u] \in Servers
      /\ MaxDocuments \in Nat \cup {-1}
  BY ComponentsAssumption DEF IInv, TypeOK, srv!TypeOK
<1>2. /\ IsFiniteSet(Counted(s)) /\ Cardinality(Counted(s)) <= documents[s]
      /\ MaxDocuments # -1 => documents[s] <= MaxDocuments
      /\ Cardinality(Counted(s)) \in Nat
  BY FS_CardinalityType DEF LimitInv
<1>3. CASE Counted(s)' = Counted(s)
  <2>1. documents'[s] \in {documents[s], documents[s] + 1}
    BY <1>1 DEF Taken
  <2>2. MaxDocuments # -1 => documents'[s] <= MaxDocuments
    BY <1>1, <1>2 DEF Taken
  <2>3. documents[s] \in Nat
    BY <1>1
  <2>4. Cardinality(Counted(s)) <= documents'[s]
    BY <1>2, <2>1, <2>3
  <2> QED BY <1>2, <1>3, <2>2, <2>4
<1>4. CASE Counted(s)' # Counted(s)
  <2>1. ServerOf[u] = s /\ u \notin Redirected /\ Counted(s)' = Counted(s) \cup {u}
    BY <1>4 DEF Taken, Counted
  <2>2. /\ documents'[s] = documents[s] + 1
        /\ MaxDocuments # -1 => documents[s] < MaxDocuments
    BY <1>1, <2>1 DEF Taken
  <2>3. IsFiniteSet(Counted(s)') /\ Cardinality(Counted(s)') <= Cardinality(Counted(s)) + 1
    <3>1. /\ IsFiniteSet(Counted(s) \cup {u})
          /\ Cardinality(Counted(s) \cup {u}) = IF u \in Counted(s) THEN Cardinality(Counted(s))
                                                ELSE Cardinality(Counted(s)) + 1
      BY <1>2, FS_AddElement
    <3> QED BY <1>2, <2>1, <3>1
  <2>4. Cardinality(Counted(s)') \in Nat
    BY <2>3, FS_CardinalityType
  <2> QED BY <1>1, <1>2, <2>2, <2>3, <2>4
<1> QED BY <1>3, <1>4

LEMMA LimitStep == IInv /\ LimitInv /\ [Next]_vars => LimitInv'
<1> SUFFICES ASSUME IInv, LimitInv, [Next]_vars PROVE LimitInv'
  OBVIOUS
<1>1. CASE CloseRun
  <2>1. /\ pc' = "idle" /\ accepted' = {} /\ fetched' = {} /\ InQueue' = {}
        /\ documents' = [s \in Servers |-> 0]
    BY <1>1 DEF CloseRun, srv!Reset, InQueue
  <2>2. ASSUME NEW s \in Servers
        PROVE  /\ IsFiniteSet(Counted(s)') /\ Cardinality(Counted(s)') <= documents'[s]
               /\ MaxDocuments # -1 => documents'[s] <= MaxDocuments
    <3>1. Counted(s)' = {} /\ documents'[s] = 0
      BY <2>1 DEF Counted
    <3> QED BY <3>1, FS_EmptySet, ComponentsAssumption
  <2> QED BY <2>1, <2>2 DEF LimitInv
<1>2. CASE ~CloseRun
  <2>1. accepted \subseteq accepted'
    BY <1>2, TakenKinds DEF NothingTaken, Taken
  <2>2. InQueue' \cup fetched' \cup (IF pc' = "parse_url" THEN {urlref'} ELSE {}) \subseteq accepted'
    <3>1. CASE Filling
      <4>1. InQueue' \subseteq InQueue \cup Grown
        BY <3>1, QueueTypes DEF Filling, InQueue, Grown
      <4> QED BY <3>1, <4>1 DEF Filling, LimitInv
    <3>2. CASE UNCHANGED view
      BY <3>2 DEF view, LimitInv, InQueue
    <3>3. CASE Signal
      BY <2>1, <3>3 DEF Signal, serverVars, refVars, history, LimitInv, InQueue
    <3>4. CASE Start \/ Round \/ Pick \/ ServerDone \/ \E m \in Modes : StartRun(m)
      BY <2>1, <3>4 DEF Start, Round, Pick, ServerDone, StartRun, serverVars, history,
         LimitInv, InQueue
    <3>5. CASE Pop
      BY <2>1, <3>5, PopFacts DEF LimitInv
    <3>6. CASE ParseUrl
      BY <2>1, <3>6 DEF ParseUrl, serverVars, LimitInv, InQueue
    <3>7. CASE SaveLog
      BY <2>1, <3>7 DEF SaveLog, serverVars, srv!PopAll, history, LimitInv, InQueue
    <3> QED BY <1>2, <3>1, <3>2, <3>3, <3>4, <3>5, <3>6, <3>7, StepKinds
  <2>3. ASSUME NothingTaken, NEW s \in Servers
        PROVE  Counted(s)' = Counted(s) /\ documents' = documents
    BY <2>3 DEF NothingTaken, Counted
  <2> QED BY <1>2, <2>2, <2>3, TakenKinds, CountedGrows DEF LimitInv
<1> QED BY <1>1, <1>2

LEMMA LimitInit == Init => LimitInv
<1> SUFFICES ASSUME Init PROVE LimitInv
  OBVIOUS
<1>1. /\ pc = "idle" /\ accepted = {} /\ fetched = {} /\ InQueue = {}
      /\ documents = [s \in Servers |-> 0]
  BY DEF Init, srv!Init, InQueue
<1>2. ASSUME NEW s \in Servers
      PROVE  /\ IsFiniteSet(Counted(s)) /\ Cardinality(Counted(s)) <= documents[s]
             /\ MaxDocuments # -1 => documents[s] <= MaxDocuments
  <2>1. Counted(s) = {} /\ documents[s] = 0
    BY <1>1 DEF Counted
  <2> QED BY <2>1, FS_EmptySet, ComponentsAssumption
<1> QED BY <1>1, <1>2 DEF LimitInv

(* No dig retrieves more than server_max_docs documents of a server, the    *)
(* targets of redirects aside, whatever pushes its URLs and in what order:  *)
(* the log, the database, start_url and links to a server already passed.   *)
THEOREM ServerLimitHolds == Spec => []WithinServerLimit
<1>1. ASSUME IInv, LimitInv PROVE WithinServerLimit
  <2> SUFFICES ASSUME MaxDocuments # -1, NEW s \in Servers
               PROVE  Cardinality({u \in fetched : ServerOf[u] = s} \ Redirected) <= MaxDocuments
    BY DEF WithinServerLimit, Redirected
  <2> DEFINE Mine == {u \in fetched : ServerOf[u] = s} \ Redirected
  <2>1. Mine \subseteq Counted(s)
    BY <1>1 DEF LimitInv, Counted
  <2>2. /\ IsFiniteSet(Counted(s)) /\ Cardinality(Counted(s)) <= documents[s]
        /\ documents[s] <= MaxDocuments
    BY <1>1 DEF LimitInv
  <2>3. IsFiniteSet(Mine) /\ Cardinality(Mine) <= Cardinality(Counted(s))
    BY <2>1, <2>2, FS_Subset
  <2>4. /\ Cardinality(Mine) \in Nat /\ Cardinality(Counted(s)) \in Nat
        /\ documents[s] \in Nat /\ MaxDocuments \in Nat
    BY <1>1, <2>2, <2>3, FS_CardinalityType, ComponentsAssumption DEF IInv, TypeOK, srv!TypeOK
  <2> QED BY <2>2, <2>3, <2>4
<1> QED BY <1>1, LimitInit, LimitStep, Invariance, PTL DEF Spec

-----------------------------------------------------------------------------
(* What fills the queues, and what is marked as visited.  Both happen in    *)
(* Initial and with a link or a redirect, and nowhere else.                 *)

LEMMA EnqueueGrows ==
  ASSUME IInv, NEW u \in URLs, NEW newDoc, Enqueue(u, newDoc)
  PROVE  /\ u \in visited' /\ visited' \subseteq visited \cup {u}
         /\ InQueue' \subseteq InQueue \cup {u}
         /\ bad \subseteq bad' /\ disallow \subseteq disallow'
         /\ \/ u \in visited \/ u \in accepted'
            \/ srv!Refuses(u, newDoc)
<1>1. queued \in [URLs -> Nat]
  BY QueueTypes
<1>2. CASE u \in visited
  BY <1>2 DEF Enqueue, serverVars, InQueue
<1>3. CASE u \notin visited
  <2>1. srv!Register(ServerOf[u]) /\ srv!Push(u, newDoc) /\ visited' = visited \cup {u}
    BY <1>3 DEF Enqueue, Mark
  <2>2. bad \subseteq bad' /\ disallow \subseteq disallow'
    BY <2>1 DEF srv!Register
  <2>3. CASE srv!Refuses(u, newDoc)
    BY <2>1, <2>2, <2>3 DEF srv!Push, srv!queueVars, InQueue
  <2>4. CASE ~srv!Refuses(u, newDoc)
    <3>1. queued' = [queued EXCEPT ![u] = queued[u] + 1]
      BY <2>1, <2>4 DEF srv!Push
    <3>2. queued'[u] > queued[u] /\ InQueue' \subseteq InQueue \cup {u}
      BY <1>1, <3>1 DEF InQueue
    <3>3. u \in accepted'
      BY <3>2 DEF Enqueue
    <3> QED BY <2>1, <2>2, <3>2, <3>3
  <2> QED BY <2>3, <2>4
<1> QED BY <1>2, <1>3

(* Nothing is pushed or marked, and no server or rule is forgotten. *)
NothingPushed ==
  /\ InQueue' \subseteq InQueue
  /\ bad \subseteq bad' /\ disallow \subseteq disallow'
  /\ UNCHANGED <<visited, todo, from>>

LEMMA PushKinds ==
  ASSUME IInv, [Next]_vars
  PROVE  \/ NothingPushed
         \/ Linked /\ UNCHANGED <<todo, from>>
         \/ (\E url \in WrittenURLs : Initial(url))
         \/ NextSource \/ CloseRun \/ \E m \in Modes : StartRun(m)
<1>1. UNCHANGED <<queued, bad, disallow, visited, todo, from>> => NothingPushed
  BY DEF NothingPushed, InQueue
<1>2. ASSUME NEW u \in URLs, NEW d \in Descriptions, Redirect(u, d)
      PROVE  NothingPushed \/ (Linked /\ UNCHANGED <<todo, from>>)
  <2>1. UNCHANGED <<serverVars, visited>> \/ Linked
    BY <1>2, RedirectLinks
  <2> QED BY <1>1, <1>2, <2>1 DEF Redirect, serverVars
<1>3. ASSUME NEW u \in URLs, NEW d \in Descriptions, NEW hops \in LinkHops,
             GotHref(u, d, hops)
      PROVE  Linked /\ UNCHANGED <<todo, from>>
  BY <1>3, HrefLinks DEF GotHref, InDocument
<1>4. CASE GotWord \/ GotNoindex \/ \E d \in Descriptions :
             \/ GotHrefToSelf(d)
             \/ \E u \in URLs, hops \in LinkHops : GotHrefTooFar(u, d, hops)
  BY <1>1, <1>4 DEF GotWord, GotNoindex, GotHrefToSelf, GotHrefTooFar, InDocument, serverVars
<1>5. CASE NotChanged \/ NotFound \/ NotParsable
  BY <1>1, <1>5 DEF NotChanged, NotFound, NotParsable, Outcome, AtStatus, loopVars, serverVars
<1>6. CASE NoHost
  BY <1>6 DEF NoHost, Outcome, AtStatus, loopVars, serverVars, srv!MarkDead, NothingPushed, InQueue
<1>7. CASE Duplicate \/ NotModified \/ \E p \in BOOLEAN : FirstRetrieval(p) \/ Changed(p)
  BY <1>1, <1>7 DEF Duplicate, NotModified, FirstRetrieval, Changed, Retrieved, loopVars,
     serverVars
<1>8. CASE Start \/ Round \/ Pick \/ ServerDone \/ ParseUrl \/ RetrievedDocument \/ Finish
  BY <1>1, <1>8 DEF Start, Round, Pick, ServerDone, ParseUrl, RetrievedDocument, Finish,
     loopVars, serverVars
<1>9. CASE Pop
  <2>1. \A v \in InQueue' : v \in InQueue
    BY <1>9, PopFacts
  <2> QED BY <1>9, <2>1 DEF Pop, srv!Pop, NothingPushed
<1>10. CASE SaveLog
  BY <1>10 DEF SaveLog, srv!PopAll, serverVars, loopVars, NothingPushed, InQueue
<1>11. CASE Signal \/ UNCHANGED vars \/ \E u \in URLs : PageChange(u)
  BY <1>1, <1>11 DEF Signal, PageChange, vars, serverVars, loopVars
<1> QED
  <2>1. CASE Answer
    BY <2>1, <1>2, <1>5, <1>6, <1>7 DEF Answer
  <2>2. CASE ParserCall
    BY <2>2, <1>3, <1>4 DEF ParserCall
  <2>3. CASE Run
    BY <2>1, <2>3, <1>8, <1>9, <1>10 DEF Run, Initialize, Loop
  <2> QED BY <2>2, <2>3, <1>11 DEF Next

-----------------------------------------------------------------------------
(* Every document the index knows is tried. *)

(* No server refuses u. *)
Admitted(u) == u \notin disallow /\ (ServerOf[u] \notin bad \/ u \in LocalURLs)

Tried(u) == docs!Known(u) /\ docs!Lookup(u).accessed

(* Without signals there is never a log, so the database is read as the     *)
(* first source and what it names is pushed.                                *)
SourcesInv ==
  /\ noSignal /\ url_log = {}
  /\ from # FromDocsAfterLog
  /\ pc = "idle" => visited = {}
  /\ pc = "initial" /\ from = FromLog => visited = {} /\ todo = {}

(* A visited URL is out of the reach of links, so it must have been taken.  *)
VisitedInv == \A u \in visited \cap URLs : Admitted(u) => u \in accepted

TriedInv ==
  /\ pc = "idle" => fetched = {}
  /\ AtDocument => urlref \in fetched
  /\ \A u \in fetched : (AtDocument /\ u = urlref) \/ Tried(u)

(* Once the log is done with, the URLs of the index are taken, tried, or    *)
(* still to come from the database itself.                                  *)
LogIsDone == mode # "minimal" /\ pc # "idle" /\ ~(pc = "initial" /\ from = FromLog)

Coming(u) == pc = "initial" /\ from = FromDocsFirst /\ u \in todo

IndexedInv ==
  LogIsDone => \A u \in docs!IndexedURLs \cap InLimits :
                 Admitted(u) => u \in accepted \/ Tried(u) \/ Coming(u)

LEMMA PlaceKinds ==
  ASSUME IInv, [Next]_vars
  PROVE  /\ pc' = "initial" => \/ pc = "initial"
                               \/ \E m \in Modes : StartRun(m)
         /\ pc' = "idle" => CloseRun \/ UNCHANGED view
BY StepKinds DEF Filling, view, Signal, Start, Round, Pick, Pop, ServerDone, ParseUrl, SaveLog,
   CloseRun, StartRun, Places, IInv, TypeOK

LEMMA SourcesStep ==
  ASSUME ~Signals, IInv, SourcesInv, [Next]_vars
  PROVE  SourcesInv'
<1>1. noSignal' /\ url_log' = {}
  <2>1. CASE Filling \/ UNCHANGED view
    BY <2>1 DEF Filling, view, SourcesInv
  <2>2. CASE Start \/ Round \/ Pick \/ Pop \/ ServerDone \/ ParseUrl
    BY <2>2 DEF Start, Round, Pick, Pop, ServerDone, ParseUrl, diskVars, loopVars, SourcesInv
  <2>3. CASE SaveLog \/ CloseRun \/ \E m \in Modes : StartRun(m)
    BY <2>3 DEF SaveLog, CloseRun, StartRun, diskVars, loopVars, SourcesInv
  <2> QED BY <2>1, <2>2, <2>3, StepKinds DEF Signal
<1>2. CASE NothingPushed \/ (Linked /\ UNCHANGED <<todo, from>>)
  <2>1. Linked => pc \notin {"idle", "initial"} /\ pc' \notin {"idle", "initial"}
    BY DEF Linked, HandStays, AtDocument
  <2>2. CASE NothingPushed
    BY <1>1, <2>2, PlaceKinds DEF NothingPushed, SourcesInv, CloseRun, StartRun, view
  <2> QED BY <1>1, <1>2, <2>1, <2>2 DEF SourcesInv
<1>3. ASSUME NEW url \in WrittenURLs, Initial(url) PROVE SourcesInv'
  BY <1>1, <1>3 DEF Initial, SourcesInv
<1>4. CASE NextSource \/ CloseRun \/ \E m \in Modes : StartRun(m)
  BY <1>1, <1>4 DEF NextSource, CloseRun, StartRun, SourcesInv, FromDocsAfterLog, FromDocsFirst,
     FromStart, FromLog
<1> QED BY <1>2, <1>3, <1>4, PushKinds

LEMMA AcceptedKept ==
  ASSUME IInv, [Next]_vars
  PROVE  accepted \subseteq accepted' \/ CloseRun
BY TakenKinds DEF NothingTaken, Taken

LEMMA RefusedOut ==
  ASSUME MaxDocuments = -1, NEW u, NEW newDoc, srv!Refuses(u, newDoc)
  PROVE  ~Admitted(u)'
BY DEF srv!Refuses, Admitted

(* What Initial pushes and marks. *)
LEMMA InitialGrows ==
  ASSUME IInv, NEW url \in WrittenURLs, Initial(url)
  PROVE  /\ url \in todo /\ todo' = todo \ {url} /\ pc = "initial" /\ pc' = "initial"
         /\ UNCHANGED <<from, mode, i_dbf, dbf, fetched, url_log>>
         /\ bad \subseteq bad' /\ disallow \subseteq disallow'
         /\ visited' \subseteq visited \cup {url}
         /\ InQueue' \subseteq InQueue \cup {Normal[url]}
         /\ \/ Normal[url] \in accepted'
            \/ srv!Refuses(Normal[url], TRUE)
            \/ from = FromDocsAfterLog
            \/ visited' = visited /\ \/ from # FromDocsFirst /\ url \in visited
                                     \/ url \notin InLimits \/ Normal[url] \in disallow'
<1>1. /\ queued \in [URLs -> Nat] /\ Normal[url] \in URLs
  BY QueueTypes, RetrieverAssumption
<1>2. /\ url \in todo /\ todo' = todo \ {url} /\ pc = "initial" /\ pc' = "initial"
      /\ UNCHANGED <<from, mode, i_dbf, dbf, fetched, url_log>>
      /\ bad \subseteq bad' /\ disallow \subseteq disallow'
      /\ visited' \subseteq visited \cup {url}
  BY DEF Initial, docVars, diskVars, srv!Register, Mark
<1> DEFINE pushed == srv!Push(Normal[url], TRUE) /\ ~srv!Refuses(Normal[url], TRUE)
<1>3. CASE ~pushed
  <2>1. InQueue' \subseteq InQueue
    BY <1>3 DEF Initial, srv!Push, srv!queueVars, InQueue
  <2>2. \/ (from # FromDocsFirst /\ url \in visited) \/ ~IsValidURL(url, disallow')
        \/ srv!Push(Normal[url], TRUE) \/ from = FromDocsAfterLog
    BY DEF Initial
  <2>3. (from # FromDocsFirst /\ url \in visited) \/ ~IsValidURL(url, disallow')
          => visited' = visited
    BY DEF Initial
  <2> QED BY <1>2, <1>3, <2>1, <2>2, <2>3 DEF IsValidURL
<1>4. CASE pushed
  <2>1. queued' = [queued EXCEPT ![Normal[url]] = queued[Normal[url]] + 1]
    BY <1>4 DEF srv!Push
  <2>2. queued'[Normal[url]] > queued[Normal[url]] /\ InQueue' \subseteq InQueue \cup {Normal[url]}
    BY <1>1, <2>1 DEF InQueue
  <2>3. Normal[url] \in accepted'
    BY <1>1, <2>2 DEF Initial
  <2> QED BY <1>2, <2>2, <2>3
<1> QED BY <1>3, <1>4

LEMMA VisitedStep ==
  ASSUME MaxDocuments = -1, IInv, SourcesInv, VisitedInv, [Next]_vars
  PROVE  VisitedInv'
<1>1. ASSUME bad \subseteq bad', disallow \subseteq disallow', NEW u \in visited \cap URLs,
             Admitted(u)', ~CloseRun
      PROVE  u \in accepted'
  <2>1. Admitted(u)
    BY <1>1 DEF Admitted
  <2> QED BY <1>1, <2>1, AcceptedKept DEF VisitedInv
<1>2. CASE CloseRun
  BY <1>2 DEF CloseRun, VisitedInv
<1>3. CASE NothingPushed /\ ~CloseRun
  BY <1>1, <1>3 DEF NothingPushed, VisitedInv
<1>4. CASE Linked
  <2>1. PICK u \in URLs, newDoc \in BOOLEAN : Enqueue(u, newDoc)
    BY <1>4 DEF Linked
  <2>2. /\ visited' \subseteq visited \cup {u}
        /\ bad \subseteq bad' /\ disallow \subseteq disallow'
        /\ u \in visited \/ u \in accepted' \/ srv!Refuses(u, newDoc)
    BY <2>1, EnqueueGrows
  <2>3. ~CloseRun
    BY <1>4 DEF Linked, HandStays, AtDocument, CloseRun
  <2> QED BY <1>1, <2>2, <2>3, RefusedOut DEF VisitedInv
<1>5. ASSUME NEW url \in WrittenURLs, Initial(url) PROVE VisitedInv'
  <2>1. /\ visited' \subseteq visited \cup {url}
        /\ bad \subseteq bad' /\ disallow \subseteq disallow' /\ ~CloseRun
        /\ \/ Normal[url] \in accepted' \/ srv!Refuses(Normal[url], TRUE)
           \/ visited' = visited
    BY <1>5, InitialGrows DEF SourcesInv, CloseRun
  <2>2. url \in URLs => Normal[url] = url
    BY RetrieverAssumption
  <2> QED BY <1>1, <2>1, <2>2, RefusedOut DEF VisitedInv
<1>6. CASE NextSource \/ \E m \in Modes : StartRun(m)
  <2>1. UNCHANGED <<visited, bad, disallow>> /\ ~CloseRun
    BY <1>6 DEF NextSource, StartRun, serverVars, CloseRun
  <2> QED BY <1>1, <2>1 DEF VisitedInv
<1> QED BY <1>2, <1>3, <1>4, <1>5, <1>6, PushKinds

LEMMA TriedTable ==
  ASSUME IInv, IndexInv, [Next]_vars, pc # "idle",
         NEW u \in URLs, Tried(u), Finish => u # urlref
  PROVE  Tried(u)'
<1>1. CASE UNCHANGED <<dbf, i_dbf>>
  BY <1>1 DEF Tried, docs!Known, docs!Lookup, docs!Stored
<1>2. CASE Linked
  <2>1. PICK v \in URLs, hop \in 0 .. MaxHops :
               \E id, ref : Wrote(id, ref) /\ Target(v, hop, id, ref)
    BY <1>2 DEF Linked
  <2>2. PICK id, ref : Wrote(id, ref) /\ Target(v, hop, id, ref)
    BY <2>1
  <2>3. isopen
    BY <1>2, IndexTypes DEF Linked, AtDocument
  <2>4. /\ ref.url = v
        /\ id \in docs!DocIDs => docs!MayHold(id, ref)
        /\ docs!Known(v) => id = i_dbf[v] /\ ref.accessed = dbf[id].accessed
    BY <2>2, <2>3, TargetFacts
  <2>5. CASE u = v
    <3>1. i_dbf'[u] = id /\ dbf'[id] = ref /\ docs!Stored(id)'
      BY <2>2, <2>4, <2>5, WroteFacts
    <3> QED BY <2>4, <2>5, <3>1 DEF Tried, docs!Known, docs!Lookup
  <2>6. CASE u # v
    BY <2>2, <2>4, <2>6, OthersKept DEF Tried, Wrote
  <2> QED BY <2>5, <2>6
<1>3. ASSUME NEW ref, Wrote(current_id, ref), AtDocument, ref.url = urlref, u # urlref
      PROVE  Tried(u)'
  <2>1. docs!MayHold(current_id, ref)
    BY <1>3 DEF IInv, InHand, docs!MayHold
  <2> QED BY <1>3, <2>1, OthersKept DEF Tried
<1>4. CASE Finish
  BY <1>3, <1>4, FinishFacts
<1>5. ASSUME NEW p \in BOOLEAN, Changed(p) PROVE Tried(u)'
  <2>1. CASE u # urlref
    BY <1>3, <1>5, <2>1, ChangedFacts
  <2>2. CASE u = urlref
    <3> DEFINE ref == [current_ref EXCEPT !.state = "obsolete"]
    <3>1. PICK id : id = current_id
      OBVIOUS
    <3>2. /\ AtDocument /\ dbf' = [dbf EXCEPT ![id] = ref]
          /\ i_dbf' = [i_dbf EXCEPT ![ref.url] = id]
      BY <1>5, <3>1 DEF Changed, Retrieved, AtDocument, docs!NextDocIDAndAdd, docs!Put
    <3>3. /\ current_ref \in DocumentRefs /\ id \in docs!DocIDs /\ current_ref.url = urlref
          /\ current_ref.accessed = TRUE
      BY <3>1, <3>2 DEF IInv, InHand, IndexInv, DatesInv
    <3>4. /\ ref \in DocumentRefs /\ ref.url = current_ref.url
          /\ ref.accessed = current_ref.accessed
      <4>1. current_ref \in DocumentRefs
        BY <3>3
      <4>2. ref \in DocumentRefs /\ ref.url = current_ref.url
        BY <4>1, EditType DEF States
      <4>3. ref.accessed = current_ref.accessed
        BY <4>1, EditDates
      <4> QED BY <4>2, <4>3
    <3>5. Wrote(id, ref)
      BY <3>2, <3>3, <3>4 DEF Wrote
    <3> HIDE DEF ref
    <3>6. i_dbf'[u] = id /\ dbf'[id] = ref /\ docs!Stored(id)'
      BY <2>2, <3>3, <3>4, <3>5, WroteFacts
    <3> QED BY <3>3, <3>4, <3>6 DEF Tried, docs!Known, docs!Lookup
  <2> QED BY <2>1, <2>2
<1>6. CASE ParseUrl
  BY <1>1, <1>6 DEF ParseUrl, docVars
<1>7. ~\E m \in Modes : StartRun(m)
  BY DEF StartRun
<1> QED BY <1>1, <1>2, <1>4, <1>5, <1>6, <1>7, TableKinds

LEMMA FetchedHand ==
  ASSUME IInv, [Next]_vars
  PROVE  /\ AtDocument' => ParseUrl \/ (AtDocument /\ UNCHANGED <<urlref, fetched>>)
         /\ AtDocument => Finish \/ (AtDocument' /\ UNCHANGED urlref)
<1>1. AtDocument' => ParseUrl \/ (AtDocument /\ UNCHANGED fetched)
  BY StepKinds DEF Filling, view, Signal, Start, Round, Pick, Pop, ServerDone, SaveLog,
     CloseRun, StartRun, history, AtDocument
<1>2. ASSUME NEW p \in BOOLEAN, Changed(p) PROVE AtDocument' /\ UNCHANGED urlref
  BY <1>2 DEF Changed, Retrieved, Parse, AtDocument
<1>3. ParseUrl \/ (\E m \in Modes : StartRun(m)) => ~AtDocument
  BY DEF ParseUrl, StartRun, AtDocument
<1>4. Finish => ~AtDocument'
  BY DEF Finish, AtDocument
<1>5. \/ HandStays \/ ParseUrl \/ Finish
      \/ (\E p \in BOOLEAN : Changed(p)) \/ \E m \in Modes : StartRun(m)
  BY TableKinds DEF Linked
<1> QED BY <1>1, <1>2, <1>3, <1>4, <1>5, StartRunFacts DEF HandStays

LEMMA TriedStep == IInv /\ IndexInv /\ TriedInv /\ [Next]_vars => TriedInv'
<1> SUFFICES ASSUME IInv, IndexInv, TriedInv, [Next]_vars PROVE TriedInv'
  OBVIOUS
<1>1. pc' = "idle" => fetched' = {}
  BY FetchedKinds DEF TriedInv
<1>2. AtDocument' => urlref' \in fetched'
  BY FetchedHand, ParseUrlFacts DEF TriedInv
<1>3. ASSUME NEW u \in fetched' PROVE (AtDocument' /\ u = urlref') \/ Tried(u)'
  <2>1. CASE ParseUrl /\ u \notin fetched
    <3>1. AtDocument' /\ u = urlref'
      BY <1>3, <2>1, ParseUrlFacts DEF AtDocument
    <3> QED BY <3>1
  <2>2. CASE u \in fetched
    <3>1. u \in URLs /\ pc # "idle"
      BY <2>2 DEF IInv, TypeOK, TriedInv
    <3>2. CASE AtDocument /\ u = urlref
      <4>1. CASE Finish
        <5>1. PICK id, ref : id = current_id /\ ref = current_ref
          OBVIOUS
        <5>2. Wrote(id, ref) /\ ref.url = u /\ ref.accessed = TRUE
          BY <3>2, <4>1, <5>1, FinishFacts DEF IndexInv, DatesInv
        <5>3. i_dbf'[u] = id /\ dbf'[id] = ref /\ docs!Stored(id)'
          BY <5>2, WroteFacts
        <5> QED BY <5>2, <5>3 DEF Tried, docs!Known, docs!Lookup
      <4>2. CASE ~Finish
        BY <3>2, <4>2, FetchedHand
      <4> QED BY <4>1, <4>2
    <3>3. CASE Tried(u) /\ ~(AtDocument /\ u = urlref)
      BY <3>1, <3>3, TriedTable DEF Finish, AtDocument
    <3> QED BY <2>2, <3>2, <3>3 DEF TriedInv
  <2> QED BY <1>3, <2>1, <2>2, FetchedKinds, ParseUrlFacts
<1> QED BY <1>1, <1>2, <1>3 DEF TriedInv

(* A URL enters the index with a link or a redirect, and is then visited,   *)
(* or as the page in hand.                                                  *)
LEMMA IndexGrows ==
  ASSUME IInv, [Next]_vars, NEW u \in docs!IndexedURLs', u \notin docs!IndexedURLs
  PROVE  u \in visited' \/ (AtDocument /\ u = urlref)
<1>1. u \in URLs /\ i_dbf'[u] # i_dbf[u] /\ i_dbf'[u] # docs!NoDocID
  BY DEF docs!IndexedURLs
<1>2. CASE Linked
  <2>1. PICK v \in URLs, hop \in 0 .. MaxHops :
               /\ \E id, ref : Wrote(id, ref) /\ Target(v, hop, id, ref)
               /\ \E newDoc \in BOOLEAN : Enqueue(v, newDoc)
    BY <1>2 DEF Linked
  <2>2. PICK id, ref : Wrote(id, ref) /\ Target(v, hop, id, ref)
    BY <2>1
  <2>3. isopen
    BY <1>2, IndexTypes DEF Linked, AtDocument
  <2>4. ref.url = v
    BY <2>2, <2>3, TargetFacts
  <2>5. u = v
    BY <1>1, <2>2, <2>4, WroteFacts
  <2> QED BY <2>1, <2>5, EnqueueGrows
<1>3. CASE Finish \/ \E p \in BOOLEAN : Changed(p)
  <2>1. AtDocument /\ \E ref : Wrote(current_id, ref) /\ ref.url = urlref
    BY <1>3, FinishFacts, ChangedFacts
  <2> QED BY <1>1, <2>1, WroteFacts
<1>4. CASE ParseUrl
  BY <1>1, <1>4, ParseUrlFacts
<1> QED BY <1>1, <1>2, <1>3, <1>4, TableKinds, StartRunFacts

LEMMA ModeKinds ==
  ASSUME IInv, [Next]_vars
  PROVE  \/ CloseRun \/ \E m \in Modes : StartRun(m)
         \/ /\ UNCHANGED mode
            /\ pc = "initial" => pc' = "initial" \/ Start
            /\ pc = "idle" => pc' = "idle"
<1>1. \/ UNCHANGED mode \/ CloseRun \/ \E m \in Modes : StartRun(m)
  <2>1. CASE Answer
    BY <2>1 DEF Answer, NotChanged, NotFound, NoHost, NotParsable, Duplicate, NotModified,
       Redirect, FirstRetrieval, Changed, Retrieved, AtStatus, loopVars
  <2>2. CASE ParserCall
    BY <2>2 DEF ParserCall, GotWord, GotNoindex, GotHrefToSelf, GotHrefTooFar, GotHref,
       InDocument
  <2>3. CASE Initialize \/ Loop \/ ParseUrl \/ RetrievedDocument \/ Finish \/ SaveLog
    BY <2>3 DEF Initialize, Initial, NextSource, Start, Loop, Round, Pick, Pop, ServerDone,
       ParseUrl, RetrievedDocument, Finish, SaveLog, loopVars
  <2>4. CASE Signal \/ UNCHANGED vars \/ \E u \in URLs : PageChange(u)
    BY <2>4 DEF Signal, PageChange, vars, loopVars
  <2> QED BY <2>1, <2>2, <2>3, <2>4 DEF Next, Run
<1>2. \/ CloseRun \/ Start \/ \E m \in Modes : StartRun(m)
      \/ /\ pc = "initial" => pc' = "initial"
         /\ pc = "idle" => pc' = "idle"
  BY StepKinds DEF Filling, view, Signal, Round, Pick, Pop, ServerDone, ParseUrl, SaveLog
<1>3. Start => pc = "initial"
  BY DEF Start
<1> QED BY <1>1, <1>2, <1>3

LEMMA IndexedStep ==
  ASSUME MaxDocuments = -1, IInv, IndexInv, LimitInv, SourcesInv, TriedInv, VisitedInv',
         IndexedInv, [Next]_vars
  PROVE  IndexedInv'
<1> SUFFICES ASSUME LogIsDone', NEW u \in docs!IndexedURLs' \cap InLimits, Admitted(u)'
             PROVE  u \in accepted' \/ Tried(u)' \/ Coming(u)'
  BY DEF IndexedInv
<1>1. ~CloseRun /\ ~\E m \in Modes : StartRun(m)
  BY DEF LogIsDone, CloseRun, StartRun
<1>2. accepted \subseteq accepted' /\ u \in URLs
  BY <1>1, AcceptedKept DEF docs!IndexedURLs
<1>3. AtDocument => urlref \in accepted'
  BY <1>2 DEF TriedInv, LimitInv
<1>4. ASSUME u \in docs!IndexedURLs, Admitted(u), LogIsDone, Coming(u) => u \in accepted' \/ Coming(u)'
      PROVE  u \in accepted' \/ Tried(u)' \/ Coming(u)'
  <2>1. u \in accepted \/ Tried(u) \/ Coming(u)
    BY <1>4 DEF IndexedInv
  <2>2. CASE Tried(u) /\ ~(AtDocument /\ u = urlref)
    <3>1. pc # "idle" /\ (Finish => u # urlref)
      BY <1>4, <2>2 DEF LogIsDone, Finish, AtDocument
    <3> QED BY <1>2, <2>2, <3>1, TriedTable
  <2> QED BY <1>2, <1>3, <1>4, <2>1, <2>2
<1>5. CASE NothingPushed \/ (Linked /\ UNCHANGED <<todo, from>>)
  <2>1. bad \subseteq bad' /\ disallow \subseteq disallow' /\ UNCHANGED <<todo, from>>
    BY <1>5, EnqueueGrows DEF NothingPushed, Linked
  <2>2. Admitted(u)
    BY <2>1 DEF Admitted
  <2>3. CASE u \notin docs!IndexedURLs
    <3>1. u \in visited' => u \in accepted'
      BY <1>2 DEF VisitedInv
    <3> QED BY <1>3, <2>3, <3>1, IndexGrows
  <2>4. CASE u \in docs!IndexedURLs
    <3>0. UNCHANGED mode /\ (pc = "initial" => pc' = "initial" \/ Start) /\ (pc = "idle" => pc' = "idle")
      BY <1>1, ModeKinds
    <3>1. LogIsDone /\ (pc = "initial" => pc' = "initial" \/ Start)
      BY <2>1, <3>0 DEF LogIsDone, Start, FromStart, FromLog
    <3>2. Coming(u) => Coming(u)'
      BY <2>1, <3>1 DEF Coming, Start
    <3> QED BY <1>4, <2>2, <2>4, <3>1, <3>2
  <2> QED BY <2>3, <2>4
<1>6. ASSUME NEW url \in WrittenURLs, Initial(url)
      PROVE  u \in accepted' \/ Tried(u)' \/ Coming(u)'
  <2>1. /\ url \in todo /\ todo' = todo \ {url} /\ pc = "initial" /\ pc' = "initial"
        /\ UNCHANGED <<from, mode, i_dbf, dbf, fetched>>
        /\ bad \subseteq bad' /\ disallow \subseteq disallow'
        /\ \/ Normal[url] \in accepted'
           \/ srv!Refuses(Normal[url], TRUE)
           \/ from = FromDocsAfterLog
           \/ from # FromDocsFirst
           \/ url \notin InLimits \/ Normal[url] \in disallow'
    BY <1>6, InitialGrows
  <2>2. Normal[u] = u
    BY <1>2, RetrieverAssumption
  <2>3. u \in docs!IndexedURLs /\ Admitted(u) /\ LogIsDone
    BY <2>1 DEF docs!IndexedURLs, Admitted, LogIsDone
  <2>4. ASSUME u = url, Coming(u) PROVE u \in accepted'
    <3>1. ~srv!Refuses(u, TRUE) /\ u \notin disallow'
      BY RefusedOut DEF Admitted
    <3> QED BY <2>1, <2>2, <2>4, <3>1 DEF SourcesInv, Coming
  <2>5. Coming(u) => u \in accepted' \/ Coming(u)'
    BY <2>1, <2>4 DEF Coming
  <2> QED BY <1>4, <2>3, <2>5
<1>7. CASE NextSource
  <2>1. UNCHANGED <<i_dbf, dbf, bad, disallow, pc, mode>> /\ pc = "initial" /\ todo = {}
    BY <1>7 DEF NextSource, docVars, serverVars
  <2>2. u \in docs!IndexedURLs /\ Admitted(u)
    BY <2>1 DEF docs!IndexedURLs, Admitted
  <2>3. CASE from # FromLog
    BY <1>4, <2>1, <2>2, <2>3 DEF LogIsDone, Coming
  <2>4. CASE from = FromLog /\ mode # "minimal"
    <3>1. /\ todo' = docs!IndexedURLs
          /\ from' = IF visited = {} THEN FromDocsFirst ELSE FromDocsAfterLog
      <4>1. ~(from = FromLog /\ mode = "minimal") /\ from \notin {FromDocsFirst, FromDocsAfterLog}
        BY <2>4 DEF FromLog, FromDocsFirst, FromDocsAfterLog
      <4> QED BY <1>7, <2>4, <4>1 DEF NextSource
    <3> QED BY <2>1, <2>2, <2>4, <3>1 DEF Coming, SourcesInv
  <2>5. CASE from = FromLog /\ mode = "minimal"
    BY <2>1, <2>5 DEF LogIsDone
  <2> QED BY <2>3, <2>4, <2>5
<1> QED BY <1>1, <1>5, <1>6, <1>7, PushKinds

(* A dig that takes up no log and that no limit of documents cuts short has *)
(* tried every document the index knows within the limits: those known      *)
(* before, which come from the database first, and those that links and     *)
(* redirects made, which are visited only with a queue taking them, unless  *)
(* the server is bad or its rules forbid them.                              *)
THEOREM KnownAreTried ==
  ~Signals /\ MaxDocuments = -1 /\ Spec => []EverythingRetrieved
<1> SUFFICES ASSUME ~Signals, MaxDocuments = -1 PROVE Spec => []EverythingRetrieved
  OBVIOUS
<1> DEFINE I == SourcesInv /\ VisitedInv /\ TriedInv /\ IndexedInv /\ LimitInv
<1>1. Init => I
  <2> SUFFICES ASSUME Init PROVE I
    OBVIOUS
  <2>1. /\ pc = "idle" /\ visited = {} /\ fetched = {} /\ noSignal /\ url_log = {}
        /\ from = FromLog
    BY DEF Init
  <2>2. LimitInv
    BY LimitInit
  <2> QED BY <2>1, <2>2 DEF SourcesInv, VisitedInv, TriedInv, IndexedInv, LogIsDone,
      AtDocument, FromLog, FromDocsAfterLog
<1>2. IInv /\ IndexInv /\ I /\ [Next]_vars => I'
  <2> SUFFICES ASSUME IInv, IndexInv, I, [Next]_vars PROVE I'
    OBVIOUS
  <2>1. SourcesInv' /\ VisitedInv' /\ TriedInv' /\ LimitInv'
    BY SourcesStep, VisitedStep, TriedStep, LimitStep
  <2> QED BY <2>1, IndexedStep
<1>3. QueueInv /\ I => EverythingRetrieved
  <2> SUFFICES ASSUME QueueInv, I, pc = "close", noSignal, mode # "minimal",
                      NEW u \in (docs!IndexedURLs \cap InLimits) \ disallow,
                      ServerOf[u] \notin bad \/ u \in LocalURLs
               PROVE  docs!Lookup(u).accessed
    BY DEF EverythingRetrieved
  <2>1. u \in accepted \/ Tried(u)
    BY DEF IndexedInv, LogIsDone, Admitted, Coming
  <2>2. accepted \subseteq fetched
    BY DEF QueueInv, KeptInv, RoundInv, Kept, MayHaveDropped
  <2> QED BY <2>1, <2>2 DEF TriedInv, AtDocument, Tried
<1> QED BY <1>1, <1>2, <1>3, IndexInvariance, QueueInvariance, PTL DEF Spec

-----------------------------------------------------------------------------
(* Honest hop counts. *)

(* The least relation that follows the links does follow them itself. *)
LEMMA HopCountsFollow == FollowsLinks(HopCounts)
<1>1. ASSUME NEW u \in Named PROVE <<u, 0>> \in HopCounts
  <2>1. u \in URLs /\ 0 \in 0 .. MaxHops
    BY RetrieverAssumption DEF Named, WrittenURLs
  <2>2. \A counts \in Candidates : <<u, 0>> \in counts
    BY DEF Candidates, FollowsLinks
  <2> QED BY <2>1, <2>2 DEF HopCounts
<1>2. ASSUME NEW v \in URLs, NEW n \in 0 .. MaxHops, <<v, n>> \in HopCounts,
             NEW u \in Links[v], NEW hops \in LinkHops, n + hops <= MaxHops
      PROVE  <<u, n + hops>> \in HopCounts
  <2>1. u \in URLs /\ n + hops \in 0 .. MaxHops
    BY <1>2, RetrieverAssumption
  <2>2. \A counts \in Candidates : <<u, n + hops>> \in counts
    BY <1>2 DEF Candidates, FollowsLinks, HopCounts
  <2> QED BY <2>1, <2>2 DEF HopCounts
<1>3. ASSUME NEW v \in URLs, NEW n \in 0 .. MaxHops, <<v, n>> \in HopCounts,
             NEW u \in Redirects[v]
      PROVE  <<u, n>> \in HopCounts
  <2>1. u \in URLs
    BY <1>3, RetrieverAssumption
  <2>2. \A counts \in Candidates : <<u, n>> \in counts
    BY <1>3 DEF Candidates, FollowsLinks, HopCounts
  <2> QED BY <2>1, <2>2 DEF HopCounts
<1> QED BY <1>1, <1>2, <1>3 DEF FollowsLinks

(* A URL whose document parse_url would make anew, with the hop count 0, is *)
(* one that the configuration names.                                        *)
Provided(u) == docs!Known(u) \/ u \in Named

Pending == InQueue \cup url_log \cup (IF pc = "parse_url" THEN {urlref} ELSE {})

RealInv ==
  /\ HopsReal
  /\ AtDocument => <<urlref, current_ref.hop>> \in HopCounts
  /\ \A u \in Pending : Provided(u)
  /\ \A r \in todo : Provided(Normal[r])
  /\ pc = "idle" => InQueue = {}

LEMMA KnownKept ==
  ASSUME IInv, [Next]_vars, NEW u \in URLs, docs!Known(u)
  PROVE  docs!Known(u)' \/ \E m \in Modes : StartRun(m)
<1>1. ASSUME NEW id, NEW ref, Wrote(id, ref), docs!MayHold(id, ref) PROVE docs!Known(u)'
  <2>1. CASE u = ref.url
    BY <1>1, <2>1, WroteFacts DEF docs!Known, docs!Stored
  <2>2. CASE u # ref.url
    BY <1>1, <2>2, OthersKept
  <2> QED BY <2>1, <2>2
<1>2. CASE UNCHANGED <<dbf, i_dbf>>
  BY <1>2 DEF docs!Known, docs!Stored
<1>3. CASE Linked
  <2>1. PICK v \in URLs, hop \in 0 .. MaxHops :
               \E id, ref : Wrote(id, ref) /\ Target(v, hop, id, ref)
    BY <1>3 DEF Linked
  <2>2. PICK id, ref : Wrote(id, ref) /\ Target(v, hop, id, ref)
    BY <2>1
  <2>3. isopen
    BY <1>3, IndexTypes DEF Linked, AtDocument
  <2>4. docs!MayHold(id, ref)
    BY <2>2, <2>3, TargetFacts DEF Wrote
  <2> QED BY <1>1, <2>2, <2>4
<1>4. CASE Finish \/ \E p \in BOOLEAN : Changed(p)
  <2>1. PICK id : id = current_id
    OBVIOUS
  <2>2. PICK ref : Wrote(id, ref) /\ ref.url = urlref /\ AtDocument
    BY <1>4, <2>1, FinishFacts, ChangedFacts
  <2>3. docs!MayHold(id, ref)
    BY <2>1, <2>2 DEF IInv, InHand, docs!MayHold
  <2> QED BY <1>1, <2>2, <2>3
<1> QED BY <1>2, <1>3, <1>4, TableKinds, ParseUrlFacts

LEMMA RealHops ==
  ASSUME IInv, RealInv, [Next]_vars
  PROVE  HopsReal' /\ (AtDocument => <<urlref, current_ref.hop>> \in HopCounts)'
<1> DEFINE Real == /\ \A u \in URLs : docs!Known(u)' => <<u, docs!Lookup(u)'.hop>> \in HopCounts
                   /\ AtDocument' => <<urlref', current_ref'.hop>> \in HopCounts
<1>0. SUFFICES Real
  BY DEF HopsReal, HopCounts
<1>1. ASSUME NEW id, NEW ref, Wrote(id, ref), docs!MayHold(id, ref),
             <<ref.url, ref.hop>> \in HopCounts
      PROVE  \A u \in URLs : docs!Known(u)' => <<u, docs!Lookup(u)'.hop>> \in HopCounts
  <2> SUFFICES ASSUME NEW u \in URLs, docs!Known(u)'
               PROVE  <<u, docs!Lookup(u)'.hop>> \in HopCounts
    OBVIOUS
  <2>1. CASE u = ref.url
    BY <1>1, <2>1, WroteFacts DEF docs!Lookup
  <2>2. CASE u # ref.url
    BY <1>1, <2>2, OthersKept DEF RealInv, HopsReal
  <2> QED BY <2>1, <2>2
<1>2. CASE UNCHANGED <<dbf, i_dbf>> /\ HandStays
  BY <1>2 DEF HandStays, RealInv, HopsReal, docs!Known, docs!Lookup, docs!Stored
<1>3. CASE Linked
  <2>1. PICK v \in URLs, hop \in 0 .. MaxHops :
               Leads(v, hop) /\ \E id, ref : Wrote(id, ref) /\ Target(v, hop, id, ref)
    BY <1>3 DEF Linked
  <2>2. PICK id, ref : Wrote(id, ref) /\ Target(v, hop, id, ref)
    BY <2>1
  <2>3. isopen /\ AtDocument /\ urlref \in URLs /\ current_ref \in DocumentRefs /\ HandStays
    BY <1>3, IndexTypes DEF Linked, AtDocument
  <2>4. current_ref.hop \in 0 .. MaxHops
    BY <2>3, HopType
  <2>5. <<v, hop>> \in HopCounts
    <3>1. <<urlref, current_ref.hop>> \in HopCounts
      BY <2>3 DEF RealInv
    <3> QED BY <2>1, <2>3, <2>4, <3>1, HopCountsFollow DEF FollowsLinks, Leads
  <2>6. /\ ref.url = v /\ docs!MayHold(id, ref)
        /\ ref.hop = hop \/ (docs!Known(v) /\ ref.hop = docs!Lookup(v).hop)
    BY <2>2, <2>3, TargetFacts DEF Wrote, docs!Lookup
  <2>7. <<ref.url, ref.hop>> \in HopCounts
    BY <2>5, <2>6 DEF RealInv, HopsReal
  <2> QED BY <1>1, <2>2, <2>3, <2>6, <2>7 DEF HandStays, RealInv
<1>4. CASE ParseUrl
  <2>1. Provided(urlref) /\ urlref \in URLs
    BY <1>4, ParseUrlFacts DEF ParseUrl, RealInv, Pending
  <2>2. docs!Known(urlref) => <<urlref, docs!Lookup(urlref).hop>> \in HopCounts
    BY <2>1 DEF RealInv, HopsReal
  <2>3. ~docs!Known(urlref) => <<urlref, 0>> \in HopCounts
    BY <2>1, HopCountsFollow DEF Provided, FollowsLinks
  <2>4. AtDocument' => <<urlref', current_ref'.hop>> \in HopCounts
    BY <1>4, <2>2, <2>3, ParseUrlFacts
  <2>5. UNCHANGED <<dbf, i_dbf>>
    BY <1>4, ParseUrlFacts
  <2> QED BY <2>4, <2>5 DEF RealInv, HopsReal, docs!Known, docs!Lookup, docs!Stored
<1>5. CASE Finish \/ \E p \in BOOLEAN : Changed(p)
  <2>1. PICK id : id = current_id
    OBVIOUS
  <2>2. PICK ref : Wrote(id, ref) /\ ref.url = urlref /\ AtDocument /\ ref.hop = current_ref.hop
    BY <1>5, <2>1, FinishFacts, ChangedFacts
  <2>3. docs!MayHold(id, ref)
    BY <2>1, <2>2 DEF IInv, InHand, docs!MayHold
  <2>4. <<ref.url, ref.hop>> \in HopCounts
    BY <2>2 DEF RealInv
  <2>5. AtDocument' => UNCHANGED urlref /\ current_ref'.hop = current_ref.hop
    BY <1>5, FinishFacts, ChangedFacts
  <2> QED BY <1>1, <2>2, <2>3, <2>4, <2>5
<1>6. ASSUME NEW m \in Modes, StartRun(m) PROVE Real
  <2>1. ~AtDocument'
    BY <1>6, StartRunFacts
  <2>2. CASE UNCHANGED <<dbf, i_dbf>>
    BY <2>1, <2>2 DEF RealInv, HopsReal, docs!Known, docs!Lookup, docs!Stored
  <2>3. CASE \A id : ~docs!Stored(id)'
    BY <2>1, <2>3 DEF docs!Known, docs!Stored
  <2> QED BY <1>6, <2>2, <2>3, StartRunFacts
<1> QED BY <1>2, <1>3, <1>4, <1>5, <1>6, TableKinds

(* What is pending afterwards was so before or is pushed. *)
LEMMA PendingKinds ==
  ASSUME IInv, [Next]_vars
  PROVE  Pending' \subseteq Pending \cup InQueue' \/ \E m \in Modes : StartRun(m)
<1>1. CASE Filling \/ UNCHANGED view
  BY <1>1 DEF Filling, view, Pending
<1>2. CASE Signal \/ Start \/ Round \/ Pick \/ ServerDone \/ ParseUrl \/ CloseRun
  BY <1>2 DEF Signal, Start, Round, Pick, ServerDone, ParseUrl, CloseRun, diskVars, refVars,
     Pending
<1>3. CASE Pop
  BY <1>3, PopFacts DEF Pending
<1>4. CASE SaveLog
  BY <1>4 DEF SaveLog, Pending, InQueue
<1> QED BY <1>1, <1>2, <1>3, <1>4, StepKinds

LEMMA RealStep == IInv /\ RealInv /\ [Next]_vars => RealInv'
<1> SUFFICES ASSUME IInv, RealInv, [Next]_vars PROVE RealInv'
  OBVIOUS
<1>0. Pending \subseteq URLs /\ \A r \in todo : Normal[r] \in URLs
  BY RetrieverAssumption DEF IInv, TypeOK, InHand, Pending, InQueue
<1>1. ASSUME NEW m \in Modes, StartRun(m)
      PROVE  (\A u \in Pending' : Provided(u)') /\ (\A r \in todo' : Provided(Normal[r])')
  <2>1. pc' # "parse_url" /\ url_log' = {} /\ InQueue' = {}
    BY <1>1 DEF StartRun, serverVars, RealInv, InQueue
  <2>2. todo' = {} \/ (todo' = url_log /\ UNCHANGED <<dbf, i_dbf>>)
    BY <1>1 DEF StartRun, docs!Open, docs!tables
  <2>3. \A u \in url_log : Normal[u] = u /\ Provided(u)
    BY <1>0, RetrieverAssumption DEF Pending, RealInv
  <2> QED BY <2>1, <2>2, <2>3 DEF Pending, Provided, docs!Known, docs!Stored
<1>2. ASSUME NEW u \in URLs, Provided(u), ~\E m \in Modes : StartRun(m) PROVE Provided(u)'
  BY <1>2, KnownKept DEF Provided
<1>3. ASSUME ~(\E m \in Modes : StartRun(m)), \A u \in InQueue' \ InQueue : Provided(u)'
      PROVE  \A u \in Pending' : Provided(u)'
  <2>1. Pending' \subseteq Pending \cup InQueue' /\ InQueue \subseteq Pending
    BY <1>3, PendingKinds DEF Pending
  <2> QED BY <1>0, <1>2, <1>3, <2>1 DEF RealInv
<1>4. ASSUME ~(\E m \in Modes : StartRun(m)), todo' \subseteq todo
      PROVE  \A r \in todo' : Provided(Normal[r])'
  <2> SUFFICES ASSUME NEW r \in todo' PROVE Provided(Normal[r])'
    OBVIOUS
  <2>1. PICK u \in URLs : u = Normal[r] /\ Provided(u)
    BY <1>0, <1>4 DEF RealInv
  <2> QED BY <1>2, <1>4, <2>1 DEF Provided
<1>5. ASSUME NothingPushed
      PROVE  (\A u \in Pending' : Provided(u)') /\ (\A r \in todo' : Provided(Normal[r])')
  BY <1>1, <1>3, <1>4, <1>5 DEF NothingPushed
<1>6. ASSUME Linked, UNCHANGED <<todo, from>>
      PROVE  (\A u \in Pending' : Provided(u)') /\ (\A r \in todo' : Provided(Normal[r])')
  <2>1. PICK v \in URLs, hop \in 0 .. MaxHops :
               /\ \E id, ref : Wrote(id, ref) /\ Target(v, hop, id, ref)
               /\ \E newDoc \in BOOLEAN : Enqueue(v, newDoc)
    BY <1>6 DEF Linked
  <2>2. PICK id, ref : Wrote(id, ref) /\ Target(v, hop, id, ref)
    BY <2>1
  <2>3. isopen
    BY <1>6, IndexTypes DEF Linked, AtDocument
  <2>4. docs!Known(v)'
    <3>1. ref.url = v
      BY <2>2, <2>3, TargetFacts
    <3>2. i_dbf'[ref.url] = id /\ docs!Stored(id)'
      BY <2>2, WroteFacts
    <3> QED BY <3>1, <3>2 DEF docs!Known
  <2>5. InQueue' \subseteq InQueue \cup {v}
    BY <2>1, EnqueueGrows
  <2>6. \A u \in InQueue' \ InQueue : Provided(u)'
    BY <2>4, <2>5 DEF Provided
  <2> QED BY <1>1, <1>3, <1>4, <1>6, <2>6
<1>7. ASSUME NEW url \in WrittenURLs, Initial(url)
      PROVE  (\A u \in Pending' : Provided(u)') /\ (\A r \in todo' : Provided(Normal[r])')
  <2>1. /\ url \in todo /\ todo' \subseteq todo
        /\ InQueue' \subseteq InQueue \cup {Normal[url]} /\ ~\E m \in Modes : StartRun(m)
    BY <1>7, InitialGrows DEF StartRun
  <2>2. PICK u \in URLs : u = Normal[url] /\ Provided(u)
    BY <1>0, <2>1 DEF RealInv
  <2>3. Provided(u)'
    BY <1>2, <2>1, <2>2
  <2> QED BY <1>3, <1>4, <2>1, <2>2, <2>3
<1>8. ASSUME NextSource
      PROVE  (\A u \in Pending' : Provided(u)') /\ (\A r \in todo' : Provided(Normal[r])')
  <2>1. /\ UNCHANGED <<queued, dbf, i_dbf, url_log, pc, urlref>>
        /\ todo' \in {MinimalURLs, docs!IndexedURLs, StartURLs}
    BY <1>8 DEF NextSource, serverVars, docVars, diskVars, refVars
  <2>2. Pending' = Pending /\ \A u : Provided(u)' <=> Provided(u)
    BY <2>1 DEF Pending, InQueue, Provided, docs!Known, docs!Stored
  <2>3. \A r \in MinimalURLs \cup StartURLs : Normal[r] \in Named
    BY RetrieverAssumption DEF Named
  <2>4. ASSUME NEW u \in docs!IndexedURLs PROVE Normal[u] = u /\ docs!Known(u)
    <3>1. u \in URLs /\ i_dbf[u] \in docs!DocIDs
      BY DEF docs!IndexedURLs, IInv, DocsInv, docs!TypeOK
    <3> QED BY <3>1, Indexed, RetrieverAssumption
  <2>5. \A r \in todo' : Provided(Normal[r])
    BY <2>1, <2>3, <2>4 DEF Provided
  <2> QED BY <2>2, <2>5 DEF RealInv
<1>9. ASSUME CloseRun
      PROVE  (\A u \in Pending' : Provided(u)') /\ (\A r \in todo' : Provided(Normal[r])')
  <2>1. todo' = todo /\ InQueue' = {} /\ ~\E m \in Modes : StartRun(m)
    BY <1>9 DEF CloseRun, srv!Reset, StartRun, InQueue
  <2> QED BY <1>3, <1>4, <2>1
<1>10. (\A u \in Pending' : Provided(u)') /\ (\A r \in todo' : Provided(Normal[r])')
  BY <1>1, <1>5, <1>6, <1>7, <1>8, <1>9, PushKinds
<1>11. pc' = "idle" => InQueue' = {}
  <2>1. CloseRun => InQueue' = {}
    BY DEF CloseRun, srv!Reset, InQueue
  <2>2. UNCHANGED view => UNCHANGED pc /\ InQueue' = InQueue
    BY DEF view, InQueue
  <2> QED BY <2>1, <2>2, PlaceKinds DEF RealInv
<1> QED BY <1>10, <1>11, RealHops DEF RealInv

(* The hop count in a record is what some path of links and redirects from  *)
(* a URL the configuration names costs, over any number of digs, with or    *)
(* without -m, interrupted or not: the count of a page that was found again *)
(* is never that of the page it was found from, and a URL that comes from   *)
(* the log of an interrupted dig and has no record is one the               *)
(* configuration names, so that the count 0 it then gets is right.          *)
THEOREM HopsAreReal == Spec => []HopsReal
<1>1. Init => RealInv
  <2> SUFFICES ASSUME Init PROVE RealInv
    OBVIOUS
  <2>1. /\ pc = "idle" /\ todo = {} /\ url_log = {} /\ InQueue = {}
        /\ \A id : ~docs!Stored(id)
    BY DEF Init, srv!Init, InQueue, docs!Init, docs!NoTables, docs!Stored
  <2> QED BY <2>1 DEF RealInv, HopsReal, Pending, AtDocument, docs!Known
<1>2. IInv /\ RealInv /\ [Next]_vars => RealInv'
  BY RealStep
<1>3. RealInv => HopsReal
  BY DEF RealInv
<1> QED BY <1>1, <1>2, <1>3, Invariance, PTL DEF Spec
=============================================================================
