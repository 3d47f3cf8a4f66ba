------------------------------- MODULE Document -------------------------------
(****************************************************************************)
(* Document::Retrieve (hldig/Document.cc) over HtHTTP: the request is made  *)
(* until it gives something better than a lost connection, at most          *)
(* max_retries times, and the connection is kept for the next URL.          *)
(****************************************************************************)
EXTENDS HtHTTP

CONSTANT num_retries      \* max_retries

VARIABLE NumRetries

DocumentAssumption == num_retries \in Nat \ {0}
ASSUME DocumentAssumption

(* The URLs asked for over one connection have one setting: where no proxy  *)
(* stands between, persistent_connections belongs to the server.            *)
OneSetting ==
  \A u, v \in URLs : HostOf[u] = HostOf[v] => (u \in Persistent <=> v \in Persistent)
ASSUME OneSetting

vars == <<connection, url, pc, stage, answer, contents, result, faults, NumRetries>>

Init ==
  /\ host = NoHost /\ up = FALSE /\ stream = <<>> /\ arrived = 0
  /\ url = NoURL /\ pc = "idle" /\ stage = "get"
  /\ answer = NoAnswer /\ contents = <<>> /\ result = "none"
  /\ faults = 0 /\ NumRetries = 0

FirstStage(u) == IF u \in HeadBeforeGet THEN "head" ELSE "get"

(* A close the peer made meanwhile is a fault this retrieval has to meet.   *)
Retrieve(u) ==
  /\ pc = "idle" /\ pc' = "request"
  /\ url' = u /\ stage' = FirstStage(u)
  /\ SetConnection(HostOf[u])
  /\ NumRetries' = 0
  /\ faults' = IF host = HostOf[u] /\ PeerClosed THEN 1 ELSE 0
  /\ UNCHANGED <<answer, contents, result>>

(* Mutant: a lost connection is not worth another request. *)
ShouldWeRetryUnlessDown(status) == status \in {"no_connection", "no_header"}

ShouldWeRetry(status) == status \in {"connection_down", "no_connection", "no_header"}

WillRetry == ShouldWeRetry(result) /\ NumRetries + 1 < num_retries

(* Mutant: the number of requests is not counted. *)
RetryUncounted ==
  /\ RequestDone /\ WillRetry
  /\ pc' = "request" /\ stage' = FirstStage(url)
  /\ UNCHANGED <<connection, url, answer, contents, result, faults, NumRetries>>

Retry ==
  /\ RequestDone /\ WillRetry
  /\ NumRetries' = NumRetries + 1
  /\ pc' = "request" /\ stage' = FirstStage(url)
  /\ UNCHANGED <<connection, url, answer, contents, result, faults>>

Return ==
  /\ RequestDone /\ ~WillRetry
  /\ pc' = "idle"
  /\ UNCHANGED <<connection, url, stage, answer, contents, result, faults, NumRetries>>

Step == Retry \/ Return \/ (Request /\ UNCHANGED NumRetries)

Next ==
  \/ Step
  \/ Network /\ UNCHANGED NumRetries
  \/ PeerFails /\ UNCHANGED NumRetries
  \/ \E u \in URLs : Retrieve(u)

(* The code runs, and the network brings what was sent; a time-out ends     *)
(* each wait for what was not.                                              *)
Fairness == WF_vars(Step) /\ WF_vars(Network /\ UNCHANGED NumRetries)

Spec == Init /\ [][Next]_vars /\ Fairness

(* Properties *)

(* What comes back for a URL is an answer of its server to a request for    *)
(* that URL, or a failure: nothing of another response that the connection  *)
(* still held, late or half read, is taken for it.  Neither is it in the    *)
(* text that a failure in the middle of a body leaves behind.               *)
promise == INSTANCE Retrieval WITH
  asked    <- IF pc = "idle" THEN NoURL ELSE url,
  status   <- IF pc # "idle" THEN "pending" ELSE result,
  contents <- IF pc # "idle" THEN <<>> ELSE contents
AnswersAreOwn == promise!Spec

(* Retries do what they are for: a document is only given up when as many   *)
(* faults happened as it may be asked for.  (A 2xx response without a body  *)
(* whose connection stays open is one the code waits for until it times     *)
(* out, every time.)                                                        *)
WaitedForInVain(a) ==
  DocumentStatus(a) = "ok" /\ a.framing = "none" /\ ~a.close
FaultsTolerated ==
  pc = "idle" /\ result \in {"connection_down", "no_connection", "no_header"}
  /\ ~(\E a \in Answers[url] : WaitedForInVain(a))
    => faults >= num_retries

(* What an earlier response left on the connection never costs a document:  *)
(* the header is found, at the latest on a new connection.                  *)
HeaderFound == pc = "idle" => result # "no_header"

(* Every retrieval comes to an end. *)
RetrievalEnds == pc # "idle" ~> pc = "idle"
==============================================================================
