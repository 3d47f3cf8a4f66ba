-------------------------------- MODULE HtHTTP --------------------------------
(****************************************************************************)
(* hlnet/HtHTTP.cc: Request () makes one to three HTTP requests for a URL:  *)
(* HEAD, when the server is asked so before GET; GET; and GET again on a    *)
(* new connection when no status line was found.  Each of them is           *)
(* HTTPRequest (): write the command, parse the header, read the body,      *)
(* decide whether the connection stays.                                     *)
(*                                                                          *)
(*   request -> header -> body -> answered                                  *)
(*      |         +-------------->   ^                                      *)
(*      +----------------------------+                                      *)
(****************************************************************************)
EXTENDS Connection

CONSTANTS
  URLs, Answers,
  HostOf,             \* whom a URL is asked of: its server, or the proxy
  MaxDocumentSize,
  HeadBeforeGet,      \* the URLs whose servers have head_before_get
  Persistent,         \* the URLs whose servers have persistent_connections
  MaxFaults           \* bound: what goes wrong in one retrieval

VARIABLES
  url,        \* _url
  pc,
  stage,      \* which request of Request () it is: "head", "get" or "again"
  answer,     \* _response, as far as its header goes
  contents,   \* _response._contents
  result,     \* what HTTPRequest () or Request () returned
  faults      \* how often the network or the server failed it

connection == <<host, up, stream, arrived>>

Answer == [code : 200 .. 599, parsable : BOOLEAN, close : BOOLEAN,
           framing : {"length", "chunked", "until_close", "none"},
           lines : Seq({"text", "blank", "tail"})]

(* Servers keep to HTTP: the end of a body can be found, a body without     *)
(* length ends with the connection, the lines of chunks have an end, and    *)
(* only the last piece of a body has none.                                  *)
HTTPAssumption ==
  /\ HostOf \in [URLs -> Hosts]
  /\ NoHost \notin Hosts /\ NoURL \notin URLs
  /\ MaxDocumentSize \in Nat \ {0}
  /\ MaxFaults \in Nat
  /\ \A u \in URLs : \A a \in Answers[u] :
       /\ a \in Answer
       /\ a.framing = "until_close" => a.close
       /\ a.framing = "none" => a.lines = <<>>
       /\ \A i \in DOMAIN a.lines :
            a.lines[i] = "tail" => i = Len(a.lines) /\ a.framing # "chunked"
ASSUME HTTPAssumption

(* GetDocumentStatus *)
DocumentStatus(a) ==
  CASE a.code = 200 -> IF a.parsable THEN "ok" ELSE "not_parsable"
    [] a.code \in 201 .. 299 -> "ok"
    [] a.code = 304 -> "not_changed"
    [] a.code \in (301 .. 399) \ {304} -> "redirect"
    [] a.code = 401 -> "not_authorized"
    [] OTHER -> "not_found"

Allowed == url \in Persistent       \* isPersistentConnectionAllowed
method == IF stage = "head" THEN "HEAD" ELSE "GET"

(* What a server sends for the request in hand.  The last chunk is followed *)
(* by an empty line.                                                        *)
Body(a) == IF method = "HEAD" THEN <<>>
           ELSE IF a.framing = "chunked" THEN Append(a.lines, "blank") ELSE a.lines
Response(a) ==
  LET Piece(line) == [line |-> line, url |-> url, answer |-> a]
  IN <<Piece("head")>> \o [i \in DOMAIN Body(a) |-> Piece(Body(a)[i])]
       \o (IF a.close THEN <<EOF>> ELSE <<>>)

Failed == faults < MaxFaults /\ faults' = faults + 1

(* HTTPRequest returns with a failure; what it read of the body stays. *)
Lost(status, text) ==
  /\ pc' = "answered" /\ result' = status
  /\ contents' = text
  /\ UNCHANGED <<url, stage>>

(* Up to the command: the response is reset, the connection flushed and     *)
(* opened if need be.                                                       *)
SendCommand ==
  /\ pc = "request" /\ pc' = "header"
  /\ \E a \in Answers[url] : Write(Response(a))
  /\ answer' = NoAnswer /\ contents' = <<>>
  /\ UNCHANGED <<url, stage, result, faults>>

CannotConnect ==
  /\ pc = "request" /\ ~up
  /\ Failed
  /\ \E status \in {"no_connection", "no_host", "no_port"} : Lost(status, <<>>)
  /\ answer' = NoAnswer
  /\ UNCHANGED connection

(* Whether the connection outlives a response whose body gave text.  It is  *)
(* closed if the body was cut at its maximal size, but not for chunks, all  *)
(* of which are read.                                                       *)
StaysUp(a, text) ==
  LET wholeLength == a.framing = "length" /\ Len(text) = Len(a.lines)
      cut == Len(text) = MaxDocumentSize /\ ~wholeLength /\ a.framing # "chunked"
  IN Allowed /\ ~a.close /\ ~cut

(* The end of HTTPRequest, n pieces read since its last call of Read.       *)
Finish(a, text, n) ==
  LET status == DocumentStatus(a)
  IN /\ pc' = "answered" /\ result' = status
     /\ contents' = text
     /\ IF StaysUp(a, text) /\ ~(status = "not_parsable" /\ method = "GET")
        THEN Read(n) ELSE Close
     /\ UNCHANGED <<host, url, stage, faults>>

(* ParseHeader reads lines until an empty one.  A status line among them is *)
(* the header's, but not where it follows the tail of an older body.        *)
EndsHeader(n) == n \in 1 .. arrived /\ Plain(n - 1) /\ stream[n].line \in {"head", "blank"}
StatusLineAt(n) ==
  stream[n].line = "head" /\ ~(n > 1 /\ stream[n - 1].line = "tail")

ParseHeader ==
  /\ pc = "header"
  /\ \E n \in 1 .. arrived :
       /\ EndsHeader(n) /\ StatusLineAt(n)
       /\ LET a == stream[n].answer
          IN /\ answer' = a
             /\ IF DocumentStatus(a) = "ok" /\ method = "GET"
                THEN /\ pc' = "body"
                     /\ Read(n)
                     /\ UNCHANGED <<host, url, stage, contents, result, faults>>
                ELSE Finish(a, <<>>, n)

(* No status line: HTTPRequest returns at once. *)
NoHeader ==
  /\ pc = "header"
  /\ \E n \in 1 .. arrived :
       EndsHeader(n) /\ ~StatusLineAt(n) /\ Read(n)
  /\ Lost("no_header", <<>>)
  /\ UNCHANGED <<host, answer, faults>>

(* Mutant: a connection that timed out is not closed. *)
TimedOutStaysUp ==
  /\ pc = "header"
  /\ \/ \E n \in 1 .. arrived : Plain(n - 1) /\ stream[n].line = "eof" /\ UNCHANGED faults
     \/ Plain(arrived) /\ Failed
  /\ Lost("connection_down", <<>>)
  /\ KeepOpen /\ UNCHANGED <<host, answer>>

(* The connection ended or timed out before the header did. *)
HeaderDown ==
  /\ pc = "header"
  /\ \/ \E n \in 1 .. arrived : Plain(n - 1) /\ stream[n].line = "eof" /\ UNCHANGED faults
     \/ Plain(arrived) /\ Failed
  /\ Lost("connection_down", <<>>)
  /\ Close /\ UNCHANGED <<host, answer>>

(* ReadBody and ReadChunkedBody. *)
BytesToGo == IF answer.framing = "length" /\ Len(answer.lines) <= MaxDocumentSize
             THEN Len(answer.lines) ELSE MaxDocumentSize

BodyAt(n) == ~\E i \in 1 .. n : stream[i].line = "eof"

TextRead(n) == [i \in 1 .. n |-> [url |-> stream[i].url, line |-> stream[i].line]]

(* All that was wanted is there, or the peer closed: the text may be short. *)
ReadBody ==
  /\ pc = "body" /\ answer.framing # "chunked"
  /\ \E n \in 0 .. arrived :
       /\ BodyAt(n)
       /\ \/ n = BytesToGo
          \/ n < BytesToGo /\ n < arrived /\ stream[n + 1].line = "eof"
       /\ Finish(answer, TextRead(n), n)
  /\ UNCHANGED answer

(* All chunks are read, whatever their size, and the empty line after the   *)
(* last is not.                                                             *)
ReadChunkedBody ==
  /\ pc = "body" /\ answer.framing = "chunked"
  /\ LET n == Len(answer.lines)
         kept == IF n <= MaxDocumentSize THEN n ELSE MaxDocumentSize
     IN n <= arrived /\ BodyAt(n) /\ Finish(answer, TextRead(kept), n)
  /\ UNCHANGED answer

(* Read timed out: what it had read by then is dropped, what earlier calls  *)
(* appended is not.  A response without a body whose length is not told     *)
(* always times out.                                                        *)
BodyTimedOut ==
  LET wanted == IF answer.framing = "chunked" THEN Len(answer.lines) + 1 ELSE BytesToGo
  IN /\ pc = "body" /\ arrived < wanted /\ BodyAt(arrived)
     /\ IF arrived < Len(stream) THEN Failed ELSE UNCHANGED faults
     /\ \E kept \in 0 .. arrived :
          kept <= MaxDocumentSize /\ Lost("connection_down", TextRead(kept))

(* A chunk that the end of the connection cuts is appended as if it were    *)
(* whole: the rest is what the array on the stack held before.              *)
Stale == [url |-> NoURL, line |-> "text"]
PaddedText(n, size) == [i \in 1 .. size |-> IF i <= n THEN TextRead(n)[i] ELSE Stale]

(* The connection ended before the last chunk did. *)
ChunksCut ==
  /\ pc = "body" /\ answer.framing = "chunked"
  /\ \E n \in 0 .. Len(answer.lines) :
       /\ n < arrived /\ BodyAt(n) /\ stream[n + 1].line = "eof"
       /\ \E size \in n .. Len(answer.lines) :
            Lost("connection_down", PaddedText(n, IF size <= MaxDocumentSize THEN size
                                                  ELSE MaxDocumentSize))
  /\ UNCHANGED faults

BodyDown == (BodyTimedOut \/ ChunksCut) /\ Close /\ UNCHANGED <<host, answer>>

(* Request () *)
GetAfterHead ==
  /\ pc = "answered" /\ stage = "head" /\ result = "ok"
  /\ stage' = "get" /\ pc' = "request"
  /\ UNCHANGED <<connection, url, answer, contents, result, faults>>

WillGetAgain == result = "no_header" /\ Allowed /\ stage # "again"

(* Mutant: the connection is not closed before the page is asked for again. *)
GetAgainOnSameConnection ==
  /\ pc = "answered" /\ WillGetAgain
  /\ KeepOpen
  /\ stage' = "again" /\ pc' = "request"
  /\ UNCHANGED <<host, url, answer, contents, result, faults>>

(* "The only thing to do is to lose persistent connections benefits for     *)
(* this document, so close the connection and 'GET' it again."              *)
GetAgain ==
  /\ pc = "answered" /\ WillGetAgain
  /\ Close
  /\ stage' = "again" /\ pc' = "request"
  /\ UNCHANGED <<host, url, answer, contents, result, faults>>

RequestDone == pc = "answered" /\ ~(stage = "head" /\ result = "ok") /\ ~WillGetAgain

HTTPRequest == SendCommand \/ CannotConnect \/ ParseHeader \/ NoHeader \/ HeaderDown
                 \/ ReadBody \/ ReadChunkedBody \/ BodyDown
Request == HTTPRequest \/ GetAfterHead \/ GetAgain

Network == Deliver /\ UNCHANGED <<url, pc, stage, answer, contents, result, faults>>
PeerFails == /\ Failed /\ PeerCloses
             /\ UNCHANGED <<url, pc, stage, answer, contents, result>>
==============================================================================
