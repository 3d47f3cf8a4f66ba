------------------------------ MODULE Retrieval ------------------------------
(****************************************************************************)
(* What Document::Retrieve promises the dig: asked for a URL it returns, in *)
(* the end, either the status and the text of an answer the server gives    *)
(* for that very URL, or a failure.  The text may be cut: at max_doc_size,  *)
(* or where the server closed the connection.  A connection that went down  *)
(* may leave the beginning of an answer's text, of that URL's too, and that *)
(* may be followed by anything where a chunk was cut.                       *)
(*                                                                          *)
(* An answer is a response of a server:                                     *)
(*   code      its status code                                              *)
(*   parsable  whether its content type is one of those hldig parses        *)
(*   framing   how its length is told: by Content-Length, by chunks, by the *)
(*             end of the connection, or not at all for it has no body      *)
(*   lines     the body: "text" and "blank" lines, and a last "tail" that   *)
(*             no line end follows                                          *)
(*   close     HTTP/1.0, or Connection: close                               *)
(****************************************************************************)
EXTENDS Naturals, Sequences

CONSTANTS
  URLs, NoURL,
  Answers,          \* for each URL, the answers its server may give
  DocumentStatus(_), \* the status an answer means
  MaxDocumentSize   \* max_doc_size, in lines

VARIABLES asked, status, contents

Failures == {"no_connection", "no_host", "no_port", "connection_down", "no_header"}

(* The first n lines of an answer of url. *)
Text(url, answer, n) == [i \in 1 .. n |-> [url |-> url, line |-> answer.lines[i]]]

(* The same, but after the first n of size lines comes what nobody sent. *)
Padded(url, answer, n, size) ==
  [i \in 1 .. size |-> IF i <= n THEN Text(url, answer, n)[i]
                       ELSE [url |-> NoURL, line |-> "text"]]

Down(url) ==
  \E answer \in Answers[url] : \E n, size \in 0 .. Len(answer.lines) :
    /\ n < size => answer.framing = "chunked"
    /\ size <= MaxDocumentSize
    /\ contents' = Padded(url, answer, n, size)

Init == asked = NoURL /\ status = "none" /\ contents = <<>>

Ask(url) ==
  /\ asked = NoURL
  /\ asked' = url /\ status' = "pending" /\ contents' = <<>>

Return ==
  /\ asked # NoURL
  /\ asked' = NoURL
  /\ \/ status' \in Failures /\ contents' = <<>>
     \/ status' = "connection_down" /\ Down(asked)
     \/ \E answer \in Answers[asked] :
          /\ status' = DocumentStatus(answer)
          /\ \/ status' # "ok" /\ contents' = <<>>
             \/ /\ status' = "ok"
                /\ \E n \in 0 .. Len(answer.lines) :
                     n <= MaxDocumentSize /\ contents' = Text(asked, answer, n)

Next == Return \/ \E url \in URLs : Ask(url)

vars == <<asked, status, contents>>
Spec == Init /\ [][Next]_vars
==============================================================================
