--------------------------- MODULE RetrievalProofs ---------------------------
(****************************************************************************)
(* Proofs about Document and HtHTTP: what is returned for a URL is an       *)
(* answer to a request for it, whatever the connection still held.          *)
(****************************************************************************)
EXTENDS Cookies, SequenceTheorems, WellFoundedInduction, TLAPS

Lines == {"head", "text", "blank", "tail", "eof"}
AllAnswers == UNION {Answers[u] : u \in URLs}
Pieces == [line : Lines, url : URLs \cup {NoURL}, answer : AllAnswers \cup {NoAnswer}]
TypeOK ==
  /\ host \in Hosts \cup {NoHost} /\ up \in BOOLEAN
  /\ stream \in Seq(Pieces) /\ arrived \in 0 .. Len(stream)
  /\ pc \in {"idle", "request", "header", "body", "answered"}
  /\ stage \in {"head", "get", "again"}
  /\ url \in URLs \cup {NoURL} /\ (pc # "idle" => url \in URLs)

NoHead(s) == \A i \in 1 .. Len(s) : s[i].line # "head"
NoEnd(s) == \A i \in 1 .. Len(s) : s[i].line # "eof"

(* After piece i of s comes the body of answer a, or the connection ends.   *)
BodyFrom(s, i, a) ==
  \A k \in (i + 1) .. Len(s) :
    \/ s[k].line = "eof"
    \/ k - i <= Len(a.lines) /\ s[k].line = a.lines[k - i] /\ s[k].url = url
    \/ k - i = Len(a.lines) + 1 /\ a.framing = "chunked" /\ s[k].line = "blank"

(* After piece i of s comes all of what is sent for answer a, and the       *)
(* connection ends where the server meant to end it.                        *)
Complete(s, i, a) ==
  /\ Len(s) = i + Len(Body(a)) + (IF a.close THEN 1 ELSE 0)
  /\ \A k \in 1 .. Len(s) : s[k].line = "eof" <=> a.close /\ k = Len(s)

(* The only header on the connection is that of the answer awaited. *)
OwnHeads(s) ==
  \A i \in 1 .. Len(s) :
    s[i].line = "head" =>
      /\ s[i].url = url /\ s[i].answer \in Answers[url]
      /\ BodyFrom(s, i, s[i].answer)

(* A connection no older response can be left on. *)
Fresh == stage = "again" \/ ~Allowed

(* What a connection that went down in a body left of it. *)
TextLeft(text) ==
  \E a \in Answers[url] : \E n, size \in 0 .. Len(a.lines) :
    /\ n < size => a.framing = "chunked"
    /\ size <= MaxDocumentSize
    /\ text = promise!Padded(url, a, n, size)

(* What a request returned. *)
Outcome ==
  \/ result \in promise!Failures /\ contents = <<>>
  \/ result = "connection_down" /\ TextLeft(contents)
  \/ \E a \in Answers[url] :
       /\ result = DocumentStatus(a)
       /\ \/ result # "ok" /\ contents = <<>>
          \/ /\ result = "ok"
             /\ \E n \in 0 .. Len(a.lines) :
                  n <= MaxDocumentSize /\ contents = promise!Text(url, a, n)

StreamInv ==
  /\ ~up => stream = <<>>
  /\ up => url \in URLs /\ host = HostOf[url]
  /\ pc # "idle" => host = HostOf[url]
  /\ pc \in {"header", "body"} => up
  /\ pc \in {"idle", "request"} => NoHead(stream)
  /\ pc \in {"idle", "request", "answered"} /\ up => Allowed
  /\ pc = "request" /\ stage = "again" => ~up
  /\ pc = "header" => OwnHeads(stream)
  /\ pc = "header" /\ Fresh /\ stream # <<>> => stream[1].line \in {"head", "eof"}
  /\ pc = "body" => /\ answer \in Answers[url] /\ DocumentStatus(answer) = "ok"
                    /\ BodyFrom(stream, 0, answer)
  /\ pc = "answered" => \/ result = "no_header" /\ ~Fresh
                        \/ result # "no_header" /\ NoHead(stream)
  /\ pc = "answered" => Outcome
  /\ pc = "idle" => result # "no_header"

IInv == TypeOK /\ StreamInv

USE HTTPAssumption, DocumentAssumption

----------------------------------------------------------------------------
(* The pieces of a connection *)

LEMMA AnswerFacts ==
  ASSUME NEW u \in URLs, NEW a \in Answers[u]
  PROVE  /\ a.lines \in Seq({"text", "blank", "tail"}) /\ Len(a.lines) \in Nat
         /\ \A i \in 1 .. Len(a.lines) : a.lines[i] \in {"text", "blank", "tail"}
         /\ a \in AllAnswers
<1>1. a \in Answer
  BY DEF HTTPAssumption
<1>2. a.lines \in Seq({"text", "blank", "tail"})
  BY <1>1 DEF Answer
<1> QED
  BY <1>2, LenProperties, ElementOfSeq DEF AllAnswers

LEMMA DropFacts ==
  ASSUME NEW s \in Seq(Pieces), NEW n \in 0 .. Len(s)
  PROVE  LET r == SubSeq(s, n + 1, Len(s))
         IN /\ r \in Seq(Pieces) /\ Len(r) = Len(s) - n
            /\ \A i \in 1 .. Len(r) : r[i] = s[n + i]
<1>1. Len(s) \in Nat /\ \A i \in (n + 1) .. Len(s) : s[i] \in Pieces
  BY LenProperties, ElementOfSeq
<1>2. n + 1 \in Int /\ Len(s) \in Int
  BY <1>1
<1> QED
  BY <1>1, <1>2, SubSeqProperties

(* What a Flush leaves has no header if there was none. *)
LEMMA FlushedFacts ==
  ASSUME stream \in Seq(Pieces), arrived \in 0 .. Len(stream), NEW left \in Flushed
  PROVE  /\ left \in Seq(Pieces)
         /\ Len(left) <= Len(stream) /\ Len(stream) - Len(left) <= arrived
         /\ NoHead(stream) => NoHead(left)
         /\ NoEnd(stream) => NoEnd(left)
<1>0. Len(stream) \in Nat
  BY LenProperties
<1>1. ASSUME NEW n \in Buffered, left = Drop(n)
      PROVE  /\ left \in Seq(Pieces)
             /\ Len(left) <= Len(stream) /\ Len(stream) - Len(left) <= arrived
             /\ NoHead(stream) => NoHead(left)
             /\ NoEnd(stream) => NoEnd(left)
  <2>1. n \in 0 .. Len(stream) /\ n <= arrived
    BY <1>0 DEF Buffered
  <2>2. /\ left \in Seq(Pieces) /\ Len(left) = Len(stream) - n
        /\ \A i \in 1 .. Len(left) : left[i] = stream[n + i]
    BY <1>1, <2>1, DropFacts DEF Drop
  <2>3. \A i \in 1 .. Len(left) : n + i \in 1 .. Len(stream) /\ left[i] = stream[n + i]
    BY <1>0, <2>1, <2>2
  <2>4. (NoHead(stream) => NoHead(left)) /\ (NoEnd(stream) => NoEnd(left))
    BY <2>3 DEF NoHead, NoEnd
  <2> QED
    BY <1>0, <2>1, <2>2, <2>4
<1>2. ASSUME NEW n \in Buffered, n < Len(stream),
             left = [Drop(n) EXCEPT ![1].line = "blank"]
      PROVE  /\ left \in Seq(Pieces)
             /\ Len(left) <= Len(stream) /\ Len(stream) - Len(left) <= arrived
             /\ NoHead(stream) => NoHead(left)
             /\ NoEnd(stream) => NoEnd(left)
  <2> DEFINE r == Drop(n)
  <2>1. n \in 0 .. Len(stream) /\ n <= arrived
    BY <1>0 DEF Buffered
  <2>2. /\ r \in Seq(Pieces) /\ Len(r) = Len(stream) - n
        /\ \A i \in 1 .. Len(r) : r[i] = stream[n + i]
    BY <2>1, DropFacts DEF Drop
  <2> HIDE DEF r
  <2>3. 1 \in 1 .. Len(r)
    BY <1>0, <1>2, <2>1, <2>2
  <2>4. r[1] \in Pieces
    BY <2>2, <2>3, ElementOfSeq
  <2>5. [r[1] EXCEPT !.line = "blank"] \in Pieces /\ [r[1] EXCEPT !.line = "blank"].line = "blank"
    BY <2>4 DEF Pieces, Lines
  <2>6. left = [r EXCEPT ![1] = [r[1] EXCEPT !.line = "blank"]]
    BY <1>2 DEF r
  <2>7. /\ left \in Seq(Pieces) /\ Len(left) = Len(r)
        /\ \A j \in 1 .. Len(r) : left[j] = IF j = 1 THEN [r[1] EXCEPT !.line = "blank"] ELSE r[j]
    BY <2>2, <2>3, <2>5, <2>6, ExceptSeq
  <2>8. Len(left) <= Len(stream) /\ Len(stream) - Len(left) <= arrived
    BY <1>0, <2>1, <2>2, <2>7
  <2>9. ASSUME NoHead(stream) PROVE NoHead(left)
    <3>1. \A i \in 1 .. Len(r) : r[i].line # "head"
      BY <1>0, <2>1, <2>2, <2>9 DEF NoHead
    <3>2. \A i \in 1 .. Len(left) : left[i].line # "head"
      BY <2>5, <2>7, <3>1
    <3> QED
      BY <3>2 DEF NoHead
  <2>10. ASSUME NoEnd(stream) PROVE NoEnd(left)
    <3>1. \A i \in 1 .. Len(r) : r[i].line # "eof"
      BY <1>0, <2>1, <2>2, <2>10 DEF NoEnd
    <3>2. \A i \in 1 .. Len(left) : left[i].line # "eof"
      BY <2>5, <2>7, <3>1
    <3> QED
      BY <3>2 DEF NoEnd
  <2> QED
    BY <2>7, <2>8, <2>9, <2>10
<1> QED
  BY <1>1, <1>2 DEF Flushed

LEMMA ResponseFacts ==
  ASSUME url \in URLs, NEW a \in Answers[url]
  PROVE  LET s == Response(a)
         IN /\ s \in Seq(Pieces) /\ Len(s) \in Nat \ {0}
            /\ s[1].line = "head" /\ s[1].url = url /\ s[1].answer = a
            /\ BodyFrom(s, 1, a)
            /\ \A i \in 2 .. Len(s) : s[i].line # "head"
            /\ Complete(s, 1, a)
<1> DEFINE body == Body(a)
           P(line) == [line |-> line, url |-> url, answer |-> a]
           text == [i \in DOMAIN body |-> P(body[i])]
           end == IF a.close THEN <<EOF>> ELSE <<>>
           head == <<P("head")>>
<1>1. /\ a.lines \in Seq({"text", "blank", "tail"}) /\ Len(a.lines) \in Nat
      /\ \A i \in 1 .. Len(a.lines) : a.lines[i] \in {"text", "blank", "tail"}
      /\ a \in AllAnswers
  BY AnswerFacts
<1>2. /\ body \in Seq({"text", "blank", "tail"}) /\ Len(body) \in Nat
      /\ \A i \in 1 .. Len(body) :
           \/ i <= Len(a.lines) /\ body[i] = a.lines[i]
           \/ i = Len(a.lines) + 1 /\ a.framing = "chunked" /\ body[i] = "blank"
  <2>1. CASE method = "HEAD"
    <3>1. body = <<>>
      BY <2>1 DEF Body
    <3> QED
      BY <3>1
  <2>2. CASE method # "HEAD" /\ a.framing = "chunked"
    <3>1. body = Append(a.lines, "blank")
      BY <2>2 DEF Body
    <3> QED
      BY <1>1, <2>2, <3>1
  <2>3. CASE method # "HEAD" /\ a.framing # "chunked"
    <3>1. body = a.lines
      BY <2>3 DEF Body
    <3> QED
      BY <1>1, <3>1
  <2> QED
    BY <2>1, <2>2, <2>3
<1> HIDE DEF body
<1>3. /\ text \in Seq(Pieces) /\ Len(text) = Len(body)
      /\ \A i \in 1 .. Len(body) : text[i] = P(body[i])
  <2>1. DOMAIN body = 1 .. Len(body) /\ \A i \in 1 .. Len(body) : body[i] \in {"text", "blank", "tail"}
    BY <1>2, LenProperties, ElementOfSeq
  <2>2. \A i \in 1 .. Len(body) : P(body[i]) \in Pieces
    BY <1>1, <2>1 DEF Pieces, Lines
  <2> QED
    BY <1>2, <2>1, <2>2
<1>4. head \in Seq(Pieces) /\ Len(head) = 1 /\ head[1] = P("head")
  BY <1>1 DEF Pieces, Lines
<1>5. /\ end \in Seq(Pieces) /\ Len(end) \in {0, 1}
      /\ \A i \in 1 .. Len(end) : end[i].line = "eof"
  <2>1. EOF \in Pieces /\ EOF.line = "eof"
    BY DEF EOF, Pieces, Lines
  <2>2. <<EOF>> \in Seq(Pieces) /\ Len(<<EOF>>) = 1 /\ <<EOF>>[1] = EOF
    BY <2>1
  <2>3. <<>> \in Seq(Pieces) /\ Len(<<>>) = 0
    OBVIOUS
  <2>4. end = <<EOF>> \/ end = <<>>
    OBVIOUS
  <2>5. CASE end = <<EOF>>
    <3>1. Len(end) = 1 /\ end[1].line = "eof"
      BY <2>1, <2>2, <2>5
    <3> HIDE DEF end
    <3> QED
      BY <2>2, <2>5, <3>1
  <2>6. CASE end = <<>>
    BY <2>3, <2>6
  <2> QED
    BY <2>4, <2>5, <2>6
<1>13. Len(end) = IF a.close THEN 1 ELSE 0
  OBVIOUS
<1> HIDE DEF text, end, head
<1>6. Response(a) = (head \o text) \o end
  BY DEF Response, body, text, end, head
<1>7. /\ head \o text \in Seq(Pieces) /\ Len(head \o text) = 1 + Len(body)
      /\ \A i \in 1 .. 1 + Len(body) :
           (head \o text)[i] = IF i <= 1 THEN head[i] ELSE text[i - 1]
  <2>1. /\ head \o text \in Seq(Pieces) /\ Len(head \o text) = Len(head) + Len(text)
        /\ \A i \in 1 .. Len(head) + Len(text) :
             (head \o text)[i] = IF i <= Len(head) THEN head[i] ELSE text[i - Len(head)]
    BY <1>3, <1>4, ConcatProperties
  <2> QED
    BY <1>3, <1>4, <2>1
<1>8. /\ Response(a) \in Seq(Pieces) /\ Len(Response(a)) = 1 + Len(body) + Len(end)
      /\ \A i \in 1 .. 1 + Len(body) + Len(end) :
           Response(a)[i] = IF i <= 1 THEN head[i]
                            ELSE IF i <= 1 + Len(body) THEN text[i - 1]
                            ELSE end[i - (1 + Len(body))]
  <2> DEFINE f == head \o text
  <2> HIDE DEF f
  <2>1. f \in Seq(Pieces) /\ Len(f) = 1 + Len(body)
    BY <1>7 DEF f
  <2>2. /\ f \o end \in Seq(Pieces) /\ Len(f \o end) = Len(f) + Len(end)
        /\ \A i \in 1 .. Len(f) + Len(end) :
             (f \o end)[i] = IF i <= Len(f) THEN f[i] ELSE end[i - Len(f)]
    BY <1>5, <2>1, ConcatProperties
  <2> QED
    BY <1>2, <1>5, <1>6, <1>7, <2>1, <2>2 DEF f
<1>9. \A i \in 2 .. Len(Response(a)) :
        \/ Response(a)[i].line = "eof"
        \/ /\ i <= 1 + Len(body) /\ Response(a)[i].line = body[i - 1]
           /\ Response(a)[i].url = url
  <2> TAKE i \in 2 .. Len(Response(a))
  <2>1. Len(end) \in Nat /\ i \in 2 .. (1 + Len(body) + Len(end))
    BY <1>2, <1>5, <1>8
  <2>2. CASE i <= 1 + Len(body)
    <3>0. i \in Nat /\ i > 1 /\ Len(body) \in Nat
      BY <1>2, <2>1
    <3>1. i - 1 \in 1 .. Len(body) /\ Response(a)[i] = text[i - 1]
      <4>1. i - 1 \in 1 .. Len(body)
        BY <2>2, <3>0
      <4>2. Response(a)[i] = text[i - 1]
        BY <1>8, <2>1, <2>2, <3>0
      <4> QED
        BY <4>1, <4>2
    <3>2. text[i - 1] = P(body[i - 1])
      BY <1>3, <3>1
    <3>3. P(body[i - 1]).line = body[i - 1] /\ P(body[i - 1]).url = url
      OBVIOUS
    <3> QED
      BY <2>2, <3>1, <3>2, <3>3
  <2>3. CASE i > 1 + Len(body)
    <3>0. i \in Nat /\ i > 1 /\ Len(body) \in Nat
      BY <1>2, <2>1
    <3>1. /\ i - (1 + Len(body)) \in 1 .. Len(end)
          /\ Response(a)[i] = end[i - (1 + Len(body))]
      <4>1. i - (1 + Len(body)) \in 1 .. Len(end)
        BY <2>1, <2>3, <3>0
      <4>2. Response(a)[i] = end[i - (1 + Len(body))]
        BY <1>8, <2>1, <2>3, <3>0
      <4> QED
        BY <4>1, <4>2
    <3> QED
      BY <1>5, <3>1
  <2> QED
    BY <1>2, <2>1, <2>2, <2>3
<1>10. Response(a)[1].line = "head" /\ Response(a)[1].url = url /\ Response(a)[1].answer = a
  BY <1>2, <1>4, <1>5, <1>8
<1>11. BodyFrom(Response(a), 1, a)
  <2> SUFFICES ASSUME NEW k \in 2 .. Len(Response(a)), Response(a)[k].line # "eof"
               PROVE  \/ /\ k - 1 <= Len(a.lines) /\ Response(a)[k].line = a.lines[k - 1]
                         /\ Response(a)[k].url = url
                      \/ /\ k - 1 = Len(a.lines) + 1 /\ a.framing = "chunked"
                         /\ Response(a)[k].line = "blank"
    BY DEF BodyFrom
  <2>1. /\ k <= 1 + Len(body) /\ Response(a)[k].line = body[k - 1]
        /\ Response(a)[k].url = url
    BY <1>9
  <2>2. k \in Nat /\ k > 1
    BY <1>2, <1>5, <1>8
  <2>3. k - 1 \in 1 .. Len(body)
    BY <1>2, <2>1, <2>2
  <2>4. \/ k - 1 <= Len(a.lines) /\ body[k - 1] = a.lines[k - 1]
        \/ k - 1 = Len(a.lines) + 1 /\ a.framing = "chunked" /\ body[k - 1] = "blank"
    BY <1>2, <2>3
  <2> QED
    BY <2>1, <2>4
<1>12. \A i \in 2 .. Len(Response(a)) : Response(a)[i].line # "head"
  <2> TAKE i \in 2 .. Len(Response(a))
  <2>1. CASE i <= 1 + Len(body) /\ Response(a)[i].line = body[i - 1]
    <3>1. i - 1 \in 1 .. Len(body)
      BY <1>2, <1>5, <1>8, <2>1
    <3>2. body[i - 1] # "head"
      BY <1>1, <1>2, <3>1
    <3> QED
      BY <2>1, <3>2
  <2> QED
    BY <1>9, <2>1
<1>14. Complete(Response(a), 1, a)
  <2>1. \A k \in 1 .. Len(Response(a)) :
          Response(a)[k].line = "eof" <=> a.close /\ k = Len(Response(a))
    <3> TAKE k \in 1 .. Len(Response(a))
    <3>1. CASE k <= 1 + Len(body)
      <4>1. Response(a)[k].line # "eof"
        <5>1. CASE k = 1
          BY <1>10, <5>1
        <5>2. CASE k # 1
          <6>0. k \in Nat /\ k > 1 /\ Len(body) \in Nat /\ k \in 1 .. (1 + Len(body) + Len(end))
            BY <1>2, <1>5, <1>8, <5>2
          <6>1. k - 1 \in 1 .. Len(body) /\ Response(a)[k] = text[k - 1]
            BY <1>8, <3>1, <6>0
          <6>2. Response(a)[k].line = body[k - 1] /\ body[k - 1] # "eof"
            <7>0. text[k - 1] = P(body[k - 1]) /\ P(body[k - 1]).line = body[k - 1]
              BY <1>3, <6>1
            <7>1. Response(a)[k].line = body[k - 1]
              BY <6>1, <7>0
            <7>2. \/ k - 1 <= Len(a.lines) /\ body[k - 1] = a.lines[k - 1]
                  \/ body[k - 1] = "blank"
              BY <1>2, <6>1
            <7>3. k - 1 <= Len(a.lines) => a.lines[k - 1] \in {"text", "blank", "tail"}
              BY <1>1, <6>1, <6>0
            <7> QED
              BY <7>1, <7>2, <7>3
          <6> QED
            BY <6>2
        <5> QED
          BY <5>1, <5>2
      <4> QED
        BY <1>2, <1>5, <1>8, <1>13, <3>1, <4>1
    <3>2. CASE k > 1 + Len(body)
      <4>1. k - (1 + Len(body)) \in 1 .. Len(end) /\ Response(a)[k] = end[k - (1 + Len(body))]
        BY <1>2, <1>5, <1>8, <3>2
      <4>2. Response(a)[k].line = "eof" /\ k = Len(Response(a)) /\ a.close
        BY <1>2, <1>5, <1>8, <1>13, <3>2, <4>1
      <4> QED
        BY <4>2
    <3> QED
      BY <1>2, <1>5, <1>8, <3>1, <3>2
  <2> QED
    BY <1>8, <1>13, <2>1 DEF Complete, body
<1> QED
  BY <1>2, <1>5, <1>8, <1>10, <1>11, <1>12, <1>14

LEMMA BodyLength ==
  ASSUME NEW u \in URLs, NEW a \in Answers[u]
  PROVE  /\ Len(Body(a)) \in Nat
         /\ Len(Body(a)) = IF method = "HEAD" THEN 0
                           ELSE IF a.framing = "chunked" THEN Len(a.lines) + 1 ELSE Len(a.lines)
<1>1. a.lines \in Seq({"text", "blank", "tail"}) /\ Len(a.lines) \in Nat
  BY AnswerFacts
<1>2. Len(Append(a.lines, "blank")) = Len(a.lines) + 1
  BY <1>1
<1> QED
  BY <1>1, <1>2 DEF Body

(* The same without the pieces up to the header. *)
LEMMA CompleteShift ==
  ASSUME NEW s \in Seq(Pieces), NEW n \in 0 .. Len(s), NEW u \in URLs, NEW a \in Answers[u],
         Complete(s, n, a)
  PROVE  Complete(SubSeq(s, n + 1, Len(s)), 0, a)
<1> DEFINE r == SubSeq(s, n + 1, Len(s))
<1>1. /\ Len(s) \in Nat /\ Len(Body(a)) \in Nat
      /\ Len(r) = Len(s) - n /\ \A i \in 1 .. Len(r) : r[i] = s[n + i]
  BY LenProperties, DropFacts, BodyLength
<1> HIDE DEF r
<1>2. Len(r) = 0 + Len(Body(a)) + (IF a.close THEN 1 ELSE 0)
  BY <1>1 DEF Complete
<1>3. \A k \in 1 .. Len(r) : r[k].line = "eof" <=> a.close /\ k = Len(r)
  <2> TAKE k \in 1 .. Len(r)
  <2>1. n + k \in 1 .. Len(s) /\ r[k] = s[n + k] /\ (n + k = Len(s) <=> k = Len(r))
    BY <1>1
  <2> QED
    BY <2>1 DEF Complete
<1> QED
  BY <1>2, <1>3 DEF Complete, r

LEMMA BodyShift ==
  ASSUME NEW s \in Seq(Pieces), NEW n \in 0 .. Len(s), NEW a \in UNION {Answers[u] : u \in URLs},
         BodyFrom(s, n, a)
  PROVE  /\ BodyFrom(SubSeq(s, n + 1, Len(s)), 0, a)
         /\ \A i \in (n + 1) .. Len(s) : s[i].line # "head"
<1>0. Len(s) \in Nat /\ Len(a.lines) \in Nat
      /\ \A i \in 1 .. Len(a.lines) : a.lines[i] \in {"text", "blank", "tail"}
  BY LenProperties, AnswerFacts
<1> DEFINE r == SubSeq(s, n + 1, Len(s))
<1>1. Len(r) = Len(s) - n /\ \A i \in 1 .. Len(r) : r[i] = s[n + i]
  BY DropFacts
<1> HIDE DEF r
<1>2. BodyFrom(r, 0, a)
  <2> SUFFICES ASSUME NEW k \in (0 + 1) .. Len(r)
               PROVE  \/ r[k].line = "eof"
                      \/ k - 0 <= Len(a.lines) /\ r[k].line = a.lines[k - 0] /\ r[k].url = url
                      \/ k - 0 = Len(a.lines) + 1 /\ a.framing = "chunked" /\ r[k].line = "blank"
    BY DEF BodyFrom
  <2>1. n + k \in (n + 1) .. Len(s) /\ (n + k) - n = k /\ k - 0 = k /\ r[k] = s[n + k]
    BY <1>0, <1>1
  <2> QED
    BY <2>1 DEF BodyFrom
<1>3. \A i \in (n + 1) .. Len(s) : s[i].line # "head"
  <2> TAKE i \in (n + 1) .. Len(s)
  <2>1. \/ s[i].line = "eof"
        \/ i - n <= Len(a.lines) /\ s[i].line = a.lines[i - n]
        \/ s[i].line = "blank"
    BY DEF BodyFrom
  <2>2. i - n <= Len(a.lines) => a.lines[i - n] # "head"
    BY <1>0
  <2> QED
    BY <2>1, <2>2
<1> QED
  BY <1>2, <1>3 DEF r

----------------------------------------------------------------------------
(* The invariant *)

LEMMA InitInv == Init => IInv
<1> SUFFICES ASSUME Init PROVE IInv
  OBVIOUS
<1>1. TypeOK
  <2>1. <<>> \in Seq(Pieces) /\ 0 \in 0 .. Len(<<>>)
    BY EmptySeq
  <2> QED
    BY <2>1 DEF Init, TypeOK
<1>2. StreamInv
  BY DEF Init, StreamInv, NoHead, Allowed
<1> QED
  BY <1>1, <1>2 DEF IInv

(* A closed connection holds nothing. *)
LEMMA ClosedInv ==
  ASSUME Close, TypeOK,
         pc' \in {"idle", "request", "answered"}, stage' \in {"head", "get", "again"},
         url' \in URLs,
         host' = HostOf[url'],
         pc' = "answered" => Outcome' /\ result' # "no_header",
         pc' = "idle" => result' # "no_header"
  PROVE  IInv'
<1>1. TypeOK'
  <2>1. <<>> \in Seq(Pieces) /\ 0 \in 0 .. Len(<<>>)
    BY EmptySeq
  <2>2. stream' \in Seq(Pieces) /\ arrived' \in 0 .. Len(stream') /\ up' \in BOOLEAN
    BY <2>1 DEF Close
  <2>3. host' \in Hosts
    BY DEF HTTPAssumption
  <2> QED
    BY <2>2, <2>3 DEF TypeOK
<1>2. stream' = <<>> /\ ~up'
  BY DEF Close
<1>3. NoHead(stream)'
  BY <1>2 DEF NoHead
<1>4. StreamInv'
  BY <1>2, <1>3 DEF StreamInv
<1> QED
  BY <1>1, <1>4 DEF IInv

(* What HTTPRequest returns when it has a response. *)
LEMMA FinishInv ==
  ASSUME IInv, NEW a \in Answers[url], NEW text, NEW n \in 0 .. arrived,
         pc \in {"header", "body"}, up,
         Finish(a, text, n),
         \A i \in (n + 1) .. Len(stream) : stream[i].line # "head",
         \/ DocumentStatus(a) # "ok" /\ text = <<>>
         \/ /\ DocumentStatus(a) = "ok"
            /\ \E m \in 0 .. Len(a.lines) : m <= MaxDocumentSize /\ text = promise!Text(url, a, m)
  PROVE  IInv'
<1>0. TypeOK /\ StreamInv /\ url \in URLs /\ url' = url /\ host' = host /\ stage' = stage
      /\ pc' = "answered" /\ result' = DocumentStatus(a) /\ contents' = text
  BY DEF IInv, TypeOK, Finish
<1>1. Outcome'
  BY <1>0 DEF Outcome, promise!Text
<1>2. result' # "no_header"
  BY <1>0 DEF DocumentStatus
<1>3. CASE Close
  <2>1. host' = HostOf[url'] /\ stage' \in {"head", "get", "again"} /\ url' \in URLs
    BY <1>0 DEF StreamInv, TypeOK
  <2>2. pc' \in {"idle", "request", "answered"} /\ pc' # "idle"
    BY <1>0
  <2> QED
    BY <1>0, <1>1, <1>2, <1>3, <2>1, <2>2, ClosedInv
<1>4. CASE Read(n) /\ StaysUp(a, text)
  <2>0. n \in 0 .. Len(stream) /\ Len(stream) \in Nat /\ arrived \in Nat /\ n \in Nat /\ n <= arrived
        /\ stream \in Seq(Pieces) /\ arrived <= Len(stream)
    BY <1>0, LenProperties DEF TypeOK
  <2>1. /\ stream' \in Seq(Pieces) /\ Len(stream') = Len(stream) - n
        /\ \A i \in 1 .. Len(stream') : stream'[i] = stream[n + i]
    BY <1>4, <2>0, DropFacts DEF Read, Drop
  <2>2. NoHead(stream)'
    BY <2>0, <2>1 DEF NoHead
  <2>3. TypeOK'
    BY <1>0, <1>4, <2>0, <2>1 DEF TypeOK, Read
  <2>4. up' = TRUE /\ Allowed'
    BY <1>0, <1>4 DEF Read, StaysUp, Allowed, TypeOK
  <2>5. StreamInv'
    BY <1>0, <1>1, <1>2, <2>2, <2>4 DEF StreamInv
  <2> QED
    BY <2>3, <2>5 DEF IInv
<1> QED
  BY <1>3, <1>4 DEF Finish

(* A response behind what an older one left. *)
LEMMA WriteFacts ==
  ASSUME NEW l \in Seq(Pieces), NoHead(l), url \in URLs, NEW a \in Answers[url]
  PROVE  LET s == l \o Response(a)
         IN /\ s \in Seq(Pieces) /\ Len(s) >= Len(l) + 1
            /\ OwnHeads(s)
            /\ l = <<>> => s[1].line = "head"
            /\ s[Len(l) + 1].line = "head" /\ s[Len(l) + 1].answer = a
            /\ NoEnd(l) => Complete(s, Len(l) + 1, a)
<1> DEFINE r == Response(a)
           s == l \o r
<1>1. /\ r \in Seq(Pieces) /\ Len(r) \in Nat \ {0}
      /\ r[1].line = "head" /\ r[1].url = url /\ r[1].answer = a
      /\ BodyFrom(r, 1, a)
      /\ \A i \in 2 .. Len(r) : r[i].line # "head"
      /\ Complete(r, 1, a) /\ Len(Body(a)) \in Nat
  BY ResponseFacts, BodyLength
<1> HIDE DEF r
<1>2. /\ s \in Seq(Pieces) /\ Len(s) = Len(l) + Len(r)
      /\ \A i \in 1 .. Len(l) + Len(r) : s[i] = IF i <= Len(l) THEN l[i] ELSE r[i - Len(l)]
  BY <1>1, ConcatProperties
<1>3. Len(l) \in Nat
  BY LenProperties
<1> HIDE DEF s
<1>4. s[Len(l) + 1] = r[1]
  BY <1>1, <1>2, <1>3
<1>5. \A i \in 1 .. Len(s) : s[i].line = "head" => i = Len(l) + 1
  <2> SUFFICES ASSUME NEW i \in 1 .. Len(s), i # Len(l) + 1 PROVE s[i].line # "head"
    OBVIOUS
  <2>1. CASE i <= Len(l)
    <3>1. i \in 1 .. Len(l) /\ s[i] = l[i]
      BY <1>1, <1>2, <1>3, <2>1
    <3> QED
      BY <3>1 DEF NoHead
  <2>2. CASE i > Len(l)
    <3>1. i - Len(l) \in 2 .. Len(r) /\ s[i] = r[i - Len(l)]
      BY <1>1, <1>2, <1>3, <2>2
    <3> QED
      BY <1>1, <3>1
  <2> QED
    BY <1>3, <2>1, <2>2
<1>6. BodyFrom(s, Len(l) + 1, a)
  <2> SUFFICES ASSUME NEW k \in (Len(l) + 1 + 1) .. Len(s)
               PROVE  \/ s[k].line = "eof"
                      \/ /\ k - (Len(l) + 1) <= Len(a.lines)
                         /\ s[k].line = a.lines[k - (Len(l) + 1)] /\ s[k].url = url
                      \/ /\ k - (Len(l) + 1) = Len(a.lines) + 1
                         /\ a.framing = "chunked" /\ s[k].line = "blank"
    BY DEF BodyFrom
  <2>1. /\ k - Len(l) \in (1 + 1) .. Len(r) /\ s[k] = r[k - Len(l)]
        /\ (k - Len(l)) - 1 = k - (Len(l) + 1)
    BY <1>1, <1>2, <1>3
  <2> QED
    BY <1>1, <2>1 DEF BodyFrom
<1>7. OwnHeads(s)
  BY <1>1, <1>4, <1>5, <1>6 DEF OwnHeads
<1>8. l = <<>> => s[1].line = "head"
  <2> HAVE l = <<>>
  <2>1. Len(l) = 0
    OBVIOUS
  <2> QED
    BY <1>1, <1>4, <2>1
<1>9. ASSUME NoEnd(l) PROVE Complete(s, Len(l) + 1, a)
  <2>1. Len(s) = (Len(l) + 1) + Len(Body(a)) + (IF a.close THEN 1 ELSE 0)
    BY <1>1, <1>2, <1>3 DEF Complete
  <2>2. \A k \in 1 .. Len(s) : s[k].line = "eof" <=> a.close /\ k = Len(s)
    <3> TAKE k \in 1 .. Len(s)
    <3>1. CASE k <= Len(l)
      <4>1. k \in 1 .. Len(l) /\ s[k] = l[k] /\ k # Len(s)
        BY <1>1, <1>2, <1>3, <3>1
      <4>2. l[k].line # "eof"
        BY <1>9, <4>1 DEF NoEnd
      <4> QED
        BY <4>1, <4>2
    <3>2. CASE k > Len(l)
      <4>0. /\ k \in Nat /\ Len(l) \in Nat /\ Len(r) \in Nat /\ Len(s) = Len(l) + Len(r)
            /\ k \in 1 .. Len(l) + Len(r)
        BY <1>1, <1>2, <1>3
      <4>1. k - Len(l) \in 1 .. Len(r) /\ s[k] = r[k - Len(l)] /\ (k = Len(s) <=> k - Len(l) = Len(r))
        <5>1. k - Len(l) \in 1 .. Len(r)
          BY <3>2, <4>0
        <5>2. s[k] = r[k - Len(l)]
          BY <1>2, <3>2, <4>0
        <5>3. k = Len(s) <=> k - Len(l) = Len(r)
          BY <4>0
        <5> QED
          BY <5>1, <5>2, <5>3
      <4>2. r[k - Len(l)].line = "eof" <=> a.close /\ k - Len(l) = Len(r)
        <5>1. \A i \in 1 .. Len(r) : r[i].line = "eof" <=> a.close /\ i = Len(r)
          BY <1>1 DEF Complete
        <5> QED
          BY <4>1, <5>1
      <4> QED
        BY <4>1, <4>2
    <3> QED
      BY <1>3, <3>1, <3>2
  <2> QED
    BY <2>1, <2>2 DEF Complete
<1> QED
  BY <1>1, <1>2, <1>3, <1>4, <1>7, <1>8, <1>9 DEF s, r

LEMMA SendCommandInv == ASSUME IInv, SendCommand PROVE IInv'
<1>0. /\ TypeOK /\ StreamInv /\ url \in URLs /\ url' = url /\ host' = host /\ stage' = stage
      /\ pc = "request" /\ pc' = "header" /\ up' = TRUE
      /\ stream \in Seq(Pieces) /\ arrived \in 0 .. Len(stream) /\ Len(stream) \in Nat
  BY LenProperties DEF IInv, TypeOK, SendCommand, Write
<1>1. PICK a \in Answers[url] : Write(Response(a))
  BY DEF SendCommand
<1>2. PICK left \in Flushed :
        /\ stream' = IF PeerClosed THEN left ELSE left \o Response(a)
        /\ arrived' = arrived - (Len(stream) - Len(left))
  BY <1>1 DEF Write
<1>3. /\ left \in Seq(Pieces) /\ Len(left) \in Nat
      /\ Len(left) <= Len(stream) /\ Len(stream) - Len(left) <= arrived
      /\ NoHead(left)
  BY <1>0, FlushedFacts, LenProperties DEF StreamInv
<1>4. /\ stream' \in Seq(Pieces) /\ Len(stream') >= Len(left)
      /\ OwnHeads(stream')
      /\ left = <<>> /\ stream' # <<>> => stream'[1].line = "head"
  <2>1. CASE PeerClosed
    <3>1. stream' = left
      BY <1>2, <2>1
    <3> QED
      BY <1>3, <3>1 DEF NoHead, OwnHeads
  <2>2. CASE ~PeerClosed
    <3>1. stream' = left \o Response(a)
      BY <1>2, <2>2
    <3> QED
      BY <1>0, <1>3, <3>1, WriteFacts
  <2> QED
    BY <2>1, <2>2
<1>5. TypeOK'
  <2>1. Len(stream') \in Nat
    BY <1>4, LenProperties
  <2>2. arrived' \in 0 .. Len(stream')
    BY <1>0, <1>2, <1>3, <1>4, <2>1
  <2> QED
    BY <1>0, <1>4, <2>2 DEF TypeOK
<1>6. OwnHeads(stream)'
  BY <1>0, <1>4 DEF OwnHeads, BodyFrom
<1>7. Fresh' => Fresh
  BY <1>0 DEF Fresh, Allowed
<1>8. Fresh => left = <<>>
  <2> HAVE Fresh
  <2>1. stream = <<>>
    BY <1>0 DEF Fresh, StreamInv
  <2>2. Len(stream) = 0
    BY <2>1
  <2>3. Len(left) = 0
    BY <1>3, <2>2
  <2> QED
    BY <1>3, <2>3, EmptySeq
<1>9. StreamInv'
  BY <1>0, <1>4, <1>6, <1>7, <1>8 DEF StreamInv
<1> QED
  BY <1>5, <1>9 DEF IInv

LEMMA ParseHeaderInv == ASSUME IInv, ParseHeader PROVE IInv'
<1>0. /\ TypeOK /\ StreamInv /\ url \in URLs /\ pc = "header" /\ up
      /\ stream \in Seq(Pieces) /\ arrived \in 0 .. Len(stream) /\ Len(stream) \in Nat
      /\ OwnHeads(stream)
  BY LenProperties DEF IInv, TypeOK, StreamInv, ParseHeader
<1> DEFINE a(n) == stream[n].answer
<1>1. PICK n \in 1 .. arrived :
        /\ EndsHeader(n) /\ StatusLineAt(n)
        /\ answer' = a(n)
        /\ IF DocumentStatus(a(n)) = "ok" /\ method = "GET"
           THEN /\ pc' = "body"
                /\ Read(n)
                /\ UNCHANGED <<host, url, stage, contents, result, faults>>
           ELSE Finish(a(n), <<>>, n)
  BY DEF ParseHeader
<1>2. n \in 0 .. Len(stream) /\ n \in 1 .. Len(stream) /\ n \in 0 .. arrived
  BY <1>0
<1>3. a(n) \in Answers[url] /\ BodyFrom(stream, n, a(n))
  BY <1>0, <1>1, <1>2 DEF OwnHeads, StatusLineAt
<1> HIDE DEF a
<1>4. /\ BodyFrom(Drop(n), 0, a(n))
      /\ \A i \in (n + 1) .. Len(stream) : stream[i].line # "head"
  BY <1>0, <1>2, <1>3, BodyShift DEF Drop
<1>5. CASE DocumentStatus(a(n)) = "ok" /\ method = "GET"
  <2>1. /\ pc' = "body" /\ Read(n) /\ url' = url /\ host' = host /\ stage' = stage
        /\ answer' = a(n)
    BY <1>1, <1>5
  <2>2. stream' \in Seq(Pieces) /\ Len(stream') = Len(stream) - n
    BY <1>0, <1>2, <2>1, DropFacts DEF Read, Drop
  <2>3. TypeOK'
    BY <1>0, <1>2, <2>1, <2>2 DEF TypeOK, Read
  <2>4. BodyFrom(stream, 0, answer)'
    BY <1>4, <2>1 DEF BodyFrom, Read
  <2>5. StreamInv'
    BY <1>0, <1>3, <1>5, <2>1, <2>4 DEF StreamInv, Read, DocumentStatus
  <2> QED
    BY <2>3, <2>5 DEF IInv
<1>6. CASE ~(DocumentStatus(a(n)) = "ok" /\ method = "GET")
  <2>1. Finish(a(n), <<>>, n)
    BY <1>1, <1>6
  <2>2. ASSUME DocumentStatus(a(n)) = "ok"
        PROVE  \E m \in 0 .. Len(a(n).lines) :
                 m <= MaxDocumentSize /\ <<>> = promise!Text(url, a(n), m)
    <3>1. Len(a(n).lines) \in Nat
      BY <1>0, <1>3, AnswerFacts
    <3>2. 0 \in 0 .. Len(a(n).lines) /\ 0 <= MaxDocumentSize
      BY <3>1 DEF HTTPAssumption
    <3>3. <<>> = promise!Text(url, a(n), 0)
      BY DEF promise!Text
    <3> QED
      BY <3>2, <3>3
  <2> QED
    BY <1>0, <1>2, <1>3, <1>4, <2>1, <2>2, FinishInv
<1> QED
  BY <1>5, <1>6

(* Without a status line there was something of an older response. *)
LEMMA NoHeaderInv == ASSUME IInv, NoHeader PROVE IInv'
<1>0. /\ TypeOK /\ StreamInv /\ url \in URLs /\ pc = "header" /\ up
      /\ stream \in Seq(Pieces) /\ arrived \in 0 .. Len(stream) /\ Len(stream) \in Nat
      /\ host' = host /\ url' = url /\ stage' = stage /\ pc' = "answered"
      /\ result' = "no_header" /\ contents' = <<>>
  BY LenProperties DEF IInv, TypeOK, StreamInv, NoHeader, Lost
<1>1. PICK n \in 1 .. arrived : EndsHeader(n) /\ ~StatusLineAt(n) /\ Read(n)
  BY DEF NoHeader
<1>2. n \in 0 .. Len(stream)
  BY <1>0
<1>3. stream' \in Seq(Pieces) /\ Len(stream') = Len(stream) - n /\ up' = up
  BY <1>0, <1>1, <1>2, DropFacts DEF Read, Drop
<1>4. TypeOK'
  BY <1>0, <1>1, <1>2, <1>3 DEF TypeOK, Read
<1>5. ~Fresh
  <2> SUFFICES ASSUME Fresh PROVE FALSE
    OBVIOUS
  <2>1. stream # <<>>
    <3>1. Len(stream) # 0
      BY <1>0
    <3> QED
      BY <1>0, <3>1, EmptySeq
  <2>2. stream[1].line \in {"head", "eof"}
    BY <1>0, <2>1 DEF StreamInv
  <2>3. CASE n = 1
    BY <1>1, <2>2, <2>3 DEF EndsHeader, StatusLineAt
  <2>4. CASE n > 1
    <3>1. 1 \in 1 .. n - 1
      BY <1>0, <2>4
    <3>2. stream[1].line \in {"text", "tail"}
      BY <1>1, <3>1 DEF EndsHeader, Plain
    <3> QED
      BY <2>2, <3>2
  <2> QED
    BY <1>0, <2>3, <2>4
<1>6. ~Fresh' /\ Allowed'
  BY <1>0, <1>5 DEF Fresh, Allowed
<1>7. Outcome'
  BY <1>0 DEF Outcome, promise!Failures
<1>8. StreamInv'
  BY <1>0, <1>3, <1>6, <1>7 DEF StreamInv
<1> QED
  BY <1>4, <1>8 DEF IInv

(* HTTPRequest gives up on a connection and closes it. *)
LEMMA LostInv ==
  ASSUME IInv, pc # "idle", NEW text, Lost("connection_down", text), Close, host' = host,
         text = <<>> \/ TextLeft(text)
  PROVE  IInv'
<1>1. /\ TypeOK /\ url' \in URLs /\ host' = HostOf[url'] /\ stage' \in {"head", "get", "again"}
      /\ pc' = "answered" /\ result' = "connection_down" /\ contents' = text /\ url' = url
  BY DEF IInv, TypeOK, StreamInv, Lost
<1>2. TextLeft(text) => TextLeft(contents)'
  BY <1>1 DEF TextLeft, promise!Padded, promise!Text
<1>3. Outcome'
  BY <1>1, <1>2 DEF Outcome, promise!Failures
<1> QED
  BY <1>1, <1>3, ClosedInv

LEMMA CannotConnectInv == ASSUME IInv, CannotConnect PROVE IInv'
<1>0. /\ TypeOK /\ StreamInv /\ pc' = "answered" /\ contents' = <<>>
      /\ result' \in {"no_connection", "no_host", "no_port"}
      /\ url' = url /\ stage' = stage /\ pc = "request"
      /\ host' = host /\ up' = up /\ stream' = stream /\ arrived' = arrived
  BY DEF IInv, CannotConnect, Lost, connection
<1>1. Outcome'
  BY <1>0 DEF Outcome, promise!Failures
<1>2. TypeOK'
  BY <1>0 DEF TypeOK
<1>3. NoHead(stream)' /\ (up' => Allowed')
  BY <1>0 DEF StreamInv, NoHead, Allowed
<1>4. StreamInv'
  BY <1>0, <1>1, <1>3 DEF StreamInv
<1> QED
  BY <1>2, <1>4 DEF IInv

(* As far as no end of the connection is read, the body is the answer's. *)
LEMMA TextOfBody ==
  ASSUME TypeOK, NEW a \in Answers[url], url \in URLs, BodyFrom(stream, 0, a),
         NEW n \in 0 .. Len(stream), n <= Len(a.lines) \/ a.framing # "chunked", BodyAt(n)
  PROVE  /\ n <= Len(a.lines)
         /\ TextRead(n) = promise!Text(url, a, n)
<1>0. Len(stream) \in Nat /\ Len(a.lines) \in Nat
  BY LenProperties, AnswerFacts DEF TypeOK
<1>1. ASSUME NEW i \in 1 .. n
      PROVE  i <= Len(a.lines) /\ stream[i].line = a.lines[i] /\ stream[i].url = url
  <2>1. i \in (0 + 1) .. Len(stream) /\ i - 0 = i
    BY <1>0
  <2>2. stream[i].line # "eof"
    BY DEF BodyAt
  <2>3. \/ i <= Len(a.lines) /\ stream[i].line = a.lines[i] /\ stream[i].url = url
        \/ i = Len(a.lines) + 1 /\ a.framing = "chunked"
    BY <2>1, <2>2 DEF BodyFrom
  <2> QED
    BY <1>0, <2>3
<1>2. n <= Len(a.lines)
  <2>1. CASE n = 0
    BY <1>0, <2>1
  <2>2. CASE n # 0
    <3>1. n \in 1 .. n
      BY <1>0, <2>2
    <3> QED
      BY <1>1, <3>1
  <2> QED
    BY <2>1, <2>2
<1>3. TextRead(n) = promise!Text(url, a, n)
  BY <1>1 DEF TextRead, promise!Text
<1> QED
  BY <1>2, <1>3

LEMMA ReadBodyInv == ASSUME IInv, ReadBody PROVE IInv'
<1>0. /\ TypeOK /\ StreamInv /\ url \in URLs /\ pc = "body" /\ up
      /\ stream \in Seq(Pieces) /\ arrived \in 0 .. Len(stream) /\ Len(stream) \in Nat
      /\ answer \in Answers[url] /\ DocumentStatus(answer) = "ok"
      /\ BodyFrom(stream, 0, answer) /\ answer.framing # "chunked"
  BY LenProperties DEF IInv, TypeOK, StreamInv, ReadBody
<1>1. PICK n \in 0 .. arrived :
        /\ BodyAt(n) /\ n <= BytesToGo
        /\ Finish(answer, TextRead(n), n)
  <2>1. Len(answer.lines) \in Nat
    BY <1>0, AnswerFacts
  <2>2. BytesToGo \in Nat
    BY <2>1 DEF BytesToGo, HTTPAssumption
  <2> QED
    BY <1>0, <2>2 DEF ReadBody
<1>2. n \in 0 .. Len(stream)
  BY <1>0
<1>3. n <= Len(answer.lines) /\ TextRead(n) = promise!Text(url, answer, n)
  BY <1>0, <1>1, <1>2, TextOfBody
<1>4. Len(answer.lines) \in Nat
  BY <1>0, AnswerFacts
<1>5. n \in 0 .. Len(answer.lines) /\ n <= MaxDocumentSize
  BY <1>0, <1>1, <1>3, <1>4 DEF BytesToGo, HTTPAssumption
<1>6. \A i \in (n + 1) .. Len(stream) : stream[i].line # "head"
  <2>1. 0 \in 0 .. Len(stream)
    BY <1>0
  <2>2. \A i \in (0 + 1) .. Len(stream) : stream[i].line # "head"
    BY <1>0, <2>1, BodyShift
  <2> QED
    BY <1>0, <1>2, <2>2
<1> QED
  BY <1>0, <1>1, <1>3, <1>5, <1>6, FinishInv

LEMMA ReadChunkedBodyInv == ASSUME IInv, ReadChunkedBody PROVE IInv'
<1> DEFINE n == Len(answer.lines)
           kept == IF n <= MaxDocumentSize THEN n ELSE MaxDocumentSize
<1>0. /\ TypeOK /\ StreamInv /\ url \in URLs /\ pc = "body" /\ up
      /\ stream \in Seq(Pieces) /\ arrived \in 0 .. Len(stream) /\ Len(stream) \in Nat
      /\ answer \in Answers[url] /\ DocumentStatus(answer) = "ok"
      /\ BodyFrom(stream, 0, answer)
  BY LenProperties DEF IInv, TypeOK, StreamInv, ReadChunkedBody
<1>1. n <= arrived /\ BodyAt(n) /\ Finish(answer, TextRead(kept), n)
  BY DEF ReadChunkedBody
<1>2. n \in Nat
  BY <1>0, AnswerFacts
<1> HIDE DEF n
<1>3. n \in 0 .. arrived /\ n \in 0 .. Len(stream) /\ kept \in 0 .. n /\ kept <= MaxDocumentSize
  BY <1>0, <1>1, <1>2 DEF HTTPAssumption
<1>4. kept \in 0 .. Len(stream) /\ kept <= Len(answer.lines)
  BY <1>0, <1>2, <1>3 DEF n
<1> HIDE DEF kept
<1>5. BodyAt(kept)
  BY <1>0, <1>1, <1>2, <1>3 DEF BodyAt
<1>6. TextRead(kept) = promise!Text(url, answer, kept)
  BY <1>0, <1>4, <1>5, TextOfBody
<1>7. \A i \in (n + 1) .. Len(stream) : stream[i].line # "head"
  <2>1. 0 \in 0 .. Len(stream)
    BY <1>0
  <2>2. \A i \in (0 + 1) .. Len(stream) : stream[i].line # "head"
    BY <1>0, <2>1, BodyShift
  <2> QED
    BY <1>0, <1>3, <2>2
<1>8. kept \in 0 .. Len(answer.lines)
  BY <1>3 DEF n
<1> QED
  BY <1>0, <1>1, <1>3, <1>6, <1>7, <1>8, FinishInv

(* What is left when the body times out is the beginning of the answer's.   *)
LEMMA BodyTimedOutInv == ASSUME IInv, BodyTimedOut, Close, host' = host PROVE IInv'
<1>0. /\ TypeOK /\ StreamInv /\ url \in URLs /\ pc = "body"
      /\ stream \in Seq(Pieces) /\ arrived \in 0 .. Len(stream) /\ Len(stream) \in Nat
      /\ answer \in Answers[url] /\ BodyFrom(stream, 0, answer)
  BY LenProperties DEF IInv, TypeOK, StreamInv, BodyTimedOut
<1>1. Len(answer.lines) \in Nat
  BY <1>0, AnswerFacts
<1>2. /\ BodyAt(arrived)
      /\ answer.framing = "chunked" => arrived < Len(answer.lines) + 1
  BY DEF BodyTimedOut
<1>3. PICK kept \in 0 .. arrived :
        kept <= MaxDocumentSize /\ Lost("connection_down", TextRead(kept))
  BY DEF BodyTimedOut
<1>4. kept \in 0 .. Len(stream) /\ (kept <= Len(answer.lines) \/ answer.framing # "chunked")
  BY <1>0, <1>1, <1>2
<1>5. BodyAt(kept)
  BY <1>0, <1>2 DEF BodyAt
<1>6. kept <= Len(answer.lines) /\ TextRead(kept) = promise!Text(url, answer, kept)
  BY <1>0, <1>4, <1>5, TextOfBody
<1>7. kept \in 0 .. Len(answer.lines) /\ ~(kept < kept)
  BY <1>0, <1>1, <1>6
<1>8. promise!Text(url, answer, kept) = promise!Padded(url, answer, kept, kept)
  BY <1>7 DEF promise!Padded, promise!Text
<1>9. TextLeft(TextRead(kept))
  BY <1>0, <1>3, <1>6, <1>7, <1>8 DEF TextLeft
<1> QED
  BY <1>0, <1>3, <1>9, LostInv

(* And the same where a chunk is cut, but for what fills it up.             *)
LEMMA ChunksCutInv == ASSUME IInv, ChunksCut, Close, host' = host PROVE IInv'
<1>0. /\ TypeOK /\ StreamInv /\ url \in URLs /\ pc = "body" /\ answer.framing = "chunked"
      /\ stream \in Seq(Pieces) /\ arrived \in 0 .. Len(stream) /\ Len(stream) \in Nat
      /\ answer \in Answers[url] /\ BodyFrom(stream, 0, answer)
  BY LenProperties DEF IInv, TypeOK, StreamInv, ChunksCut
<1>1. Len(answer.lines) \in Nat
  BY <1>0, AnswerFacts
<1> DEFINE cut(size) == IF size <= MaxDocumentSize THEN size ELSE MaxDocumentSize
<1>2. PICK n \in 0 .. Len(answer.lines), size \in 0 .. Len(answer.lines) :
        /\ n < arrived /\ BodyAt(n)
        /\ Lost("connection_down", PaddedText(n, cut(size)))
  BY <1>1 DEF ChunksCut
<1> DEFINE m == cut(size)
<1>3. m \in 0 .. Len(answer.lines) /\ m <= MaxDocumentSize
  BY <1>1 DEF HTTPAssumption
<1>4. Lost("connection_down", PaddedText(n, m))
  BY <1>2
<1> HIDE DEF m
<1>5. n \in 0 .. Len(stream)
  BY <1>0, <1>1, <1>2
<1>6. TextRead(n) = promise!Text(url, answer, n)
  BY <1>0, <1>1, <1>2, <1>5, TextOfBody
<1>7. PaddedText(n, m) = promise!Padded(url, answer, n, m)
  BY <1>6 DEF PaddedText, Stale, promise!Padded
<1>8. TextLeft(PaddedText(n, m))
  BY <1>0, <1>3, <1>7 DEF TextLeft
<1> QED
  BY <1>0, <1>4, <1>8, LostInv

(* Another request starts, on the connection that is there. *)
LEMMA AnotherInv ==
  ASSUME IInv, pc = "answered", pc' \in {"request", "idle"}, result # "no_header",
         stage' \in {"head", "get", "again"}, pc' = "request" => stage' # "again",
         UNCHANGED <<host, up, stream, arrived, url, result>>
  PROVE  IInv'
<1>0. TypeOK /\ StreamInv /\ url' = url /\ host' = host /\ up' = up /\ stream' = stream
      /\ arrived' = arrived /\ result' = result
  BY DEF IInv
<1>1. TypeOK'
  BY <1>0 DEF TypeOK
<1>2. NoHead(stream)' /\ (up' => Allowed')
  BY <1>0 DEF StreamInv, NoHead, Allowed
<1>3. StreamInv'
  BY <1>0, <1>2 DEF StreamInv
<1> QED
  BY <1>1, <1>3 DEF IInv

(* The same for a new URL; its host may be that of the last one. *)
LEMMA RetrieveInv == ASSUME IInv, OneSetting, NEW u \in URLs, Retrieve(u) PROVE IInv'
<1>0. TypeOK /\ StreamInv /\ pc = "idle" /\ pc' = "request" /\ url' = u
      /\ stage' \in {"head", "get"} /\ host' = HostOf[url'] /\ result' = result
  BY DEF IInv, Retrieve, FirstStage, SetConnection
<1>1. CASE host # HostOf[u]
  <2>1. Close
    BY <1>1 DEF Retrieve, SetConnection
  <2> QED
    BY <1>0, <2>1, ClosedInv
<1>2. CASE host = HostOf[u]
  <2>1. up' = up /\ stream' = stream /\ arrived' = arrived /\ host' = host
    BY <1>0, <1>2 DEF Retrieve, SetConnection
  <2>2. NoHead(stream)'
    BY <1>0, <2>1 DEF StreamInv, NoHead
  <2>3. ASSUME up' PROVE Allowed'
    <3>1. url \in URLs /\ HostOf[url] = HostOf[u] /\ url \in Persistent
      BY <1>0, <1>2, <2>1, <2>3 DEF StreamInv, Allowed
    <3> QED
      BY <1>0, <3>1 DEF OneSetting, Allowed
  <2>4. TypeOK'
    BY <1>0, <2>1 DEF TypeOK
  <2>5. StreamInv'
    BY <1>0, <2>1, <2>2, <2>3 DEF StreamInv
  <2> QED
    BY <2>4, <2>5 DEF IInv
<1> QED
  BY <1>1, <1>2

LEMMA NetworkInv == ASSUME IInv, Network PROVE IInv'
<1>0. /\ TypeOK /\ StreamInv /\ arrived < Len(stream) /\ arrived' = arrived + 1
      /\ UNCHANGED <<host, up, stream, url, pc, stage, answer, contents, result>>
  BY DEF IInv, Network, Deliver
<1>1. TypeOK'
  <2>1. Len(stream) \in Nat
    BY <1>0, LenProperties DEF TypeOK
  <2>2. arrived' \in 0 .. Len(stream)
    BY <1>0, <2>1 DEF TypeOK
  <2> QED
    BY <1>0, <2>2 DEF TypeOK
<1>2. StreamInv'
  BY <1>0 DEF StreamInv, NoHead, OwnHeads, BodyFrom, Fresh, Allowed, Outcome, TextLeft
<1> QED
  BY <1>1, <1>2 DEF IInv

(* What a peer that closes leaves is a beginning of what it sent, and the end. *)
LEMMA PeerFailsInv == ASSUME IInv, PeerFails PROVE IInv'
<1>0. /\ TypeOK /\ StreamInv
      /\ UNCHANGED <<host, up, arrived, url, pc, stage, answer, contents, result>>
      /\ up /\ stream \in Seq(Pieces) /\ Len(stream) \in Nat /\ arrived \in 0 .. Len(stream)
  BY LenProperties DEF IInv, TypeOK, PeerFails, PeerCloses
<1>1. PICK n \in arrived .. Len(stream) : stream' = Append(SubSeq(stream, 1, n), EOF)
  BY DEF PeerFails, PeerCloses
<1> DEFINE r == SubSeq(stream, 1, n)
<1>2. n \in 0 .. Len(stream) /\ n \in Nat
  BY <1>0
<1>3. r \in Seq(Pieces) /\ Len(r) = n /\ \A i \in 1 .. n : r[i] = stream[i]
  <2>1. \A i \in 1 .. n : stream[i] \in Pieces
    BY <1>0, <1>2
  <2> QED
    BY <1>0, <1>2, <2>1, SubSeqProperties
<1> HIDE DEF r
<1>4. EOF \in Pieces /\ EOF.line = "eof"
  BY DEF EOF, Pieces, Lines
<1>5. /\ stream' \in Seq(Pieces) /\ Len(stream') = n + 1
      /\ \A i \in 1 .. n : stream'[i] = stream[i]
      /\ stream'[n + 1].line = "eof"
  BY <1>1, <1>3, <1>4, AppendProperties DEF r
<1>6. TypeOK'
  BY <1>0, <1>2, <1>5 DEF TypeOK
<1>7. NoHead(stream) => NoHead(stream)'
  BY <1>2, <1>5 DEF NoHead
<1>8. ASSUME NEW i \in 0 .. n, NEW a, BodyFrom(stream, i, a) PROVE BodyFrom(stream, i, a)'
  <2> SUFFICES ASSUME NEW k \in (i + 1) .. Len(stream')
               PROVE  \/ stream'[k].line = "eof"
                      \/ /\ k - i <= Len(a.lines) /\ stream'[k].line = a.lines[k - i]
                         /\ stream'[k].url = url
                      \/ /\ k - i = Len(a.lines) + 1 /\ a.framing = "chunked"
                         /\ stream'[k].line = "blank"
    BY <1>0 DEF BodyFrom
  <2>1. CASE k = n + 1
    BY <1>5, <2>1
  <2>2. CASE k # n + 1
    <3>1. k \in 1 .. n /\ k \in (i + 1) .. Len(stream) /\ stream'[k] = stream[k]
      BY <1>0, <1>2, <1>5, <2>2
    <3> QED
      BY <1>8, <3>1 DEF BodyFrom
  <2> QED
    BY <2>1, <2>2
<1>9. OwnHeads(stream) => OwnHeads(stream)'
  <2> SUFFICES ASSUME OwnHeads(stream), NEW i \in 1 .. Len(stream'), stream'[i].line = "head"
               PROVE  /\ stream'[i].url = url /\ stream'[i].answer \in Answers[url]
                      /\ BodyFrom(stream', i, stream'[i].answer)
    BY <1>0 DEF OwnHeads, BodyFrom
  <2>1. i \in 0 .. n /\ i \in 1 .. Len(stream) /\ stream'[i] = stream[i]
    BY <1>0, <1>2, <1>5
  <2>2. /\ stream[i].url = url /\ stream[i].answer \in Answers[url]
        /\ BodyFrom(stream, i, stream[i].answer)
    BY <2>1 DEF OwnHeads
  <2>3. ASSUME NEW a, BodyFrom(stream, i, a) PROVE BodyFrom(stream', i, a)
    <3>1. BodyFrom(stream, i, a)'
      BY <1>8, <2>1, <2>3
    <3> QED
      BY <1>0, <3>1 DEF BodyFrom
  <2> QED
    BY <2>1, <2>2, <2>3
<1>10. (stream # <<>> /\ stream[1].line \in {"head", "eof"}) \/ stream = <<>>
         => stream'[1].line \in {"head", "eof"}
  <2>1. CASE n = 0
    BY <1>5, <2>1
  <2>2. CASE n # 0
    <3>1. 1 \in 1 .. n /\ stream # <<>>
      BY <1>0, <1>2, <2>2
    <3> QED
      BY <1>5, <3>1
  <2> QED
    BY <2>1, <2>2
<1>11. BodyFrom(stream, 0, answer) => BodyFrom(stream, 0, answer)'
  <2>1. ASSUME NEW a, BodyFrom(stream, 0, a) PROVE BodyFrom(stream', 0, a)
    <3>1. BodyFrom(stream, 0, a)'
      BY <1>2, <1>8, <2>1
    <3> QED
      BY <1>0, <3>1 DEF BodyFrom
  <2> QED
    BY <1>0, <2>1 DEF BodyFrom
<1>12. /\ Fresh' = Fresh /\ Allowed' = Allowed /\ Outcome' = Outcome
  BY <1>0 DEF Fresh, Allowed, Outcome, TextLeft
<1>13. StreamInv'
  BY <1>0, <1>7, <1>9, <1>10, <1>11, <1>12 DEF StreamInv
<1> QED
  BY <1>6, <1>13 DEF IInv

LEMMA NextInv == ASSUME IInv, OneSetting, [Next]_vars PROVE IInv'
<1>0. TypeOK /\ StreamInv
  BY DEF IInv
<1>1. CASE SendCommand
  BY <1>1, SendCommandInv
<1>2. CASE CannotConnect
  BY <1>2, CannotConnectInv
<1>3. CASE ParseHeader
  BY <1>3, ParseHeaderInv
<1>4. CASE NoHeader
  BY <1>4, NoHeaderInv
<1>5. CASE HeaderDown
  <2>1. pc # "idle" /\ Lost("connection_down", <<>>) /\ Close /\ host' = host
    BY <1>5 DEF HeaderDown
  <2> QED
    BY <2>1, LostInv
<1>6. CASE ReadBody
  BY <1>6, ReadBodyInv
<1>7. CASE ReadChunkedBody
  BY <1>7, ReadChunkedBodyInv
<1>8. CASE BodyDown
  BY <1>8, BodyTimedOutInv, ChunksCutInv DEF BodyDown
<1>9. CASE GetAfterHead
  <2>1. /\ pc = "answered" /\ pc' = "request" /\ stage' = "get" /\ result # "no_header"
        /\ UNCHANGED <<host, up, stream, arrived, url, result>>
    BY <1>9 DEF GetAfterHead, connection
  <2> QED
    BY <2>1, AnotherInv
<1>10. CASE GetAgain
  <2>1. /\ Close /\ TypeOK /\ pc' = "request" /\ stage' = "again"
        /\ url' \in URLs /\ host' = HostOf[url']
    BY <1>0, <1>10 DEF GetAgain, TypeOK, StreamInv
  <2> QED
    BY <2>1, ClosedInv
<1>11. RequestDone => result # "no_header"
  BY <1>0 DEF RequestDone, WillGetAgain, StreamInv, Fresh
<1>12. CASE Retry
  <2>1. /\ pc = "answered" /\ pc' = "request" /\ stage' \in {"head", "get"}
        /\ UNCHANGED <<host, up, stream, arrived, url, result>>
    BY <1>12 DEF Retry, RequestDone, FirstStage, connection
  <2>2. result # "no_header"
    BY <1>11, <1>12 DEF Retry
  <2> QED
    BY <2>1, <2>2, AnotherInv
<1>13. CASE Return
  <2>1. /\ pc = "answered" /\ pc' = "idle" /\ stage' \in {"head", "get", "again"}
        /\ UNCHANGED <<host, up, stream, arrived, url, result>>
    BY <1>0, <1>13 DEF Return, RequestDone, connection, TypeOK
  <2>2. result # "no_header"
    BY <1>11, <1>13 DEF Return
  <2> QED
    BY <2>1, <2>2, AnotherInv
<1>14. CASE Network
  BY <1>14, NetworkInv
<1>15. CASE PeerFails
  BY <1>15, PeerFailsInv
<1>16. CASE \E u \in URLs : Retrieve(u)
  BY <1>16, RetrieveInv
<1>17. CASE UNCHANGED vars
  <2>1. TypeOK'
    BY <1>0, <1>17 DEF vars, connection, TypeOK
  <2>2. StreamInv'
    BY <1>0, <1>17
       DEF vars, connection, StreamInv, NoHead, OwnHeads, BodyFrom, Fresh, Allowed, Outcome,
           TextLeft
  <2> QED
    BY <2>1, <2>2 DEF IInv
<1> QED
  BY <1>1, <1>2, <1>3, <1>4, <1>5, <1>6, <1>7, <1>8, <1>9, <1>10, <1>12, <1>13, <1>14,
     <1>15, <1>16, <1>17 DEF Next, Step, Request, HTTPRequest

(* Every reachable state of a retrieval: the only header that can be on the *)
(* connection while one is awaited is that of a request for this URL.       *)
THEOREM OnlyOwnHeaders == Spec => []IInv
<1>1. Init => IInv
  BY InitInv
<1>2. IInv /\ [Next]_vars => IInv'
  BY NextInv, OneSetting
<1> QED
  BY <1>1, <1>2, PTL DEF Spec

(* No document is lost to what an earlier response left behind.             *)
THEOREM HeaderAlwaysFound == Spec => []HeaderFound
<1>1. IInv => HeaderFound
  BY DEF IInv, StreamInv, HeaderFound
<1> QED
  BY <1>1, OnlyOwnHeaders, PTL

----------------------------------------------------------------------------
(* The refinement *)

LEMMA InitAsks == Init => promise!Init
BY DEF Init, promise!Init

LEMMA StepAsks == ASSUME IInv, [Next]_vars PROVE [promise!Next]_(promise!vars)
<1>0. TypeOK /\ StreamInv /\ NoURL \notin URLs
  BY DEF IInv, HTTPAssumption
<1>1. CASE \E u \in URLs : Retrieve(u)
  <2>1. PICK u \in URLs : Retrieve(u)
    BY <1>1
  <2>2. pc = "idle" /\ pc' = "request" /\ url' = u
    BY <2>1 DEF Retrieve
  <2>3. promise!Ask(u)
    BY <2>2 DEF promise!Ask
  <2> QED
    BY <2>3 DEF promise!Next
<1>2. CASE Return
  <2>1. /\ pc = "answered" /\ pc' = "idle" /\ url' = url /\ result' = result
        /\ contents' = contents /\ url \in URLs /\ Outcome
    BY <1>0, <1>2 DEF Return, RequestDone, TypeOK, StreamInv
  <2>2. ASSUME result = "connection_down", TextLeft(contents) PROVE promise!Return
    <3>1. PICK a \in Answers[url] : \E n, size \in 0 .. Len(a.lines) :
            /\ n < size => a.framing = "chunked"
            /\ size <= MaxDocumentSize
            /\ contents = promise!Padded(url, a, n, size)
      BY <2>2 DEF TextLeft
    <3>2. /\ (IF pc = "idle" THEN NoURL ELSE url) = url
          /\ (IF pc # "idle" THEN <<>> ELSE contents)' = contents
          /\ (IF pc # "idle" THEN "pending" ELSE result)' = "connection_down"
          /\ (IF pc = "idle" THEN NoURL ELSE url)' = NoURL
      BY <2>1, <2>2
    <3>3. promise!Down(IF pc = "idle" THEN NoURL ELSE url)
      BY <3>1, <3>2 DEF promise!Down
    <3> QED
      BY <1>0, <2>1, <3>2, <3>3 DEF promise!Return
  <2>3. ASSUME ~(result = "connection_down" /\ TextLeft(contents)) PROVE promise!Return
    BY <1>0, <2>1, <2>3 DEF promise!Return, Outcome
  <2> QED
    BY <2>2, <2>3 DEF promise!Next
<1>3. CASE pc # "idle" /\ pc' # "idle" /\ url' = url
  BY <1>3 DEF promise!vars
<1>4. CASE UNCHANGED <<pc, url, result, contents>>
  BY <1>4 DEF promise!vars
<1>5. Request => pc # "idle" /\ pc' # "idle" /\ url' = url
  BY DEF Request, HTTPRequest, SendCommand, CannotConnect, ParseHeader, NoHeader, HeaderDown,
         ReadBody, ReadChunkedBody, BodyDown, BodyTimedOut, ChunksCut, GetAfterHead,
         GetAgain, Lost, Finish
<1>6. Retry => pc # "idle" /\ pc' # "idle" /\ url' = url
  BY DEF Retry, RequestDone
<1>7. Network \/ PeerFails \/ UNCHANGED vars => UNCHANGED <<pc, url, result, contents>>
  BY DEF Network, PeerFails, vars
<1> QED
  BY <1>1, <1>2, <1>3, <1>4, <1>5, <1>6, <1>7 DEF Next, Step

(* Document::Retrieve keeps its promise: what it returns for a URL is an    *)
(* answer to a request for that URL, at most cut, or a failure, and the     *)
(* text that a failure leaves behind begins like an answer for that URL.    *)
THEOREM AnswersBelong == Spec => AnswersAreOwn
<1>1. Init => promise!Init
  BY InitAsks
<1>2. IInv /\ [Next]_vars => [promise!Next]_(promise!vars)
  BY StepAsks
<1> QED
  BY <1>1, <1>2, OnlyOwnHeaders, PTL DEF Spec, AnswersAreOwn, promise!Spec

----------------------------------------------------------------------------
(* Faults: every request that fails, failed for one that happened after the *)
(* request before it.                                                       *)

InVain == \E a \in Answers[url] : WaitedForInVain(a)

(* More went wrong than requests were given up before this one. *)
Excused == faults > NumRetries

(* Where nothing did since, the connection holds all that is sent for the   *)
(* request in hand.                                                         *)
Undisturbed ==
  /\ pc = "request" => ~PeerClosed
  /\ pc = "header" => \E i \in 1 .. Len(stream) :
                        stream[i].line = "head" /\ Complete(stream, i, stream[i].answer)
  /\ pc = "body" => Complete(stream, 0, answer)
  /\ pc = "answered" => /\ result \notin {"connection_down", "no_connection"}
                        /\ result # "no_header" => ~PeerClosed

FaultsInv ==
  /\ faults \in Nat /\ NumRetries \in Nat
  /\ pc = "body" => method = "GET"
  /\ pc = "answered" /\ result \in {"connection_down", "no_connection"} => ~up
  /\ pc # "idle" /\ ~InVain => faults >= NumRetries /\ (Excused \/ Undisturbed)
  /\ FaultsTolerated

LEMMA EndFacts ==
  ASSUME NEW s \in Seq(Pieces)
  PROVE  /\ (\E i \in DOMAIN s : s[i].line = "eof") <=> ~NoEnd(s)
         /\ s = <<>> => NoEnd(s)
BY DEF NoEnd

(* There is one header at most. *)
LEMMA OneHead ==
  ASSUME IInv, pc = "header", NEW n \in 1 .. Len(stream), Plain(n - 1), StatusLineAt(n),
         NEW i \in 1 .. Len(stream), stream[i].line = "head"
  PROVE  i = n
<1>1. stream \in Seq(Pieces) /\ Len(stream) \in Nat /\ OwnHeads(stream) /\ url \in URLs
  BY LenProperties DEF IInv, TypeOK, StreamInv
<1>2. stream[n].answer \in Answers[url] /\ BodyFrom(stream, n, stream[n].answer)
  BY <1>1 DEF OwnHeads, StatusLineAt
<1>3. stream[n].answer \in UNION {Answers[u] : u \in URLs} /\ n \in 0 .. Len(stream)
  BY <1>1, <1>2
<1>4. \A k \in (n + 1) .. Len(stream) : stream[k].line # "head"
  BY <1>1, <1>2, <1>3, BodyShift
<1>5. \A k \in 1 .. n - 1 : stream[k].line # "head"
  BY <1>1 DEF Plain
<1> QED
  BY <1>1, <1>4, <1>5

(* A response that was read leaves no end of the connection behind. *)
LEMMA FinishUndisturbed ==
  ASSUME IInv, NEW a \in Answers[url], NEW text, NEW n \in 0 .. arrived, Finish(a, text, n),
         NEW i \in Nat, Complete(stream, i, a)
  PROVE  Undisturbed'
<1>1. /\ stream \in Seq(Pieces) /\ Len(stream) \in Nat /\ n \in 0 .. Len(stream)
      /\ pc' = "answered" /\ result' = DocumentStatus(a)
  BY LenProperties DEF IInv, TypeOK, Finish
<1>2. result' \notin {"connection_down", "no_connection", "no_header"}
  BY <1>1 DEF DocumentStatus
<1>3. CASE Close
  <2>1. stream' = <<>>
    BY <1>3 DEF Close
  <2>2. ~PeerClosed'
    BY <2>1 DEF PeerClosed
  <2> QED
    BY <1>1, <1>2, <2>2 DEF Undisturbed
<1>4. CASE Read(n) /\ ~a.close
  <2>1. NoEnd(stream)
    BY <1>4 DEF Complete, NoEnd
  <2>2. /\ stream' \in Seq(Pieces) /\ Len(stream') = Len(stream) - n
        /\ \A k \in 1 .. Len(stream') : stream'[k] = stream[n + k]
    BY <1>1, <1>4, DropFacts DEF Read, Drop
  <2>3. \A k \in 1 .. Len(stream') : n + k \in 1 .. Len(stream)
    BY <1>1, <2>2
  <2>4. NoEnd(stream')
    BY <2>1, <2>2, <2>3 DEF NoEnd
  <2>5. ~PeerClosed'
    BY <2>2, <2>4, EndFacts DEF PeerClosed
  <2> QED
    BY <1>1, <1>2, <2>5 DEF Undisturbed
<1> QED
  BY <1>3, <1>4 DEF Finish, StaysUp

LEMMA SentWhole ==
  ASSUME IInv, Undisturbed, SendCommand
  PROVE  Undisturbed'
<1>0. /\ TypeOK /\ StreamInv /\ url \in URLs /\ pc = "request" /\ pc' = "header" /\ stage' = stage
      /\ stream \in Seq(Pieces) /\ arrived \in 0 .. Len(stream) /\ ~PeerClosed
  BY DEF IInv, TypeOK, SendCommand, Undisturbed
<1>1. PICK a \in Answers[url] : Write(Response(a))
  BY DEF SendCommand
<1>2. PICK left \in Flushed : stream' = left \o Response(a)
  BY <1>0, <1>1 DEF Write
<1>3. NoEnd(stream) /\ NoHead(stream)
  BY <1>0, EndFacts DEF PeerClosed, StreamInv
<1>4. left \in Seq(Pieces) /\ Len(left) \in Nat /\ NoEnd(left) /\ NoHead(left)
  BY <1>0, <1>3, FlushedFacts, LenProperties
<1>5. /\ Len(stream') >= Len(left) + 1 /\ Len(stream') \in Nat
      /\ stream'[Len(left) + 1].line = "head" /\ stream'[Len(left) + 1].answer = a
      /\ Complete(stream', Len(left) + 1, a)
  BY <1>0, <1>2, <1>4, WriteFacts, LenProperties
<1>6. Len(left) + 1 \in 1 .. Len(stream')
  BY <1>4, <1>5
<1>7. Complete(stream, Len(left) + 1, a)'
  BY <1>0, <1>5 DEF Complete, Body, method
<1> QED
  BY <1>0, <1>5, <1>6, <1>7 DEF Undisturbed

LEMMA HeaderWhole ==
  ASSUME IInv, Undisturbed, ParseHeader
  PROVE  Undisturbed'
<1>0. /\ TypeOK /\ StreamInv /\ url \in URLs /\ pc = "header"
      /\ stream \in Seq(Pieces) /\ arrived \in 0 .. Len(stream) /\ Len(stream) \in Nat
      /\ OwnHeads(stream)
  BY LenProperties DEF IInv, TypeOK, StreamInv, ParseHeader
<1>1. PICK n \in 1 .. arrived :
        /\ EndsHeader(n) /\ StatusLineAt(n)
        /\ answer' = stream[n].answer
        /\ IF DocumentStatus(stream[n].answer) = "ok" /\ method = "GET"
           THEN /\ pc' = "body"
                /\ Read(n)
                /\ UNCHANGED <<host, url, stage, contents, result, faults>>
           ELSE Finish(stream[n].answer, <<>>, n)
  BY DEF ParseHeader
<1>2. n \in 1 .. Len(stream) /\ n \in 0 .. Len(stream) /\ n \in 0 .. arrived /\ n \in Nat
  BY <1>0
<1> DEFINE a == stream[n].answer
<1>3. a \in Answers[url]
  BY <1>0, <1>1, <1>2 DEF OwnHeads, StatusLineAt
<1>4. Complete(stream, n, a)
  <2>1. PICK i \in 1 .. Len(stream) :
          stream[i].line = "head" /\ Complete(stream, i, stream[i].answer)
    BY <1>0 DEF Undisturbed
  <2>2. Plain(n - 1)
    BY <1>1 DEF EndsHeader
  <2>3. i = n
    BY <1>0, <1>1, <1>2, <2>1, <2>2, OneHead
  <2> QED
    BY <2>1, <2>3
<1> HIDE DEF a
<1>5. CASE pc' = "body" /\ Read(n) /\ answer' = a /\ stage' = stage
  <2>1. Complete(Drop(n), 0, a)
    BY <1>0, <1>2, <1>3, <1>4, CompleteShift DEF Drop
  <2>2. Complete(stream, 0, answer)'
    BY <1>5, <2>1 DEF Read, Complete, Body, method
  <2> QED
    BY <1>5, <2>2 DEF Undisturbed
<1>6. CASE Finish(a, <<>>, n)
  BY <1>2, <1>3, <1>4, <1>6, FinishUndisturbed
<1> QED
  BY <1>1, <1>5, <1>6 DEF a

LEMMA BodyWhole ==
  ASSUME IInv, Undisturbed, ReadBody \/ ReadChunkedBody
  PROVE  Undisturbed'
<1>0. /\ TypeOK /\ StreamInv /\ url \in URLs /\ pc = "body" /\ Complete(stream, 0, answer)
      /\ stream \in Seq(Pieces) /\ arrived \in 0 .. Len(stream) /\ Len(stream) \in Nat
      /\ answer \in Answers[url]
  BY LenProperties DEF IInv, TypeOK, StreamInv, ReadBody, ReadChunkedBody, Undisturbed
<1>1. \E text : \E n \in 0 .. arrived : Finish(answer, text, n)
  <2>1. CASE ReadBody
    BY <2>1 DEF ReadBody
  <2>2. CASE ReadChunkedBody
    <3>1. Len(answer.lines) \in Nat
      BY <1>0, AnswerFacts
    <3> QED
      BY <1>0, <2>2, <3>1 DEF ReadChunkedBody
  <2> QED
    BY <2>1, <2>2
<1> QED
  BY <1>0, <1>1, FinishUndisturbed

(* Nothing more to read, and no end: the code waits in vain. *)
LEMMA NoBodyDown ==
  ASSUME IInv, Undisturbed, BodyDown, method = "GET", faults \in Nat, UNCHANGED faults
  PROVE  InVain
<1>0. /\ TypeOK /\ StreamInv /\ url \in URLs /\ pc = "body" /\ Complete(stream, 0, answer)
      /\ stream \in Seq(Pieces) /\ arrived \in 0 .. Len(stream) /\ Len(stream) \in Nat
      /\ answer \in Answers[url] /\ DocumentStatus(answer) = "ok"
  BY LenProperties DEF IInv, TypeOK, StreamInv, BodyDown, BodyTimedOut, ChunksCut, Undisturbed
<1>1. /\ Len(answer.lines) \in Nat
      /\ answer.framing \in {"length", "chunked", "until_close", "none"}
      /\ answer.framing = "until_close" => answer.close
      /\ answer.framing = "none" => Len(answer.lines) = 0
  <2>1. /\ answer \in Answer
        /\ answer.framing = "until_close" => answer.close
        /\ answer.framing = "none" => answer.lines = <<>>
    BY <1>0 DEF HTTPAssumption
  <2>2. answer.framing \in {"length", "chunked", "until_close", "none"}
    BY <2>1 DEF Answer
  <2>3. Len(answer.lines) \in Nat
    BY <1>0, AnswerFacts
  <2> QED
    BY <2>1, <2>2, <2>3
<1> DEFINE all == Len(Body(answer))
           wanted == IF answer.framing = "chunked" THEN Len(answer.lines) + 1 ELSE BytesToGo
<1>2. /\ answer.framing = "chunked" => all = Len(answer.lines) + 1
      /\ answer.framing # "chunked" => all = Len(answer.lines)
      /\ all \in Nat
  BY <1>0, <1>1, BodyLength
<1>3. /\ Len(stream) = 0 + all + (IF answer.close THEN 1 ELSE 0)
      /\ \A k \in 1 .. Len(stream) : stream[k].line = "eof" <=> answer.close /\ k = Len(stream)
  BY <1>0 DEF Complete
<1>4. /\ answer.close => Len(stream) = all + 1
      /\ ~answer.close => Len(stream) = all
  <2> HIDE DEF all
  <2> QED
    BY <1>0, <1>3, <1>2
<1>5. /\ answer.framing = "chunked" => wanted \in Nat /\ wanted = all
      /\ answer.framing = "length" => wanted \in Nat /\ wanted <= all
  <2> HIDE DEF all
  <2>1. answer.framing = "chunked" => wanted = Len(answer.lines) + 1
    OBVIOUS
  <2>2. answer.framing = "length" /\ Len(answer.lines) <= MaxDocumentSize
          => wanted = Len(answer.lines)
    BY DEF BytesToGo
  <2>3. answer.framing = "length" /\ ~(Len(answer.lines) <= MaxDocumentSize)
          => wanted = MaxDocumentSize
    BY DEF BytesToGo
  <2>4. MaxDocumentSize \in Nat
    BY DEF HTTPAssumption
  <2> HIDE DEF wanted
  <2>5. answer.framing = "length" => wanted \in Nat /\ wanted <= all
    <3> SUFFICES ASSUME answer.framing = "length" PROVE wanted \in Nat /\ wanted <= all
      OBVIOUS
    <3>1. all = Len(answer.lines)
      BY <1>2
    <3>2. CASE Len(answer.lines) <= MaxDocumentSize
      BY <1>1, <2>2, <3>1, <3>2
    <3>3. CASE ~(Len(answer.lines) <= MaxDocumentSize)
      BY <1>1, <2>3, <2>4, <3>1, <3>3
    <3> QED
      BY <3>2, <3>3
  <2> QED
    BY <1>2, <2>1, <2>5
<1>6. \/ /\ answer.framing = "chunked"
         /\ \E n \in 1 .. arrived : n <= wanted /\ stream[n].line = "eof"
      \/ arrived < wanted /\ BodyAt(arrived) /\ arrived = Len(stream)
  <2>1. CASE BodyTimedOut
    BY <1>0, <2>1 DEF BodyTimedOut, Failed
  <2>2. CASE ChunksCut
    <3>1. PICK n \in 0 .. Len(answer.lines) : n < arrived /\ stream[n + 1].line = "eof"
      BY <2>2 DEF ChunksCut
    <3>2. n + 1 \in 1 .. arrived /\ answer.framing = "chunked" /\ n + 1 <= Len(answer.lines) + 1
      BY <1>0, <1>1, <2>2, <3>1 DEF ChunksCut
    <3> QED
      BY <3>1, <3>2
  <2> QED
    BY <2>1, <2>2 DEF BodyDown
<1> HIDE DEF wanted, all
<1>7. ASSUME answer.framing = "chunked", NEW n \in 1 .. arrived, n <= wanted, stream[n].line = "eof"
      PROVE  FALSE
  <2>1. n \in 1 .. Len(stream)
    BY <1>0
  <2>2. answer.close /\ n = Len(stream)
    BY <1>3, <1>7, <2>1
  <2> QED
    BY <1>5, <1>2, <1>4, <1>7, <2>2
<1>8. ASSUME arrived < wanted, BodyAt(arrived), arrived = Len(stream)
      PROVE  WaitedForInVain(answer)
  <2>1. ~answer.close
    <3> SUFFICES ASSUME answer.close PROVE FALSE
      OBVIOUS
    <3>1. Len(stream) \in 1 .. Len(stream)
      BY <1>0, <1>2, <1>4
    <3>2. stream[Len(stream)].line = "eof"
      BY <1>3, <3>1
    <3> QED
      BY <1>8, <3>1, <3>2 DEF BodyAt
  <2>2. arrived = all
    BY <1>8, <1>4, <2>1
  <2>3. answer.framing = "none"
    BY <1>1, <1>5, <1>8, <1>2, <2>1, <2>2
  <2> QED
    BY <1>0, <2>1, <2>3 DEF WaitedForInVain
<1> QED
  BY <1>0, <1>6, <1>7, <1>8 DEF InVain

(* An end of the connection before the header was not meant by the server.  *)
LEMMA NoHeaderDown ==
  ASSUME IInv, Undisturbed, HeaderDown, faults \in Nat, UNCHANGED faults
  PROVE  FALSE
<1>0. /\ pc = "header" /\ arrived \in 0 .. Len(stream) /\ Len(stream) \in Nat
  BY LenProperties DEF IInv, TypeOK, HeaderDown
<1>1. PICK n \in 1 .. arrived : Plain(n - 1) /\ stream[n].line = "eof"
  BY DEF HeaderDown, Failed
<1>2. PICK i \in 1 .. Len(stream) :
        stream[i].line = "head" /\ Complete(stream, i, stream[i].answer)
  BY <1>0 DEF Undisturbed
<1>3. n \in 1 .. Len(stream)
  BY <1>0
<1>4. n = Len(stream)
  BY <1>1, <1>2, <1>3 DEF Complete
<1>5. i # n
  BY <1>1, <1>2
<1>6. i \in 1 .. n - 1
  BY <1>0, <1>4, <1>5
<1> QED
  BY <1>1, <1>2, <1>6 DEF Plain

(* A step within one retrieval that asks for nothing again. *)
LEMMA StillInHand ==
  ASSUME FaultsInv, pc # "idle", pc' # "idle", url' = url, NumRetries' = NumRetries,
         faults' = faults \/ faults' = faults + 1,
         faults' = faults /\ ~InVain /\ Undisturbed => Undisturbed',
         pc' = "body" => method' = "GET",
         pc' = "answered" /\ result' \in {"connection_down", "no_connection"} => ~up'
  PROVE  FaultsInv'
<1>1. faults \in Nat /\ NumRetries \in Nat /\ faults' \in Nat /\ NumRetries' \in Nat
  BY DEF FaultsInv
<1>2. InVain' <=> InVain
  BY DEF InVain
<1>3. ASSUME ~InVain PROVE faults' >= NumRetries' /\ (Excused' \/ Undisturbed')
  <2>1. faults >= NumRetries /\ (Excused \/ Undisturbed)
    BY <1>3 DEF FaultsInv
  <2>2. CASE faults' = faults + 1
    BY <1>1, <2>1, <2>2 DEF Excused
  <2>3. CASE faults' = faults
    BY <1>1, <1>3, <2>1, <2>3 DEF Excused
  <2> QED
    BY <2>2, <2>3
<1>4. FaultsTolerated'
  BY DEF FaultsTolerated
<1> QED
  BY <1>1, <1>2, <1>3, <1>4 DEF FaultsInv

LEMMA ClosedUndisturbed == ASSUME stream' = <<>> PROVE ~PeerClosed'
BY DEF PeerClosed

LEMMA RequestFaults ==
  ASSUME IInv, FaultsInv, Request, UNCHANGED NumRetries
  PROVE  FaultsInv'
<1>0. /\ TypeOK /\ StreamInv /\ faults \in Nat
  BY DEF IInv, FaultsInv
<1>1. CASE SendCommand
  <2>1. /\ pc = "request" /\ pc' = "header" /\ url' = url /\ faults' = faults
    BY <1>1 DEF SendCommand
  <2> QED
    BY <1>1, <2>1, SentWhole, StillInHand
<1>2. CASE CannotConnect
  <2>1. /\ pc = "request" /\ pc' = "answered" /\ url' = url /\ faults' = faults + 1
        /\ ~up'
    BY <1>2 DEF CannotConnect, Lost, Failed, connection
  <2>2. faults' # faults
    BY <1>0, <2>1
  <2> QED
    BY <2>1, <2>2, StillInHand
<1>3. CASE ParseHeader
  <2>1. /\ pc = "header" /\ pc' \in {"body", "answered"} /\ url' = url /\ faults' = faults
        /\ pc' = "body" => method = "GET" /\ stage' = stage
        /\ pc' = "answered" => \E a : result' = DocumentStatus(a)
    BY <1>3 DEF ParseHeader, Finish
  <2>2. pc' = "answered" => result' \notin {"connection_down", "no_connection"}
    BY <2>1 DEF DocumentStatus
  <2>3. pc' = "body" => method' = "GET"
    BY <2>1 DEF method
  <2> QED
    BY <1>3, <2>1, <2>2, <2>3, HeaderWhole, StillInHand
<1>4. CASE NoHeader
  <2>1. /\ pc = "header" /\ pc' = "answered" /\ url' = url /\ faults' = faults
        /\ result' = "no_header"
    BY <1>4 DEF NoHeader, Lost
  <2>2. Undisturbed'
    BY <2>1 DEF Undisturbed
  <2> QED
    BY <2>1, <2>2, StillInHand
<1>5. CASE HeaderDown
  <2>1. /\ pc = "header" /\ pc' = "answered" /\ url' = url /\ ~up'
        /\ faults' = faults \/ faults' = faults + 1
    BY <1>5 DEF HeaderDown, Lost, Close, Failed
  <2>2. ~(faults' = faults /\ Undisturbed)
    BY <1>0, <1>5, NoHeaderDown
  <2> QED
    BY <2>1, <2>2, StillInHand
<1>6. CASE ReadBody \/ ReadChunkedBody
  <2>1. /\ pc = "body" /\ pc' = "answered" /\ url' = url /\ faults' = faults
        /\ result' = DocumentStatus(answer)
    BY <1>6 DEF ReadBody, ReadChunkedBody, Finish
  <2>2. result' \notin {"connection_down", "no_connection"}
    BY <2>1 DEF DocumentStatus
  <2> QED
    BY <1>6, <2>1, <2>2, BodyWhole, StillInHand
<1>7. CASE BodyDown
  <2>1. /\ pc = "body" /\ pc' = "answered" /\ url' = url /\ ~up'
        /\ faults' = faults \/ faults' = faults + 1
    BY <1>7 DEF BodyDown, BodyTimedOut, ChunksCut, Lost, Close, Failed
  <2>2. method = "GET"
    BY <2>1 DEF FaultsInv
  <2>3. ~(faults' = faults /\ Undisturbed /\ ~InVain)
    BY <1>0, <1>7, <2>2, NoBodyDown
  <2> QED
    BY <2>1, <2>3, StillInHand
<1>8. CASE GetAfterHead
  <2>1. /\ pc = "answered" /\ pc' = "request" /\ url' = url /\ faults' = faults
        /\ result = "ok" /\ stream' = stream
    BY <1>8 DEF GetAfterHead, connection
  <2>2. Undisturbed => Undisturbed'
    BY <2>1 DEF Undisturbed, PeerClosed
  <2> QED
    BY <2>1, <2>2, StillInHand
<1>9. CASE GetAgain
  <2>1. /\ pc = "answered" /\ pc' = "request" /\ url' = url /\ faults' = faults
        /\ stream' = <<>>
    BY <1>9 DEF GetAgain, Close
  <2>2. Undisturbed'
    BY <2>1, ClosedUndisturbed DEF Undisturbed
  <2> QED
    BY <2>1, <2>2, StillInHand
<1> QED
  BY <1>1, <1>2, <1>3, <1>4, <1>5, <1>6, <1>7, <1>8, <1>9 DEF Request, HTTPRequest

(* Another request is made on a new connection, and for a fault. *)
LEMMA RetryFaults == ASSUME IInv, FaultsInv, Retry PROVE FaultsInv'
<1>1. /\ StreamInv /\ RequestDone /\ pc = "answered" /\ pc' = "request"
      /\ ShouldWeRetry(result) /\ NumRetries' = NumRetries + 1
      /\ stream' = stream /\ url' = url /\ faults' = faults
      /\ faults \in Nat /\ NumRetries \in Nat
  BY DEF IInv, FaultsInv, Retry, RequestDone, WillRetry, connection
<1>2. result \in {"connection_down", "no_connection"}
  BY <1>1 DEF ShouldWeRetry, StreamInv, RequestDone, WillGetAgain, Fresh
<1>3. stream = <<>>
  BY <1>1, <1>2 DEF FaultsInv, StreamInv
<1>4. Undisturbed'
  BY <1>1, <1>3, ClosedUndisturbed DEF Undisturbed
<1>5. InVain' <=> InVain
  BY <1>1 DEF InVain
<1>6. ASSUME ~InVain PROVE faults' >= NumRetries'
  <2>1. Excused
    BY <1>1, <1>2, <1>6 DEF FaultsInv, Undisturbed
  <2> QED
    BY <1>1, <2>1 DEF Excused
<1>7. FaultsTolerated'
  BY <1>1 DEF FaultsTolerated
<1> QED
  BY <1>1, <1>4, <1>5, <1>6, <1>7 DEF FaultsInv

LEMMA ReturnFaults == ASSUME IInv, FaultsInv, Return PROVE FaultsInv'
<1>1. /\ StreamInv /\ RequestDone /\ pc = "answered" /\ pc' = "idle" /\ ~WillRetry
      /\ url' = url /\ faults' = faults /\ result' = result /\ NumRetries' = NumRetries
      /\ faults \in Nat /\ NumRetries \in Nat
  BY DEF IInv, FaultsInv, Return, RequestDone
<1>2. ASSUME result \in {"connection_down", "no_connection", "no_header"}, ~InVain
      PROVE  faults >= num_retries
  <2>1. result \in {"connection_down", "no_connection"}
    BY <1>1, <1>2 DEF StreamInv, RequestDone, WillGetAgain, Fresh
  <2>2. Excused
    BY <1>1, <1>2, <2>1 DEF FaultsInv, Undisturbed
  <2>3. ~(NumRetries + 1 < num_retries)
    BY <1>1, <2>1 DEF WillRetry, ShouldWeRetry
  <2> QED
    BY <1>1, <2>2, <2>3 DEF Excused, DocumentAssumption
<1>3. FaultsTolerated'
  BY <1>1, <1>2 DEF FaultsTolerated, InVain
<1> QED
  BY <1>1, <1>3 DEF FaultsInv

(* A new retrieval starts the count, with the close the peer made meanwhile *)
(* where there was one.                                                     *)
LEMMA RetrieveFaults == ASSUME IInv, FaultsInv, NEW u \in URLs, Retrieve(u) PROVE FaultsInv'
<1>1. /\ pc' = "request" /\ NumRetries' = 0 /\ SetConnection(HostOf[u])
      /\ faults' = IF host = HostOf[u] /\ PeerClosed THEN 1 ELSE 0
  BY DEF Retrieve
<1>2. Excused' \/ ~PeerClosed'
  <2>1. CASE host = HostOf[u] /\ PeerClosed
    BY <1>1, <2>1 DEF Excused
  <2>2. CASE host = HostOf[u] /\ ~PeerClosed
    BY <1>1, <2>2 DEF SetConnection, PeerClosed
  <2>3. CASE host # HostOf[u]
    BY <1>1, <2>3, ClosedUndisturbed DEF SetConnection, Close
  <2> QED
    BY <2>1, <2>2, <2>3
<1>3. faults' \in Nat /\ faults' >= NumRetries'
  BY <1>1
<1>4. FaultsTolerated'
  BY <1>1 DEF FaultsTolerated
<1> QED
  BY <1>1, <1>2, <1>3, <1>4 DEF FaultsInv, Undisturbed

LEMMA NetworkFaults ==
  ASSUME IInv, FaultsInv, UNCHANGED NumRetries,
         Network \/ PeerFails \/ UNCHANGED vars
  PROVE  FaultsInv'
<1>1. /\ UNCHANGED <<url, pc, stage, answer, result, up>>
      /\ \/ faults' = faults /\ stream' = stream
         \/ faults' = faults + 1
      /\ faults \in Nat
  BY DEF FaultsInv, Network, PeerFails, Failed, Deliver, PeerCloses, vars, connection
<1>2. CASE pc = "idle"
  <2>1. FaultsTolerated'
    <3>1. FaultsTolerated /\ num_retries \in Nat
      BY DEF FaultsInv, DocumentAssumption
    <3>2. faults >= num_retries => faults' >= num_retries
      BY <1>1, <3>1
    <3> QED
      BY <1>1, <3>1, <3>2 DEF FaultsTolerated
  <2> QED
    BY <1>1, <1>2, <2>1 DEF FaultsInv
<1>3. CASE pc # "idle"
  <2>1. ASSUME stream' = stream, Undisturbed PROVE Undisturbed'
    <3>1. PeerClosed' <=> PeerClosed
      BY <1>1, <2>1 DEF PeerClosed
    <3>2. ASSUME NEW i, NEW a PROVE Complete(stream, i, a)' <=> Complete(stream, i, a)
      <4>1. Body(a)' = Body(a)
        BY <1>1 DEF Body, method
      <4> QED
        BY <2>1, <4>1 DEF Complete
    <3>3. pc' = "header" => \E i \in 1 .. Len(stream') :
            stream'[i].line = "head" /\ Complete(stream, i, stream[i].answer)'
      BY <1>1, <2>1, <3>2 DEF Undisturbed
    <3>4. pc' = "body" => Complete(stream, 0, answer)'
      BY <1>1, <2>1, <3>2 DEF Undisturbed
    <3> QED
      BY <1>1, <2>1, <3>1, <3>3, <3>4 DEF Undisturbed
  <2>2. faults' = faults => stream' = stream
    BY <1>1
  <2>3. pc = "body" => method' = "GET"
    BY <1>1 DEF FaultsInv, method
  <2>4. pc = "answered" /\ result \in {"connection_down", "no_connection"} => ~up
    BY DEF FaultsInv
  <2> QED
    BY <1>1, <1>3, <2>1, <2>2, <2>3, <2>4, StillInHand
<1> QED
  BY <1>2, <1>3

LEMMA FaultsStep == ASSUME IInv, FaultsInv, [Next]_vars PROVE FaultsInv'
<1>1. UNCHANGED vars => UNCHANGED NumRetries
  BY DEF vars
<1> QED
  BY <1>1, RequestFaults, RetryFaults, ReturnFaults, RetrieveFaults, NetworkFaults DEF Next, Step

(* A retrieval that fails has met as many faults as it may make requests:   *)
(* no request of Document::Retrieve fails for a fault that another one has  *)
(* failed for, whatever the connection was left in by it.                   *)
THEOREM FaultsAreTolerated == Spec => []FaultsTolerated
<1>1. Init => FaultsInv
  BY DEF Init, FaultsInv, FaultsTolerated
<1>2. IInv /\ FaultsInv /\ [Next]_vars => FaultsInv'
  BY FaultsStep
<1>3. FaultsInv => FaultsTolerated
  BY DEF FaultsInv
<1> QED
  BY <1>1, <1>2, <1>3, OnlyOwnHeaders, PTL DEF Spec

-----------------------------------------------------------------------------
(* The jar *)

LEMMA JarLooksOn == ASSUME [NextCookies]_allVars PROVE [Next]_vars
<1>1. CASE StepCookies
  BY <1>1 DEF StepCookies, HeaderRead, HeaderCut, Step, Request, HTTPRequest, Next
<1>2. CASE Tick
  BY <1>2 DEF Tick
<1>3. CASE UNCHANGED allVars
  BY <1>3 DEF allVars
<1> QED
  BY <1>1, <1>2, <1>3 DEF NextCookies, NetworkCookies, Next

(* The jar looks on: cookies are read from headers and written to requests, *)
(* but no retrieval takes another course for them, so all of the above is   *)
(* true of a dig with cookies.                                              *)
THEOREM CookiesDisturbNothing ==
  SpecCookies => [](HeaderFound /\ FaultsTolerated) /\ AnswersAreOwn
<1>1. InitCookies => IInv /\ FaultsInv /\ promise!Init
  BY InitInv, InitAsks DEF InitCookies, Init, FaultsInv, FaultsTolerated
<1>2. IInv /\ FaultsInv /\ [NextCookies]_allVars
        => IInv' /\ FaultsInv' /\ [promise!Next]_(promise!vars)
  BY JarLooksOn, NextInv, OneSetting, FaultsStep, StepAsks
<1>3. IInv /\ FaultsInv => HeaderFound /\ FaultsTolerated
  BY DEF IInv, StreamInv, HeaderFound, FaultsInv
<1> QED
  BY <1>1, <1>2, <1>3, PTL DEF SpecCookies, AnswersAreOwn, promise!Spec

----------------------------------------------------------------------------
(* Sequences of sequences *)

(* A non-empty set of numbers has a least member. *)
LEMMA LeastNumber ==
  ASSUME NEW S \in SUBSET Nat, S # {}
  PROVE  \E i \in S : \A j \in S : i <= j
<1> DEFINE R == {ss \in Nat \X Nat : ss[1] < ss[2]}
<1>1. IsWellFoundedOn(R, Nat)
  BY NatLessThanWellFounded DEF OpToRel
<1>2. \E i \in S : \A j \in S : <<j, i>> \notin R
  <2> HIDE DEF R
  <2> QED
    BY <1>1, WFMin, Zenon
<1>3. PICK i \in S : \A j \in S : <<j, i>> \notin R
  BY <1>2
<1>4. \A j \in S : j \in Nat /\ i \in Nat /\ ~(j < i)
  BY <1>3
<1> QED
  BY <1>4

(* So a set of numbers that has 0 and the successor of each is all of them, *)
(* up to a last one.                                                        *)
LEMMA UpTo ==
  ASSUME NEW n \in Nat, NEW S, 0 \in S,
         \A i \in 1 .. n : i - 1 \in S => i \in S
  PROVE  \A i \in 0 .. n : i \in S
<1> DEFINE Bad == {i \in 0 .. n : i \notin S}
<1>1. SUFFICES ASSUME Bad # {} PROVE FALSE
  OBVIOUS
<1>2. PICK i \in Bad : \A j \in Bad : i <= j
  <2>1. Bad \in SUBSET Nat
    OBVIOUS
  <2> HIDE DEF Bad
  <2> QED
    BY <1>1, <2>1, LeastNumber
<1>3. i \in 1 .. n /\ i - 1 \in 0 .. n /\ ~(i <= i - 1)
  OBVIOUS
<1>4. i - 1 \in S
  BY <1>2, <1>3
<1> QED
  BY <1>3, <1>4

(* FlattenSeq: each cell of the sequences has one position in the whole. *)
Cells(seqs, n) == {c \in (1 .. n) \X Nat : c[2] \in 1 .. Len(seqs[c[1]])}
Lays(flat, seqs, n, at) ==
  /\ at \in [1 .. Len(flat) -> Cells(seqs, n)]
  /\ \A k \in 1 .. Len(flat) : flat[k] = seqs[at[k][1]][at[k][2]]
  /\ \A k, l \in 1 .. Len(flat) : at[k] = at[l] => k = l
  /\ \A c \in Cells(seqs, n) : \E k \in 1 .. Len(flat) : at[k] = c

Flattens(f, seqs, n) ==
  f = [i \in 1 .. n |-> IF i = 1 THEN seqs[i] ELSE f[i - 1] \o seqs[i]]

LEMMA FlattensExists ==
  ASSUME NEW S, NEW seqs \in Seq(Seq(S))
  PROVE  \E f : Flattens(f, seqs, Len(seqs))
<1> DEFINE Good == {n \in Nat : \E f : Flattens(f, seqs, n)}
<1>1. 0 \in Good
  <2>1. Flattens([i \in 1 .. 0 |-> seqs], seqs, 0)
    BY DEF Flattens
  <2> QED
    BY <2>1
<1>2. ASSUME NEW n \in 1 .. Len(seqs), n - 1 \in Good PROVE n \in Good
  <2>1. PICK h : Flattens(h, seqs, n - 1)
    BY <1>2
  <2> DEFINE f == [i \in 1 .. n |-> IF i = 1 THEN seqs[i] ELSE h[i - 1] \o seqs[i]]
  <2>2. \A i \in 1 .. n - 1 : h[i] = f[i]
    <3>1. h = [i \in 1 .. n - 1 |-> IF i = 1 THEN seqs[i] ELSE h[i - 1] \o seqs[i]]
      BY <2>1 DEF Flattens
    <3>2. \A i \in 1 .. n - 1 : i \in 1 .. n
      OBVIOUS
    <3> QED
      BY <3>1, <3>2, Zenon
  <2>3. \A i \in 1 .. n : i # 1 => i - 1 \in 1 .. n - 1
    OBVIOUS
  <2>4. f = [i \in 1 .. n |-> IF i = 1 THEN seqs[i] ELSE f[i - 1] \o seqs[i]]
    BY <2>2, <2>3
  <2>5. Flattens(f, seqs, n)
    BY <2>4 DEF Flattens
  <2> QED
    BY <2>5
<1> HIDE DEF Good
<1>3. Len(seqs) \in 0 .. Len(seqs) /\ Len(seqs) \in Nat
  OBVIOUS
<1>4. Len(seqs) \in Good
  BY <1>1, <1>2, <1>3, UpTo
<1> QED
  BY <1>4 DEF Good

(* One sequence more. *)
LEMMA LaysOneMore ==
  ASSUME NEW S, NEW seqs \in Seq(Seq(S)), NEW n \in 1 .. Len(seqs),
         NEW flat \in Seq(S), NEW at, Lays(flat, seqs, n - 1, at)
  PROVE  \E more : Lays(flat \o seqs[n], seqs, n, more)
<1> DEFINE s == seqs[n]
           whole == flat \o s
           m == Len(flat)
           more == [k \in 1 .. Len(whole) |-> IF k <= m THEN at[k] ELSE <<n, k - m>>]
<1>1. s \in Seq(S) /\ m \in Nat /\ Len(s) \in Nat
  BY ElementOfSeq
<1>2. /\ Len(whole) = m + Len(s)
      /\ \A k \in 1 .. Len(whole) : whole[k] = IF k <= m THEN flat[k] ELSE s[k - m]
  BY <1>1, ConcatProperties
<1>3. \A k \in 1 .. m : at[k] \in Cells(seqs, n - 1) /\ at[k] \in Cells(seqs, n) /\ at[k][1] # n
  <2>1. \A k \in 1 .. m : at[k] \in Cells(seqs, n - 1)
    BY DEF Lays
  <2>2. \A c \in Cells(seqs, n - 1) : c \in Cells(seqs, n) /\ c[1] # n
    BY DEF Cells
  <2> QED
    BY <2>1, <2>2
<1>4. \A j \in 1 .. Len(s) : <<n, j>> \in Cells(seqs, n)
  BY <1>1 DEF Cells
<1>5. \A c \in Cells(seqs, n) : c \in Cells(seqs, n - 1) \/ \E j \in 1 .. Len(s) : c = <<n, j>>
  BY <1>1 DEF Cells
<1> HIDE DEF s, whole, m
<1>6. \A k \in 1 .. Len(whole) : /\ more[k] = IF k <= m THEN at[k] ELSE <<n, k - m>>
                                 /\ k <= m => k \in 1 .. m
                                 /\ ~(k <= m) => k - m \in 1 .. Len(s)
  BY <1>1, <1>2
<1>7. \A k \in 1 .. Len(whole) : more[k] \in Cells(seqs, n)
  BY <1>3, <1>4, <1>6
<1>8. ASSUME NEW k \in 1 .. Len(whole) PROVE whole[k] = seqs[more[k][1]][more[k][2]]
  <2>1. CASE k <= m
    BY <1>2, <1>6, <2>1 DEF Lays, m
  <2>2. CASE ~(k <= m)
    BY <1>2, <1>6, <2>2 DEF s
  <2> QED
    BY <2>1, <2>2
<1>9. ASSUME NEW k \in 1 .. Len(whole), NEW l \in 1 .. Len(whole), more[k] = more[l]
      PROVE  k = l
  <2>1. CASE k <= m /\ l <= m
    BY <1>6, <1>9, <2>1 DEF Lays, m
  <2>2. CASE k <= m /\ ~(l <= m)
    BY <1>3, <1>6, <1>9, <2>2
  <2>3. CASE ~(k <= m) /\ l <= m
    BY <1>3, <1>6, <1>9, <2>3
  <2>4. CASE ~(k <= m) /\ ~(l <= m)
    <3>1. k - m = l - m
      BY <1>6, <1>9, <2>4
    <3>2. k \in Int /\ l \in Int
      OBVIOUS
    <3> QED
      BY <1>1, <3>1, <3>2
  <2> QED
    BY <2>1, <2>2, <2>3, <2>4
<1>10. ASSUME NEW c \in Cells(seqs, n) PROVE \E k \in 1 .. Len(whole) : more[k] = c
  <2>1. CASE c \in Cells(seqs, n - 1)
    <3>1. PICK k \in 1 .. m : at[k] = c
      BY <2>1 DEF Lays, m
    <3>2. k \in 1 .. Len(whole) /\ k <= m
      BY <1>1, <1>2
    <3> QED
      BY <1>6, <3>1, <3>2
  <2>2. ASSUME NEW j \in 1 .. Len(s), c = <<n, j>> PROVE \E k \in 1 .. Len(whole) : more[k] = c
    <3>1. m + j \in 1 .. Len(whole) /\ ~(m + j <= m) /\ (m + j) - m = j
      BY <1>1, <1>2
    <3> QED
      BY <1>6, <2>2, <3>1
  <2> QED
    BY <1>5, <2>1, <2>2
<1>11. more \in [1 .. Len(whole) -> Cells(seqs, n)]
  BY <1>7
<1> HIDE DEF more
<1>12. Lays(whole, seqs, n, more)
  BY <1>8, <1>9, <1>10, <1>11 DEF Lays
<1> QED
  BY <1>12 DEF whole, s

LEMMA FlattenFacts ==
  ASSUME NEW S, NEW seqs \in Seq(Seq(S))
  PROVE  /\ FlattenSeq(seqs) \in Seq(S)
         /\ \E at : Lays(FlattenSeq(seqs), seqs, Len(seqs), at)
<1> DEFINE none == [k \in {} |-> seqs]
<1>1. Lays(<<>>, seqs, 0, none)
  BY DEF Lays, Cells
<1>2. CASE Len(seqs) = 0
  <2>1. FlattenSeq(seqs) = seqs /\ seqs = <<>>
    BY <1>2, EmptySeq DEF FlattenSeq
  <2> QED
    BY <1>1, <1>2, <2>1
<1>3. CASE Len(seqs) # 0
  <2> DEFINE f == CHOOSE g : Flattens(g, seqs, Len(seqs))
  <2>1. FlattenSeq(seqs) = f[Len(seqs)]
    BY <1>3 DEF FlattenSeq, Flattens
  <2>2. Flattens(f, seqs, Len(seqs))
    BY FlattensExists
  <2> HIDE DEF f
  <2>3. \A i \in 1 .. Len(seqs) : f[i] = IF i = 1 THEN seqs[i] ELSE f[i - 1] \o seqs[i]
    BY <2>2 DEF Flattens
  <2> DEFINE Laid(i) == f[i] \in Seq(S) /\ \E at : Lays(f[i], seqs, i, at)
             Good == {i \in Nat : i = 0 \/ Laid(i)}
  <2>4. 0 \in Good
    OBVIOUS
  <2>5. ASSUME NEW i \in 1 .. Len(seqs), i - 1 \in Good PROVE i \in Good
    <3>1. i \in Nat /\ seqs[i] \in Seq(S)
      BY ElementOfSeq
    <3>2. CASE i = 1
      <4>1. <<>> \in Seq(S) /\ <<>> \o seqs[1] = seqs[1] /\ i - 1 = 0
        BY <3>1, <3>2, ConcatEmptySeq
      <4>2. \E more : Lays(<<>> \o seqs[i], seqs, i, more)
        BY <1>1, <4>1, LaysOneMore
      <4> QED
        BY <2>3, <3>1, <3>2, <4>1, <4>2
    <3>3. CASE i # 1
      <4>1. i - 1 # 0 /\ i - 1 \in Nat
        BY <3>3
      <4>2. Laid(i - 1)
        BY <2>5, <4>1
      <4> DEFINE flat == f[i - 1]
      <4>3. PICK at : Lays(flat, seqs, i - 1, at)
        BY <4>2
      <4>4. flat \in Seq(S)
        BY <4>2
      <4>5. f[i] = flat \o seqs[i]
        BY <2>3, <3>3
      <4> HIDE DEF flat
      <4>6. \E more : Lays(flat \o seqs[i], seqs, i, more)
        BY <4>3, <4>4, LaysOneMore
      <4>7. flat \o seqs[i] \in Seq(S)
        BY <3>1, <4>4, ConcatProperties
      <4> QED
        BY <3>1, <4>5, <4>6, <4>7
    <3> QED
      BY <3>2, <3>3
  <2> HIDE DEF Good
  <2>6. Len(seqs) \in Good
    <3>1. Len(seqs) \in 0 .. Len(seqs) /\ Len(seqs) \in Nat
      OBVIOUS
    <3> QED
      BY <2>4, <2>5, <3>1, UpTo
  <2>7. Laid(Len(seqs))
    BY <1>3, <2>6 DEF Good
  <2> QED
    BY <2>1, <2>7
<1> QED
  BY <1>2, <1>3

----------------------------------------------------------------------------
(* What the jar keeps of the cookies received *)

Receipts == {r \in [cookie : Cookie, from : Seq(STRING)] :
               r.cookie.max_age = -1 => r.cookie.issue_time = 0}

(* Number i of what was received is an edition of the cookie c of d. *)
IsEdition(rec, i, d, c) == MeantFor(rec[i]) = d /\ Found(rec[i].cookie, c)
IsFirst(rec, i, d, c) ==
  IsEdition(rec, i, d, c) /\ \A m \in DOMAIN rec : IsEdition(rec, m, d, c) => i <= m

(* An entry e of the list of d is the first edition received, but for the   *)
(* date, and that is the date of an edition.                                *)
Keeps(rec, d, e) ==
  /\ \E i \in DOMAIN rec :
       IsFirst(rec, i, d, e) /\ e = [rec[i].cookie EXCEPT !.expires = e.expires]
  /\ \E i \in DOMAIN rec : IsEdition(rec, i, d, e) /\ rec[i].cookie.expires = e.expires

JarOK(dict, rec) ==
  /\ rec \in Seq(Receipts)
  /\ \A d \in DOMAIN dict : dict[d] \in Seq(Cookie)
  /\ \A i \in DOMAIN rec :
       LET d == MeantFor(rec[i])
       IN d \in DOMAIN dict /\ \E j \in DOMAIN dict[d] : Found(dict[d][j], rec[i].cookie)
  /\ \A d \in DOMAIN dict : \A j \in DOMAIN dict[d] : Keeps(rec, d, dict[d][j])
  /\ \A d \in DOMAIN dict : \A j, k \in DOMAIN dict[d] : Found(dict[d][j], dict[d][k]) => j = k

LEMMA IssuedFacts ==
  ASSUME NEW c \in Cookie, NEW t \in Nat
  PROVE  /\ Issued(c, t) \in Cookie /\ Issued(c, t).domain = c.domain
         /\ Issued(c, t).max_age = -1 => Issued(c, t).issue_time = 0
BY DEF Issued, Cookie

(* The end of a name. *)
LEMMA SuffixFacts ==
  ASSUME NEW S, NEW d \in Seq(S), NEW name \in Seq(S)
  PROVE  /\ IsSuffix(d, name) <=> Len(d) <= Len(name) /\ d = LastLabels(name, Len(d))
         /\ IsSuffix(d, name) => WithinHost(d, name)
<1> DEFINE n == Len(name)
           l == Len(d)
<1>1. n \in Nat /\ l \in Nat
  OBVIOUS
<1>2. /\ Reverse(d) = [i \in 1 .. l |-> d[l - i + 1]] /\ Reverse(name) = [i \in 1 .. n |-> name[n - i + 1]]
  BY DEF Reverse
<1>3. Reverse(d) \in Seq(S) /\ Len(Reverse(d)) = l /\ Reverse(name) \in Seq(S) /\ Len(Reverse(name)) = n
  BY <1>1, <1>2
<1>4. ASSUME l <= n
      PROVE  /\ LastLabels(name, l) \in Seq(S) /\ Len(LastLabels(name, l)) = l
             /\ \A i \in 1 .. l : LastLabels(name, l)[i] = name[n - l + i]
  BY <1>1, <1>4, SubSeqProperties DEF LastLabels
<1>5. ASSUME l <= n
      PROVE  IsSuffix(d, name) <=> \A i \in 1 .. l : d[l - i + 1] = name[n - i + 1]
  <2>1. /\ Len(SubSeq(Reverse(d), 1, l)) = l /\ SubSeq(Reverse(d), 1, l) \in Seq(S)
        /\ Len(SubSeq(Reverse(name), 1, l)) = l /\ SubSeq(Reverse(name), 1, l) \in Seq(S)
        /\ \A i \in 1 .. l : /\ SubSeq(Reverse(d), 1, l)[i] = Reverse(d)[i]
                             /\ SubSeq(Reverse(name), 1, l)[i] = Reverse(name)[i]
    BY <1>1, <1>3, <1>5, SubSeqProperties
  <2>2. \A i \in 1 .. l : /\ Reverse(d)[i] = d[l - i + 1]
                          /\ Reverse(name)[i] = name[n - i + 1]
    BY <1>1, <1>2, <1>5
  <2>3. IsSuffix(d, name) <=> SubSeq(Reverse(d), 1, l) = SubSeq(Reverse(name), 1, l)
    BY <1>3, <1>5 DEF IsSuffix, IsPrefix
  <2> HIDE DEF l, n
  <2>4. SubSeq(Reverse(d), 1, l) = SubSeq(Reverse(name), 1, l)
          <=> \A i \in 1 .. l : SubSeq(Reverse(d), 1, l)[i] = SubSeq(Reverse(name), 1, l)[i]
    BY <1>1, <2>1, SeqEqual
  <2> QED
    BY <2>1, <2>2, <2>3, <2>4
<1>6. ASSUME l <= n
      PROVE  (\A i \in 1 .. l : d[l - i + 1] = name[n - i + 1])
               <=> \A i \in 1 .. l : d[i] = name[n - l + i]
  <2>1. ASSUME \A i \in 1 .. l : d[l - i + 1] = name[n - i + 1], NEW i \in 1 .. l
        PROVE  d[i] = name[n - l + i]
    <3>1. l - i + 1 \in 1 .. l /\ l - (l - i + 1) + 1 = i /\ n - (l - i + 1) + 1 = n - l + i
      BY <1>1
    <3> QED
      BY <2>1, <3>1
  <2>2. ASSUME \A i \in 1 .. l : d[i] = name[n - l + i], NEW i \in 1 .. l
        PROVE  d[l - i + 1] = name[n - i + 1]
    <3>1. l - i + 1 \in 1 .. l /\ n - l + (l - i + 1) = n - i + 1
      BY <1>1
    <3> QED
      BY <2>2, <3>1
  <2> QED
    BY <2>1, <2>2
<1>7. ASSUME l <= n
      PROVE  d = LastLabels(name, l) <=> \A i \in 1 .. l : d[i] = name[n - l + i]
  <2> HIDE DEF n, l
  <2>1. d = LastLabels(name, l) <=> \A i \in 1 .. l : d[i] = LastLabels(name, l)[i]
    BY <1>1, <1>4, <1>7, SeqEqual DEF l
  <2> QED
    BY <1>4, <1>7, <2>1
<1>8. IsSuffix(d, name) => l <= n
  BY <1>3 DEF IsSuffix, IsPrefix
<1>9. IsSuffix(d, name) <=> l <= n /\ d = LastLabels(name, l)
  BY <1>5, <1>6, <1>7, <1>8
<1>10. l <= n /\ d = LastLabels(name, l) => WithinHost(d, name)
  <2>1. l <= n => n - l \in 0 .. n - l /\ n - l + 1 = n - l + 1 /\ n - l + l = n
    BY <1>1
  <2> QED
    BY <2>1 DEF WithinHost, LastLabels
<1> QED
  BY <1>9, <1>10

(* Where a cookie is kept is what it is meant for. *)
LEMMA DomainIsMeant ==
  ASSUME NEW c \in Cookie, NEW name \in Seq(STRING),
         c.domain # <<>> /\ Enough(c.domain) /\ WithinHost(c.domain, name) => IsSuffix(c.domain, name)
  PROVE  DomainOf(c, name) = MeantFor([cookie |-> c, from |-> name])
<1> DEFINE d == c.domain
<1>1. d \in Seq(STRING) /\ Len(d) \in Nat /\ (d = <<>> <=> Len(d) = 0)
  BY EmptySeq DEF Cookie
<1>2. GetDomainMinNumberOfPeriods(d) > 0 /\ Len(d) >= GetDomainMinNumberOfPeriods(d)
        <=> d # <<>> /\ Enough(d)
  BY <1>1 DEF GetDomainMinNumberOfPeriods, Enough
<1>3. IsSuffix(d, name) => WithinHost(d, name)
  BY <1>1, SuffixFacts
<1> QED
  BY <1>2, <1>3 DEF DomainOf, MeantFor, Within

(* f is the entry e, with its own date or that of c, which is another edition. *)
Redated(e, f, c) ==
  /\ f = [e EXCEPT !.expires = f.expires]
  /\ f.expires = e.expires \/ (Found(e, c) /\ f.expires = c.expires)

LEMMA ListFacts ==
  ASSUME NEW old \in Seq(Cookie), NEW c \in Cookie
  PROVE  LET new == AddToList(old, c)
             n   == Len(old)
         IN /\ new \in Seq(Cookie)
            /\ \A j \in 1 .. n : j \in 1 .. Len(new) /\ Redated(old[j], new[j], c)
            /\ \E j \in 1 .. Len(new) : Found(new[j], c)
            /\ \A j \in 1 .. Len(new) :
                 j \in 1 .. n \/ (new[j] = c /\ j = n + 1 /\ \A k \in 1 .. n : ~Found(old[k], c))
<1> DEFINE n == Len(old)
           dated(e) == [e EXCEPT !.expires = SetExpires(@, c.expires)]
<1>1. n \in Nat /\ DOMAIN old = 1 .. n /\ \A j \in 1 .. n : old[j] \in Cookie
  OBVIOUS
<1>2. ASSUME NEW e \in Cookie
      PROVE  /\ dated(e) \in Cookie /\ Redated(e, e, c)
             /\ Found(e, c) => Found(dated(e), c) /\ Redated(e, dated(e), c)
  BY DEF SetExpires, Cookie, Found, Redated
<1> HIDE DEF dated
<1>3. CASE \E j \in DOMAIN old : Found(old[j], c)
  <2> DEFINE new == [j \in DOMAIN old |-> IF Found(old[j], c) THEN dated(old[j]) ELSE old[j]]
  <2>1. AddToList(old, c) = new
    BY <1>3 DEF AddToList, dated
  <2>2. new \in Seq(Cookie) /\ Len(new) = n
    BY <1>1, <1>2
  <2>3. \A j \in 1 .. n : new[j] = IF Found(old[j], c) THEN dated(old[j]) ELSE old[j]
    BY <1>1
  <2> HIDE DEF new
  <2>4. \A j \in 1 .. n : Redated(old[j], new[j], c)
    BY <1>1, <1>2, <2>3
  <2>5. \E j \in 1 .. n : Found(new[j], c)
    BY <1>1, <1>2, <1>3, <2>3
  <2> QED
    BY <2>1, <2>2, <2>4, <2>5
<1>4. CASE ~\E j \in DOMAIN old : Found(old[j], c)
  <2> DEFINE new == Append(old, c)
  <2>1. AddToList(old, c) = new
    BY <1>4 DEF AddToList
  <2>2. /\ new \in Seq(Cookie) /\ Len(new) = n + 1 /\ new[n + 1] = c
        /\ \A j \in 1 .. n : new[j] = old[j]
    BY <1>1, AppendProperties
  <2> HIDE DEF new
  <2>3. Found(c, c) /\ n + 1 \in 1 .. n + 1 /\ \A j \in 1 .. n : j \in 1 .. n + 1
    BY <1>1 DEF Found
  <2>4. \A j \in 1 .. n : Redated(old[j], new[j], c)
    BY <1>1, <1>2, <2>2
  <2>5. \E j \in 1 .. Len(new) : Found(new[j], c)
    BY <2>2, <2>3
  <2>6. \A j \in 1 .. n + 1 : j \in 1 .. n \/ j = n + 1
    BY <1>1
  <2>7. \A j \in 1 .. n : ~Found(old[j], c)
    BY <1>1, <1>4
  <2>8. \A j \in 1 .. n : j \in 1 .. Len(new)
    BY <2>2, <2>3
  <2>9. \A j \in 1 .. Len(new) :
          j \in 1 .. n \/ (new[j] = c /\ j = n + 1 /\ \A k \in 1 .. n : ~Found(old[k], c))
    BY <2>2, <2>6, <2>7
  <2> QED
    BY <2>1, <2>2, <2>4, <2>5, <2>8, <2>9
<1> QED
  BY <1>3, <1>4

(* What is kept stays so when another cookie comes. *)
LEMMA KeepsOn ==
  ASSUME NEW rec \in Seq(Receipts), NEW r \in Receipts, NEW d, NEW e, Keeps(rec, d, e)
  PROVE  Keeps(Append(rec, r), d, e)
<1> DEFINE more == Append(rec, r)
           n == Len(rec)
<1>1. /\ n \in Nat /\ DOMAIN rec = 1 .. n /\ DOMAIN more = 1 .. n + 1
      /\ \A i \in 1 .. n : i \in 1 .. n + 1 /\ more[i] = rec[i]
  BY AppendProperties
<1> HIDE DEF more, n
<1>2. \A i \in DOMAIN rec : i \in DOMAIN more /\ (IsEdition(more, i, d, e) <=> IsEdition(rec, i, d, e))
  BY <1>1 DEF IsEdition
<1>3. ASSUME NEW i \in DOMAIN rec, IsFirst(rec, i, d, e) PROVE IsFirst(more, i, d, e)
  <2>1. ASSUME NEW m \in DOMAIN more, IsEdition(more, m, d, e) PROVE i <= m
    <3>1. CASE m \in DOMAIN rec
      BY <1>2, <1>3, <2>1, <3>1 DEF IsFirst
    <3>2. CASE m \notin DOMAIN rec
      BY <1>1, <3>2
    <3> QED
      BY <3>1, <3>2
  <2> QED
    BY <1>2, <1>3, <2>1 DEF IsFirst
<1>4. \E i \in DOMAIN more : IsFirst(more, i, d, e) /\ e = [more[i].cookie EXCEPT !.expires = e.expires]
  BY <1>1, <1>2, <1>3 DEF Keeps
<1>5. \E i \in DOMAIN more : IsEdition(more, i, d, e) /\ more[i].cookie.expires = e.expires
  BY <1>1, <1>2 DEF Keeps
<1> QED
  BY <1>4, <1>5 DEF Keeps, more

(* An entry with another date is the same cookie. *)
LEMMA DatedKeeps ==
  ASSUME NEW rec \in Seq(Receipts), NEW d, NEW e \in Cookie, NEW f \in Cookie,
         f = [e EXCEPT !.expires = f.expires], Keeps(rec, d, e),
         \/ f.expires = e.expires
         \/ \E i \in DOMAIN rec : IsEdition(rec, i, d, e) /\ rec[i].cookie.expires = f.expires
  PROVE  Keeps(rec, d, f)
<1>1. f.name = e.name /\ f.path = e.path
  BY DEF Cookie
<1>2. \A i \in DOMAIN rec : IsEdition(rec, i, d, e) <=> IsEdition(rec, i, d, f)
  BY <1>1 DEF IsEdition, Found
<1>3. PICK i \in DOMAIN rec : IsFirst(rec, i, d, e) /\ e = [rec[i].cookie EXCEPT !.expires = e.expires]
  BY DEF Keeps
<1>4. IsFirst(rec, i, d, f)
  BY <1>2, <1>3 DEF IsFirst
<1>5. rec[i].cookie \in Cookie
  BY DEF Receipts
<1>6. f = [rec[i].cookie EXCEPT !.expires = f.expires]
  BY <1>3, <1>5 DEF Cookie
<1>7. \E m \in DOMAIN rec : IsEdition(rec, m, d, f) /\ rec[m].cookie.expires = f.expires
  BY <1>2 DEF Keeps
<1> QED
  BY <1>4, <1>6, <1>7 DEF Keeps

(* One cookie more. *)
LEMMA AddOne ==
  ASSUME NEW dict, NEW rec, JarOK(dict, rec), NEW c \in Cookie, NEW name,
         [cookie |-> c, from |-> name] \in Receipts,
         DomainOf(c, name) = MeantFor([cookie |-> c, from |-> name])
  PROVE  JarOK(AddCookieForHost(dict, c, name), Append(rec, [cookie |-> c, from |-> name]))
<1> DEFINE r == [cookie |-> c, from |-> name]
           more == Append(rec, r)
           n == Len(rec)
           D == DomainOf(c, name)
           old == cookiesForDomain(dict, D)
           new == AddToList(old, c)
           jar == AddCookieForHost(dict, c, name)
<1>1. rec \in Seq(Receipts) /\ r \in Receipts /\ r.cookie = c /\ MeantFor(r) = D
  BY DEF JarOK
<1>2. /\ more \in Seq(Receipts) /\ n \in Nat /\ DOMAIN rec = 1 .. n /\ DOMAIN more = 1 .. n + 1
      /\ n + 1 \in DOMAIN more /\ more[n + 1] = r
      /\ \A i \in DOMAIN rec : i \in DOMAIN more /\ more[i] = rec[i]
      /\ \A i \in DOMAIN more : i \in DOMAIN rec \/ i = n + 1
  BY <1>1, AppendProperties
<1>3. old \in Seq(Cookie)
  BY EmptySeq DEF JarOK, cookiesForDomain
<1>4. /\ DOMAIN jar = DOMAIN dict \cup {D} /\ jar[D] = new
      /\ \A d \in DOMAIN dict \ {D} : jar[d] = dict[d]
  BY DEF AddCookieForHost
<1>5. /\ D \in DOMAIN dict => old = dict[D]
      /\ D \notin DOMAIN dict => Len(old) = 0
  BY DEF cookiesForDomain
<1> HIDE DEF r, more, n, D, old, jar
<1>6. /\ new \in Seq(Cookie)
      /\ \A j \in 1 .. Len(old) : j \in 1 .. Len(new) /\ Redated(old[j], new[j], c)
      /\ \E j \in 1 .. Len(new) : Found(new[j], c)
      /\ \A j \in 1 .. Len(new) :
           \/ j \in 1 .. Len(old)
           \/ new[j] = c /\ j = Len(old) + 1 /\ \A k \in 1 .. Len(old) : ~Found(old[k], c)
  BY <1>3, ListFacts
<1> HIDE DEF new
<1>7. /\ DOMAIN old = 1 .. Len(old) /\ Len(old) \in Nat /\ \A j \in 1 .. Len(old) : old[j] \in Cookie
      /\ DOMAIN new = 1 .. Len(new) /\ Len(new) \in Nat /\ \A j \in 1 .. Len(new) : new[j] \in Cookie
  BY <1>3, <1>6
<1>8. \A j \in 1 .. Len(old) : new[j].name = old[j].name /\ new[j].path = old[j].path
  BY <1>6, <1>7 DEF Cookie, Redated
<1>9. \A d \in DOMAIN jar : jar[d] \in Seq(Cookie)
  BY <1>4, <1>6 DEF JarOK
<1>10. \A i \in DOMAIN rec : MeantFor(rec[i]) \in DOMAIN dict
         /\ \E j \in DOMAIN dict[MeantFor(rec[i])] : Found(dict[MeantFor(rec[i])][j], rec[i].cookie)
  BY DEF JarOK
<1>11. \A d \in DOMAIN dict : \A j \in DOMAIN dict[d] : Keeps(rec, d, dict[d][j])
  BY DEF JarOK
<1>12. \A d \in DOMAIN dict : \A j, k \in DOMAIN dict[d] : Found(dict[d][j], dict[d][k]) => j = k
  BY DEF JarOK
<1>13. ASSUME NEW i \in DOMAIN more
       PROVE  LET d == MeantFor(more[i])
              IN d \in DOMAIN jar /\ \E j \in DOMAIN jar[d] : Found(jar[d][j], more[i].cookie)
  <2>1. CASE i = n + 1
    BY <1>1, <1>2, <1>4, <1>6, <1>7, <2>1
  <2>2. CASE i \in DOMAIN rec
    <3> DEFINE d == MeantFor(rec[i])
    <3>1. d \in DOMAIN dict /\ more[i] = rec[i]
      BY <1>2, <1>10, <2>2
    <3>2. PICK j \in DOMAIN dict[d] : Found(dict[d][j], rec[i].cookie)
      BY <1>10, <2>2
    <3> HIDE DEF d
    <3>3. CASE d = D
      <4>1. j \in 1 .. Len(old) /\ old[j] = dict[d][j]
        BY <1>5, <1>7, <3>1, <3>2, <3>3
      <4>2. j \in DOMAIN new /\ Found(new[j], rec[i].cookie)
        BY <1>6, <1>7, <1>8, <3>2, <4>1 DEF Found
      <4> QED
        BY <1>4, <3>1, <3>3, <4>2 DEF d
    <3>4. CASE d # D
      BY <1>4, <3>1, <3>2, <3>4 DEF d
    <3> QED
      BY <3>3, <3>4
  <2> QED
    BY <1>2, <2>1, <2>2
<1>14. ASSUME NEW d \in DOMAIN jar, NEW j \in DOMAIN jar[d] PROVE Keeps(more, d, jar[d][j])
  <2>1. CASE d # D
    <3>1. Keeps(rec, d, jar[d][j])
      BY <1>4, <1>11, <2>1
    <3> QED
      BY <1>1, <3>1, KeepsOn DEF more
  <2>2. CASE d = D /\ j \in 1 .. Len(old)
    <3>1. D \in DOMAIN dict
      BY <1>5, <1>7, <2>2
    <3>2. Keeps(rec, D, old[j])
      BY <1>5, <1>7, <1>11, <2>2, <3>1
    <3>3. Keeps(more, D, old[j])
      BY <1>1, <3>2, KeepsOn DEF more
    <3>4. IsEdition(more, n + 1, D, old[j]) \/ ~Found(old[j], c)
      BY <1>1, <1>2 DEF IsEdition, Found
    <3>5. \/ new[j].expires = old[j].expires
          \/ \E i \in DOMAIN more : IsEdition(more, i, D, old[j]) /\ more[i].cookie.expires = new[j].expires
      BY <1>1, <1>2, <1>6, <2>2, <3>4 DEF Redated
    <3>6. /\ new[j] \in Cookie /\ old[j] \in Cookie
          /\ new[j] = [old[j] EXCEPT !.expires = new[j].expires]
      BY <1>6, <1>7, <2>2 DEF Redated
    <3>7. Keeps(more, D, new[j])
      BY <1>2, <3>3, <3>5, <3>6, DatedKeeps
    <3> QED
      BY <1>4, <2>2, <3>7
  <2>3. CASE d = D /\ j \notin 1 .. Len(old)
    <3>1. jar[d] = new /\ j \in 1 .. Len(new)
      BY <1>4, <1>7, <2>3
    <3>2. j = Len(old) + 1 /\ new[j] = c /\ \A k \in 1 .. Len(old) : ~Found(old[k], c)
      BY <1>6, <1>7, <2>3, <3>1
    <3>3. \A i \in DOMAIN rec : ~IsEdition(more, i, D, c)
      <4>1. SUFFICES ASSUME NEW i \in DOMAIN rec, MeantFor(rec[i]) = D, Found(rec[i].cookie, c)
                     PROVE  FALSE
        BY <1>2 DEF IsEdition
      <4>2. D \in DOMAIN dict /\ \E k \in DOMAIN dict[D] : Found(dict[D][k], rec[i].cookie)
        BY <1>10, <4>1
      <4> QED
        BY <1>5, <1>7, <3>2, <4>1, <4>2 DEF Found
    <3>4. IsEdition(more, n + 1, D, c) /\ more[n + 1].cookie = c
      BY <1>1, <1>2 DEF IsEdition, Found
    <3>5. IsFirst(more, n + 1, D, c)
      BY <1>2, <3>3, <3>4 DEF IsFirst
    <3>6. c = [c EXCEPT !.expires = c.expires]
      BY DEF Cookie
    <3>7. Keeps(more, D, c)
      BY <1>2, <3>4, <3>5, <3>6 DEF Keeps
    <3> QED
      BY <2>3, <3>1, <3>2, <3>7
  <2> QED
    BY <2>1, <2>2, <2>3
<1>15. ASSUME NEW d \in DOMAIN jar, NEW j \in DOMAIN jar[d], NEW k \in DOMAIN jar[d],
              Found(jar[d][j], jar[d][k])
       PROVE  j = k
  <2>1. CASE d # D
    BY <1>4, <1>12, <1>15, <2>1
  <2>2. CASE d = D
    <3>1. j \in 1 .. Len(new) /\ k \in 1 .. Len(new) /\ Found(new[j], new[k])
      BY <1>4, <1>7, <1>15, <2>2
    <3>2. CASE j \in 1 .. Len(old) /\ k \in 1 .. Len(old)
      <4>1. D \in DOMAIN dict
        BY <1>5, <1>7, <3>2
      <4>2. Found(old[j], old[k])
        BY <1>8, <3>1, <3>2 DEF Found
      <4> QED
        BY <1>5, <1>7, <1>12, <3>2, <4>1, <4>2
    <3>3. CASE ~(j \in 1 .. Len(old)) /\ ~(k \in 1 .. Len(old))
      BY <1>6, <1>7, <3>1, <3>3
    <3>4. CASE j \in 1 .. Len(old) /\ ~(k \in 1 .. Len(old))
      <4>1. new[k] = c /\ ~Found(old[j], c)
        BY <1>6, <1>7, <3>1, <3>4
      <4> QED
        BY <1>8, <3>1, <3>4, <4>1 DEF Found
    <3>5. CASE ~(j \in 1 .. Len(old)) /\ k \in 1 .. Len(old)
      <4>1. new[j] = c /\ ~Found(old[k], c)
        BY <1>6, <1>7, <3>1, <3>5
      <4> QED
        BY <1>8, <3>1, <3>5, <4>1 DEF Found
    <3> QED
      BY <3>2, <3>3, <3>4, <3>5
  <2> QED
    BY <2>1, <2>2
<1>16. JarOK(jar, more)
  BY <1>2, <1>9, <1>13, <1>14, <1>15 DEF JarOK
<1> QED
  BY <1>16 DEF jar, more, r

Adds(f, dict, cookies, name) ==
  f = [i \in 0 .. Len(cookies) |->
         IF i = 0 THEN dict ELSE AddCookieForHost(f[i - 1], cookies[i], name)]

LEMMA AddsExists ==
  ASSUME NEW cookies \in Seq(Cookie), NEW dict, NEW name
  PROVE  \E f : Adds(f, dict, cookies, name)
<1> DEFINE n == Len(cookies)
           Upto(f, i) == f = [k \in 0 .. i |->
                                IF k = 0 THEN dict ELSE AddCookieForHost(f[k - 1], cookies[k], name)]
           Good == {i \in Nat : \E f : Upto(f, i)}
<1>1. 0 \in Good
  <2> DEFINE f == [k \in 0 .. 0 |-> dict]
  <2>1. f = [k \in 0 .. 0 |->
               IF k = 0 THEN dict ELSE AddCookieForHost(f[k - 1], cookies[k], name)]
    OBVIOUS
  <2> QED
    BY <2>1
<1>2. ASSUME NEW i \in 1 .. n, i - 1 \in Good PROVE i \in Good
  <2>1. PICK h : Upto(h, i - 1)
    BY <1>2
  <2> DEFINE Next1(g, k) == IF k = 0 THEN dict ELSE AddCookieForHost(g[k - 1], cookies[k], name)
             f == [k \in 0 .. i |-> Next1(h, k)]
  <2>2. \A k \in 0 .. i - 1 : h[k] = f[k]
    <3>1. h = [k \in 0 .. i - 1 |-> Next1(h, k)]
      BY <2>1
    <3>2. \A k \in 0 .. i - 1 : k \in 0 .. i
      OBVIOUS
    <3> HIDE DEF Next1
    <3> QED
      BY <3>1, <3>2, Zenon
  <2>3. \A k \in 0 .. i : k # 0 => k - 1 \in 0 .. i - 1
    OBVIOUS
  <2>4. \A k \in 0 .. i : Next1(h, k) = Next1(f, k)
    <3> HIDE DEF f
    <3> QED
      BY <2>2, <2>3
  <2>5. f = [k \in 0 .. i |-> Next1(f, k)]
    <3> HIDE DEF Next1
    <3> QED
      BY <2>4
  <2>6. Upto(f, i)
    <3> HIDE DEF f
    <3> QED
      BY <2>5
  <2>7. i \in Nat /\ \E g : Upto(g, i)
    <3> HIDE DEF Upto
    <3> QED
      BY <2>6
  <2> QED
    BY <2>7
<1> HIDE DEF Good
<1>3. n \in 0 .. n /\ n \in Nat
  OBVIOUS
<1>4. n \in Good
  BY <1>1, <1>2, <1>3, UpTo
<1> QED
  BY <1>4 DEF Good, Adds

(* Each of the cookies is one that is kept for what it is meant for. *)
Proper(cookies, name) ==
  \A i \in DOMAIN cookies :
    /\ [cookie |-> cookies[i], from |-> name] \in Receipts
    /\ DomainOf(cookies[i], name) = MeantFor([cookie |-> cookies[i], from |-> name])

LEMMA AddMany ==
  ASSUME NEW dict, NEW rec, JarOK(dict, rec), NEW cookies \in Seq(Cookie), NEW name,
         Proper(cookies, name)
  PROVE  JarOK(AddCookies(dict, cookies, name), rec \o From(cookies, name))
<1> DEFINE n == Len(cookies)
           new == From(cookies, name)
           whole(i) == rec \o SubSeq(new, 1, i)
           f == CHOOSE g : Adds(g, dict, cookies, name)
           Good == {i \in Nat : JarOK(f[i], whole(i))}
<1>1. /\ n \in Nat /\ DOMAIN cookies = 1 .. n /\ \A i \in 1 .. n : cookies[i] \in Cookie
      /\ rec \in Seq(Receipts)
  BY DEF JarOK
<1>2. /\ new \in Seq(Receipts) /\ Len(new) = n
      /\ \A i \in 1 .. n : new[i] = [cookie |-> cookies[i], from |-> name]
  BY <1>1 DEF From, Proper
<1>3. AddCookies(dict, cookies, name) = f[n]
  BY DEF AddCookies, Adds
<1>4. Adds(f, dict, cookies, name)
  BY AddsExists
<1> HIDE DEF f, new
<1>5. \A i \in 0 .. n : f[i] = IF i = 0 THEN dict ELSE AddCookieForHost(f[i - 1], cookies[i], name)
  BY <1>4 DEF Adds
<1>6. 0 \in Good
  <2>1. SubSeq(new, 1, 0) = <<>>
    BY <1>2
  <2>2. whole(0) = rec
    BY <1>1, <2>1, ConcatEmptySeq
  <2>3. f[0] = dict
    BY <1>1, <1>5
  <2> QED
    BY <2>2, <2>3
<1>7. ASSUME NEW i \in 1 .. n, i - 1 \in Good PROVE i \in Good
  <2>1. JarOK(f[i - 1], whole(i - 1))
    BY <1>7
  <2>2. SubSeq(new, 1, i) = Append(SubSeq(new, 1, i - 1), new[i])
    BY <1>2
  <2>3. SubSeq(new, 1, i - 1) \in Seq(Receipts) /\ new[i] \in Receipts
    BY <1>2
  <2>4. whole(i) = Append(whole(i - 1), new[i])
    BY <1>1, <2>2, <2>3
  <2>5. f[i] = AddCookieForHost(f[i - 1], cookies[i], name)
    BY <1>1, <1>5
  <2>6. /\ cookies[i] \in Cookie /\ [cookie |-> cookies[i], from |-> name] \in Receipts
        /\ DomainOf(cookies[i], name) = MeantFor([cookie |-> cookies[i], from |-> name])
        /\ new[i] = [cookie |-> cookies[i], from |-> name]
    BY <1>1, <1>2 DEF Proper
  <2> HIDE DEF whole
  <2>7. JarOK(f[i], whole(i))
    BY <2>1, <2>4, <2>5, <2>6, AddOne
  <2> QED
    BY <2>7
<1> HIDE DEF Good
<1>8. n \in Good
  <2>1. n \in 0 .. n
    BY <1>1
  <2> QED
    BY <1>1, <1>6, <1>7, <2>1, UpTo
<1>9. JarOK(f[n], whole(n))
  BY <1>8 DEF Good
<1>10. SubSeq(new, 1, n) = new
  BY <1>2
<1> QED
  BY <1>3, <1>9, <1>10 DEF new

(* Cookies as they are read, from a header or from the file. *)
LEMMA IssuedProper ==
  ASSUME NEW cookies \in Seq(Cookie), NEW time \in Nat, NEW name \in Seq(STRING),
         \A i \in DOMAIN cookies : LET d == cookies[i].domain
                                   IN d # <<>> /\ Enough(d) /\ WithinHost(d, name) => IsSuffix(d, name)
  PROVE  LET issued == [i \in DOMAIN cookies |-> Issued(cookies[i], time)]
         IN issued \in Seq(Cookie) /\ Proper(issued, name)
<1> DEFINE issued == [i \in DOMAIN cookies |-> Issued(cookies[i], time)]
<1>1. \A i \in DOMAIN cookies :
        /\ cookies[i] \in Cookie /\ issued[i] \in Cookie /\ issued[i].domain = cookies[i].domain
        /\ issued[i].max_age = -1 => issued[i].issue_time = 0
  <2>1. \A i \in DOMAIN cookies : cookies[i] \in Cookie /\ issued[i] = Issued(cookies[i], time)
    OBVIOUS
  <2> HIDE DEF issued
  <2> QED
    BY <2>1, IssuedFacts
<1>2. issued \in Seq(Cookie) /\ DOMAIN issued = DOMAIN cookies
  BY <1>1
<1> HIDE DEF issued
<1>3. ASSUME NEW i \in DOMAIN issued
      PROVE  /\ [cookie |-> issued[i], from |-> name] \in Receipts
             /\ DomainOf(issued[i], name) = MeantFor([cookie |-> issued[i], from |-> name])
  <2>1. [cookie |-> issued[i], from |-> name] \in Receipts
    BY <1>1, <1>2 DEF Receipts
  <2> DEFINE c == issued[i]
             d == c.domain
  <2>2. c \in Cookie /\ d # <<>> /\ Enough(d) /\ WithinHost(d, name) => IsSuffix(d, name)
    BY <1>1, <1>2
  <2>3. c \in Cookie
    BY <1>1, <1>2
  <2> HIDE DEF c
  <2>4. DomainOf(c, name) = MeantFor([cookie |-> c, from |-> name])
    BY <2>2, <2>3, DomainIsMeant
  <2> QED
    BY <2>1, <2>4 DEF c
<1> QED
  BY <1>2, <1>3 DEF Proper, issued

JarInv == JarOK(cookieDict, received) /\ now \in Nat

LEMMA InitJar == InitCookies => JarInv
<1> SUFFICES ASSUME InitCookies PROVE JarInv
  OBVIOUS
<1> DEFINE loaded == [i \in DOMAIN Imported |-> Issued(Imported[i], 0)]
           none == [d \in {} |-> <<>>]
<1>1. /\ cookieDict = AddCookies(none, loaded, <<>>) /\ received = From(loaded, <<>>) /\ now = 0
  BY DEF InitCookies
<1>2. \A i \in DOMAIN Imported : LET d == Imported[i].domain
                                 IN d # <<>> /\ Enough(d) /\ WithinHost(d, <<>>) => IsSuffix(d, <<>>)
  <2>1. \A i \in DOMAIN Imported : Imported[i].domain \in Seq(STRING)
    <3>1. \A i \in DOMAIN Imported : Imported[i] \in Cookie
      BY CookiesAssumption DEF CookiesAssumption
    <3> QED
      BY <3>1 DEF Cookie
  <2>2. ASSUME NEW d \in Seq(STRING), d # <<>> PROVE ~WithinHost(d, <<>>)
    <3>1. Len(d) \in Nat /\ Len(d) # 0 /\ Len(<<>>) = 0
      BY <2>2, EmptySeq
    <3>2. 0 .. (Len(<<>>) - Len(d)) = {}
      BY <3>1
    <3> QED
      BY <3>2 DEF WithinHost
  <2> QED
    BY <2>1, <2>2
<1>3. Imported \in Seq(Cookie) /\ <<>> \in Seq(STRING) /\ 0 \in Nat
  BY CookiesAssumption DEF CookiesAssumption
<1>4. loaded \in Seq(Cookie) /\ Proper(loaded, <<>>)
  BY <1>2, <1>3, IssuedProper
<1>5. JarOK(none, <<>>)
  <2>1. <<>> \in Seq(Receipts) /\ DOMAIN <<>> = {} /\ DOMAIN none = {}
    OBVIOUS
  <2> QED
    BY <2>1 DEF JarOK
<1>6. <<>> \o From(loaded, <<>>) = From(loaded, <<>>)
  <2> HIDE DEF loaded
  <2>1. From(loaded, <<>>) \in Seq(Receipts)
    BY <1>4 DEF From, Proper
  <2> QED
    BY <2>1, ConcatEmptySeq
<1>7. JarOK(cookieDict, received)
  <2> HIDE DEF loaded, none
  <2> QED
    BY <1>1, <1>4, <1>5, <1>6, AddMany
<1> QED
  BY <1>1, <1>7 DEF JarInv

LEMMA AddCookieJar ==
  ASSUME EndsOnly, JarInv, url \in URLs, NEW all \in SetCookie[url], NEW n \in 0 .. Len(all),
         AddCookie(SubSeq(all, 1, n))
  PROVE  JarInv'
<1> DEFINE cookies == SubSeq(all, 1, n)
           issued == [i \in DOMAIN cookies |-> Issued(cookies[i], now)]
           name == HostName[url]
<1>1. all \in Seq(Cookie) /\ name \in Seq(STRING)
  <2>1. HostName \in [URLs -> Seq(STRING) \ {<<>>}]
    BY CookiesAssumption DEF CookiesAssumption
  <2>2. name \in Seq(STRING) \ {<<>>}
    BY <2>1
  <2> QED
    BY <2>2, CookiesAssumption DEF CookiesAssumption
<1>2. cookies \in Seq(Cookie) /\ \A i \in DOMAIN cookies : i \in DOMAIN all /\ cookies[i] = all[i]
  BY <1>1
<1>3. \A i \in DOMAIN cookies : cookies[i] \in Settable
  BY <1>2 DEF Settable, Range
<1> HIDE DEF cookies
<1>4. \A i \in DOMAIN cookies : LET d == cookies[i].domain
                                IN d # <<>> /\ Enough(d) /\ WithinHost(d, name) => IsSuffix(d, name)
  BY <1>3 DEF EndsOnly
<1>5. now \in Nat /\ JarOK(cookieDict, received)
  BY DEF JarInv
<1>6. issued \in Seq(Cookie) /\ Proper(issued, name)
  BY <1>1, <1>2, <1>4, <1>5, IssuedProper
<1>7. /\ cookieDict' = AddCookies(cookieDict, issued, name) /\ received' = received \o From(issued, name)
      /\ now' = now
  BY DEF AddCookie, cookies
<1> HIDE DEF issued, name
<1>8. JarOK(cookieDict', received')
  BY <1>5, <1>6, <1>7, AddMany
<1> QED
  BY <1>5, <1>7, <1>8 DEF JarInv

(* The header being read is that of the URL in hand. *)
HeaderOwn ==
  pc = "header" =>
    url \in URLs /\ \A n \in 1 .. arrived : stream[n].line = "head" => stream[n].url = url

LEMMA JarStep == ASSUME EndsOnly, HeaderOwn, JarInv, [NextCookies]_allVars PROVE JarInv'
<1>1. CASE UNCHANGED jarVars
  BY <1>1 DEF JarInv, jarVars
<1>2. CASE HeaderRead
  <2>1. PICK n \in 1 .. arrived :
          /\ ParseHeader \/ NoHeader
          /\ IF stream[n].line = "head"
             THEN \E cookies \in SetCookie[stream[n].url] : AddCookie(cookies)
             ELSE UNCHANGED jarVars
    BY <1>2 DEF HeaderRead
  <2>2. pc = "header"
    BY <2>1 DEF ParseHeader, NoHeader
  <2>3. CASE stream[n].line = "head"
    <3>1. url \in URLs /\ stream[n].url = url
      BY <2>2, <2>3 DEF HeaderOwn
    <3>2. PICK cookies \in SetCookie[url] : AddCookie(cookies)
      BY <2>1, <2>3, <3>1
    <3>3. cookies \in Seq(Cookie)
      BY <3>1, CookiesAssumption DEF CookiesAssumption
    <3>4. SubSeq(cookies, 1, Len(cookies)) = cookies /\ Len(cookies) \in 0 .. Len(cookies)
      BY <3>3
    <3> QED
      BY <3>1, <3>2, <3>4, AddCookieJar
  <2> QED
    BY <1>1, <2>1, <2>3
<1>3. CASE HeaderCut
  <2>1. url \in URLs
    BY <1>3 DEF HeaderCut, HeaderDown, HeaderOwn
  <2> QED
    BY <1>3, <2>1, AddCookieJar DEF HeaderCut
<1>4. CASE Tick
  BY <1>4, CookiesAssumption DEF Tick, JarInv
<1> QED
  BY <1>1, <1>2, <1>3, <1>4 DEF NextCookies, StepCookies, NetworkCookies, allVars, jarVars

----------------------------------------------------------------------------
(* What is sent *)

(* The entries for u: <<number of labels, position>> of those that are sent. *)
Entry(u, p) == cookieDict[LastLabels(HostName[u], p[1])][p[2]]
Places(u) ==
  {p \in (1 .. Len(HostName[u])) \X Nat :
     LET d == LastLabels(HostName[u], p[1])
     IN /\ LongEnough(d, HostName[u]) /\ d \in DOMAIN cookieDict
        /\ p[2] \in 1 .. Len(cookieDict[d]) /\ Passed(u, cookieDict[d][p[2]])}

(* Position at[k] of the list of d is where the k-th cookie written for u   *)
(* comes from.                                                              *)
Written(u, d, at) ==
  LET w    == WriteDomainCookiesString(u, d)
      list == cookiesForDomain(cookieDict, d)
  IN /\ at \in [1 .. Len(w) -> {i \in 1 .. Len(list) : Passed(u, list[i])}]
     /\ \A k \in 1 .. Len(w) : w[k] = list[at[k]]
     /\ \A k, l \in 1 .. Len(w) : at[k] = at[l] => k = l
     /\ \A i \in 1 .. Len(list) : Passed(u, list[i]) => \E k \in 1 .. Len(w) : at[k] = i

LEMMA WrittenFacts ==
  ASSUME JarInv, NEW u, NEW d
  PROVE  /\ WriteDomainCookiesString(u, d) \in Seq(Cookie)
         /\ cookiesForDomain(cookieDict, d) \in Seq(Cookie)
         /\ \E at : Written(u, d, at)
<1> DEFINE w == WriteDomainCookiesString(u, d)
           list == cookiesForDomain(cookieDict, d)
           parts == [i \in DOMAIN list |-> IF Passed(u, list[i]) THEN <<list[i]>> ELSE <<>>]
<1>1. list \in Seq(Cookie)
  BY EmptySeq DEF JarInv, JarOK, cookiesForDomain
<1>2. w = FlattenSeq(parts)
  BY DEF WriteDomainCookiesString
<1> HIDE DEF w, list
<1>3. /\ DOMAIN list = 1 .. Len(list) /\ Len(list) \in Nat
      /\ \A i \in 1 .. Len(list) : list[i] \in Cookie
  BY <1>1
<1>4. \A i \in 1 .. Len(list) : parts[i] \in Seq(Cookie)
  BY <1>3
<1>5. parts \in Seq(Seq(Cookie)) /\ Len(parts) = Len(list)
  BY <1>3, <1>4
<1>6. \A i \in 1 .. Len(list) :
        /\ Passed(u, list[i]) => Len(parts[i]) = 1 /\ parts[i][1] = list[i]
        /\ ~Passed(u, list[i]) => Len(parts[i]) = 0
  BY <1>3
<1> HIDE DEF parts
<1>7. w \in Seq(Cookie)
  BY <1>2, <1>5, FlattenFacts
<1>8. PICK cell : Lays(w, parts, Len(parts), cell)
  BY <1>2, <1>5, FlattenFacts
<1>9. \A c \in Cells(parts, Len(parts)) : c[1] \in 1 .. Len(list) /\ c[2] = 1 /\ c = <<c[1], 1>> /\ Passed(u, list[c[1]])
  <2>1. SUFFICES ASSUME NEW c \in Cells(parts, Len(parts))
                 PROVE  /\ c[1] \in 1 .. Len(list) /\ c[2] = 1 /\ c = <<c[1], 1>>
                        /\ Passed(u, list[c[1]])
    OBVIOUS
  <2>2. /\ c \in (1 .. Len(parts)) \X Nat /\ c = <<c[1], c[2]>> /\ c[1] \in 1 .. Len(list)
        /\ c[2] \in 1 .. Len(parts[c[1]])
    BY <1>5 DEF Cells
  <2>3. Passed(u, list[c[1]]) /\ Len(parts[c[1]]) = 1
    BY <1>6, <2>2
  <2>4. c[2] = 1
    BY <2>2, <2>3
  <2> QED
    BY <2>2, <2>3, <2>4
<1>10. \A i \in 1 .. Len(list) : Passed(u, list[i]) => <<i, 1>> \in Cells(parts, Len(parts))
  BY <1>3, <1>5, <1>6 DEF Cells
<1>11. \A k \in 1 .. Len(w) : cell[k] \in Cells(parts, Len(parts)) /\ w[k] = parts[cell[k][1]][cell[k][2]]
  BY <1>8 DEF Lays
<1> DEFINE at == [k \in 1 .. Len(w) |-> cell[k][1]]
<1>12. at \in [1 .. Len(w) -> {i \in 1 .. Len(list) : Passed(u, list[i])}]
  BY <1>9, <1>11
<1>13. \A k \in 1 .. Len(w) : at[k] = cell[k][1] /\ cell[k] = <<at[k], 1>>
  BY <1>9, <1>11
<1> HIDE DEF at
<1>14. \A k \in 1 .. Len(w) : w[k] = list[at[k]]
  <2>1. \A k \in 1 .. Len(w) : w[k] = parts[at[k]][1] /\ at[k] \in 1 .. Len(list) /\ Passed(u, list[at[k]])
    BY <1>9, <1>11, <1>13
  <2> QED
    BY <1>6, <2>1
<1>15. \A k, l \in 1 .. Len(w) : at[k] = at[l] => k = l
  <2>1. \A k, l \in 1 .. Len(w) : cell[k] = cell[l] => k = l
    BY <1>8 DEF Lays
  <2> QED
    BY <1>13, <2>1
<1>16. ASSUME NEW i \in 1 .. Len(list), Passed(u, list[i]) PROVE \E k \in 1 .. Len(w) : at[k] = i
  <2>1. PICK k \in 1 .. Len(w) : cell[k] = <<i, 1>>
    BY <1>8, <1>10, <1>16 DEF Lays
  <2> QED
    BY <1>13, <2>1
<1> QED
  <2>1. Written(u, d, at)
    BY <1>12, <1>14, <1>15, <1>16 DEF Written, w, list
  <2> QED
    BY <1>1, <1>7, <2>1 DEF w, list

(* A request has each entry that is for its URL once, and nothing else. *)
LEMMA SentFacts ==
  ASSUME JarInv, NEW u \in URLs
  PROVE  LET sent == SetHTTPRequest_CookiesString(u)
         IN /\ DOMAIN sent = 1 .. Len(sent)
            /\ \E place \in [DOMAIN sent -> Places(u)] :
                 /\ \A k \in DOMAIN sent : sent[k] = Entry(u, place[k])
                 /\ \A k, l \in DOMAIN sent : place[k] = place[l] => k = l
                 /\ \A p \in Places(u) : \E k \in DOMAIN sent : place[k] = p
<1> DEFINE name == HostName[u]
           tail(k) == LastLabels(name, k)
           list(k) == cookiesForDomain(cookieDict, tail(k))
           w(k) == WriteDomainCookiesString(u, tail(k))
           parts == [k \in DOMAIN name |-> IF LongEnough(tail(k), name) THEN w(k) ELSE <<>>]
           sent == SetHTTPRequest_CookiesString(u)
           at == [k \in DOMAIN name |-> CHOOSE a : Written(u, tail(k), a)]
<1>1. name \in Seq(STRING) /\ DOMAIN name = 1 .. Len(name) /\ Len(name) \in Nat
  <2>1. HostName \in [URLs -> Seq(STRING) \ {<<>>}]
    BY CookiesAssumption DEF CookiesAssumption
  <2>2. name \in Seq(STRING) \ {<<>>}
    BY <2>1
  <2> QED
    BY <2>2
<1>2. sent = FlattenSeq(parts)
  BY DEF SetHTTPRequest_CookiesString
<1> HIDE DEF sent, name
<1>3. \A k \in DOMAIN name :
        w(k) \in Seq(Cookie) /\ list(k) \in Seq(Cookie) /\ Written(u, tail(k), at[k])
  BY WrittenFacts
<1>4. ASSUME NEW k \in DOMAIN name
      PROVE  /\ at[k] \in [1 .. Len(w(k)) -> {i \in 1 .. Len(list(k)) : Passed(u, list(k)[i])}]
             /\ \A i \in 1 .. Len(w(k)) : w(k)[i] = list(k)[at[k][i]]
             /\ \A i, j \in 1 .. Len(w(k)) : at[k][i] = at[k][j] => i = j
             /\ \A i \in 1 .. Len(list(k)) :
                  Passed(u, list(k)[i]) => \E j \in 1 .. Len(w(k)) : at[k][j] = i
  <2>1. Written(u, tail(k), at[k])
    BY <1>3
  <2> HIDE DEF at
  <2> QED
    BY <2>1 DEF Written
<1> HIDE DEF w, list
<1>5. \A k \in DOMAIN name : parts[k] \in Seq(Cookie)
  BY <1>3
<1>6. parts \in Seq(Seq(Cookie)) /\ Len(parts) = Len(name)
  BY <1>1, <1>5
<1>7. \A k \in 1 .. Len(name) : /\ LongEnough(tail(k), name) => parts[k] = w(k)
                                /\ ~LongEnough(tail(k), name) => Len(parts[k]) = 0
  BY <1>1
<1> HIDE DEF parts
<1>8. sent \in Seq(Cookie)
  BY <1>2, <1>6, FlattenFacts
<1>9. PICK cell : Lays(sent, parts, Len(parts), cell)
  BY <1>2, <1>6, FlattenFacts
<1>10. \A c \in Cells(parts, Len(parts)) :
         /\ c[1] \in 1 .. Len(name) /\ LongEnough(tail(c[1]), name) /\ c[2] \in 1 .. Len(w(c[1]))
         /\ parts[c[1]] = w(c[1]) /\ c = <<c[1], c[2]>>
  BY <1>1, <1>6, <1>7 DEF Cells
<1>11. \A k \in 1 .. Len(name) : \A j \in 1 .. Len(w(k)) :
         LongEnough(tail(k), name) => <<k, j>> \in Cells(parts, Len(parts))
  BY <1>1, <1>3, <1>6, <1>7 DEF Cells
<1>12. \A i \in 1 .. Len(sent) :
         cell[i] \in Cells(parts, Len(parts)) /\ sent[i] = parts[cell[i][1]][cell[i][2]]
  BY <1>9 DEF Lays
<1> DEFINE place == [i \in 1 .. Len(sent) |-> <<cell[i][1], at[cell[i][1]][cell[i][2]]>>]
           a(i) == at[cell[i][1]][cell[i][2]]
<1> HIDE DEF at
<1>13. ASSUME NEW i \in 1 .. Len(sent)
       PROVE  /\ cell[i][1] \in 1 .. Len(name) /\ LongEnough(tail(cell[i][1]), name)
              /\ cell[i][2] \in 1 .. Len(w(cell[i][1])) /\ cell[i] = <<cell[i][1], cell[i][2]>>
              /\ a(i) \in 1 .. Len(list(cell[i][1])) /\ Passed(u, list(cell[i][1])[a(i)])
              /\ sent[i] = list(cell[i][1])[a(i)]
  <2>1. /\ cell[i][1] \in 1 .. Len(name) /\ LongEnough(tail(cell[i][1]), name)
        /\ cell[i][2] \in 1 .. Len(w(cell[i][1])) /\ cell[i] = <<cell[i][1], cell[i][2]>>
        /\ sent[i] = w(cell[i][1])[cell[i][2]]
    BY <1>10, <1>12
  <2> DEFINE k == cell[i][1]
             j == cell[i][2]
  <2>2. k \in DOMAIN name /\ j \in 1 .. Len(w(k))
    BY <1>1, <2>1
  <2> HIDE DEF k, j
  <2>4. at[k][j] \in {m \in 1 .. Len(list(k)) : Passed(u, list(k)[m])} /\ w(k)[j] = list(k)[at[k][j]]
    BY <1>4, <2>2
  <2> QED
    BY <2>1, <2>4 DEF k, j
<1>14. ASSUME NEW k \in 1 .. Len(name), NEW m \in 1 .. Len(list(k))
       PROVE  tail(k) \in DOMAIN cookieDict /\ list(k) = cookieDict[tail(k)] /\ m \in Nat
  <2>1. list(k) # <<>> /\ m \in Nat
    BY <1>1, <1>3, <1>14
  <2> QED
    BY <2>1 DEF list, cookiesForDomain
<1>15. \A i \in 1 .. Len(sent) :
         /\ place[i] \in Places(u) /\ sent[i] = Entry(u, place[i])
         /\ place[i][1] = cell[i][1] /\ place[i][2] = a(i)
  <2>1. SUFFICES ASSUME NEW i \in 1 .. Len(sent)
                 PROVE  <<cell[i][1], a(i)>> \in Places(u) /\ sent[i] = Entry(u, <<cell[i][1], a(i)>>)
    OBVIOUS
  <2> DEFINE k == cell[i][1]
             m == a(i)
  <2>2. /\ k \in 1 .. Len(name) /\ LongEnough(tail(k), name) /\ m \in 1 .. Len(list(k))
        /\ Passed(u, list(k)[m]) /\ sent[i] = list(k)[m]
    BY <1>13
  <2> HIDE DEF k, m
  <2>3. tail(k) \in DOMAIN cookieDict /\ list(k) = cookieDict[tail(k)] /\ m \in Nat
    BY <1>14, <2>2
  <2>4. <<k, m>> \in Places(u) /\ sent[i] = Entry(u, <<k, m>>)
    BY <2>2, <2>3 DEF Places, Entry, name
  <2> QED
    BY <2>4 DEF k, m
<1>16. ASSUME NEW i \in 1 .. Len(sent), NEW j \in 1 .. Len(sent), place[i] = place[j]
       PROVE  i = j
  <2>1. cell[i][1] = cell[j][1] /\ a(i) = a(j)
    BY <1>15, <1>16
  <2> DEFINE k == cell[i][1]
  <2>2. /\ k \in DOMAIN name /\ cell[i][2] \in 1 .. Len(w(k)) /\ cell[j][2] \in 1 .. Len(w(k))
        /\ at[k][cell[i][2]] = at[k][cell[j][2]] /\ cell[i] = <<k, cell[i][2]>> /\ cell[j] = <<k, cell[j][2]>>
    BY <1>1, <1>13, <2>1
  <2> HIDE DEF k
  <2>3. cell[i][2] = cell[j][2]
    <3>1. \A m, n \in 1 .. Len(w(k)) : at[k][m] = at[k][n] => m = n
      BY <1>4, <2>2
    <3> QED
      BY <2>2, <3>1
  <2>4. cell[i] = cell[j]
    BY <2>2, <2>3
  <2> QED
    BY <1>9, <2>4 DEF Lays
<1>17. ASSUME NEW p \in Places(u) PROVE \E i \in 1 .. Len(sent) : place[i] = p
  <2> DEFINE k == p[1]
             m == p[2]
  <2>1. /\ k \in 1 .. Len(name) /\ LongEnough(tail(k), name) /\ tail(k) \in DOMAIN cookieDict
        /\ m \in 1 .. Len(cookieDict[tail(k)]) /\ Passed(u, cookieDict[tail(k)][m]) /\ p = <<k, m>>
    BY DEF Places, name
  <2> HIDE DEF k, m
  <2>2. list(k) = cookieDict[tail(k)] /\ k \in DOMAIN name
    BY <1>1, <2>1 DEF list, cookiesForDomain
  <2>3. PICK j \in 1 .. Len(w(k)) : at[k][j] = m
    BY <1>4, <2>1, <2>2
  <2>4. <<k, j>> \in Cells(parts, Len(parts))
    BY <1>11, <2>1
  <2>5. PICK i \in 1 .. Len(sent) : cell[i] = <<k, j>>
    BY <1>9, <2>4 DEF Lays
  <2>6. place[i] = <<k, m>>
    BY <2>3, <2>5
  <2> QED
    BY <2>1, <2>6
<1>18. DOMAIN sent = 1 .. Len(sent)
  BY <1>8
<1>19. place \in [DOMAIN sent -> Places(u)]
  BY <1>15, <1>18
<1> HIDE DEF place
<1> QED
  BY <1>15, <1>16, <1>17, <1>18, <1>19 DEF sent

(* The editions of r, in what was received, are those of its entry. *)
LEMMA EditionFacts ==
  ASSUME JarInv, NEW i \in DOMAIN received, NEW d, NEW e, IsFirst(received, i, d, e)
  PROVE  /\ received[i] \in Receipts /\ received[i] \in Range(received)
         /\ MeantFor(received[i]) = d /\ Found(received[i].cookie, e)
         /\ Editions(received[i]) = {m \in DOMAIN received : IsEdition(received, m, d, e)}
         /\ received[Min(Editions(received[i]))] = received[i]
<1> DEFINE r == received[i]
<1>1. received \in Seq(Receipts) /\ DOMAIN received \in SUBSET Nat
  BY DEF JarInv, JarOK
<1>2. MeantFor(r) = d /\ Found(r.cookie, e)
  BY DEF IsFirst, IsEdition
<1>3. Editions(r) = {m \in DOMAIN received : IsEdition(received, m, d, e)}
  BY <1>2 DEF Editions, IsEdition, Found
<1>4. i \in Editions(r) /\ \A m \in Editions(r) : i <= m
  BY <1>3 DEF IsFirst
<1>5. Min(Editions(r)) = i
  <2>1. \A m \in Editions(r) : m \in Nat /\ (m <= i => m = i)
    BY <1>1, <1>3, <1>4
  <2>2. \E x \in Editions(r) : \A y \in Editions(r) : x <= y
    BY <1>4
  <2> DEFINE min == CHOOSE x \in Editions(r) : \A y \in Editions(r) : x <= y
  <2>3. min \in Editions(r) /\ min <= i
    BY <1>4, <2>2
  <2>4. Min(Editions(r)) = min
    BY DEF Min
  <2> HIDE DEF min
  <2> QED
    BY <2>1, <2>3, <2>4
<1>6. r \in Range(received)
  BY DEF Range
<1> QED
  BY <1>1, <1>2, <1>3, <1>5, <1>6

(* SetHTTPRequest_CookiesString looks a domain up where Reaches says so. *)
LEMMA LooksUp ==
  ASSUME NEW name \in Seq(STRING) \ {<<>>}, NEW k \in 1 .. Len(name)
  PROVE  /\ LastLabels(name, k) \in Seq(STRING) /\ Len(LastLabels(name, k)) = k
         /\ LastLabels(name, k) # <<>> /\ IsSuffix(LastLabels(name, k), name)
         /\ LongEnough(LastLabels(name, k), name) <=> Enough(LastLabels(name, k)) \/ Len(name) = 1
<1> DEFINE d == LastLabels(name, k)
           n == Len(name)
<1>1. n \in Nat /\ n > 0 /\ k \in Nat /\ k > 0
  BY EmptySeq
<1>2. d \in Seq(STRING) /\ Len(d) = k /\ \A i \in 1 .. k : d[i] = name[n - k + i]
  <2>1. \A i \in n - k + 1 .. n : name[i] \in STRING
    BY <1>1
  <2>2. n - (n - k + 1) + 1 = k /\ n - k + 1 \in Int /\ n \in Int /\ n - k + 1 <= n
    BY <1>1
  <2>3. \A i \in 1 .. k : n - k + 1 + i - 1 = n - k + i
    BY <1>1
  <2> QED
    BY <2>1, <2>2, <2>3, SubSeqProperties DEF LastLabels
<1> HIDE DEF d
<1>3. d # <<>>
  BY <1>1, <1>2, EmptySeq
<1>4. IsSuffix(d, name)
  BY <1>1, <1>2, SuffixFacts DEF d
<1>5. Last(d) = Last(name)
  <2>1. k \in 1 .. k /\ n - k + k = n
    BY <1>1
  <2> QED
    BY <1>2, <2>1 DEF Last
<1>6. LongEnough(d, name) <=> Enough(d) \/ n = 1
  <2> DEFINE labels == IF Last(name) \in TopLevelDomains THEN 2 ELSE 3
  <2>1. /\ n < 2 => LongEnough(d, name)
        /\ ~(n < 2) => (LongEnough(d, name) <=> k >= labels)
    BY <1>1, <1>2 DEF LongEnough, GetDomainMinNumberOfPeriods
  <2>2. Enough(d) <=> k >= labels
    BY <1>2, <1>5 DEF Enough
  <2>3. labels \in Nat /\ labels >= 2
    OBVIOUS
  <2> HIDE DEF labels
  <2>4. CASE n = 1
    BY <1>1, <2>1, <2>4
  <2>5. CASE n # 1
    <3>1. \A m \in Nat : m > 0 /\ m # 1 => ~(m < 2)
      OBVIOUS
    <3>2. ~(n < 2)
      <4> HIDE DEF n
      <4> QED
        BY <1>1, <2>5, <3>1
    <3> QED
      BY <2>1, <2>2, <2>5, <3>2, Zenon
  <2> QED
    BY <2>4, <2>5
<1> QED
  BY <1>2, <1>3, <1>4, <1>6 DEF d

LEMMA ComeBack == ASSUME JarInv, url \in URLs PROVE CookiesComeBack
<1> DEFINE sent == SetHTTPRequest_CookiesString(url)
           name == HostName[url]
           tail(p) == LastLabels(name, p[1])
           Stands(p, i) ==
             /\ IsFirst(received, i, tail(p), Entry(url, p))
             /\ Entry(url, p) = [received[i].cookie EXCEPT !.expires = Entry(url, p).expires]
<1>1. name \in Seq(STRING) \ {<<>>}
  <2>1. HostName \in [URLs -> Seq(STRING) \ {<<>>}]
    BY CookiesAssumption DEF CookiesAssumption
  <2> QED
    BY <2>1
<1>2. PICK place \in [DOMAIN sent -> Places(url)] :
        /\ \A k \in DOMAIN sent : sent[k] = Entry(url, place[k])
        /\ \A k, l \in DOMAIN sent : place[k] = place[l] => k = l
        /\ \A p \in Places(url) : \E k \in DOMAIN sent : place[k] = p
  BY SentFacts
<1> HIDE DEF sent
<1>3. ASSUME NEW p \in Places(url)
      PROVE  /\ p[1] \in 1 .. Len(name) /\ p[2] \in Nat /\ p = <<p[1], p[2]>>
             /\ tail(p) \in DOMAIN cookieDict /\ p[2] \in DOMAIN cookieDict[tail(p)]
             /\ Entry(url, p) \in Cookie /\ Entry(url, p) = cookieDict[tail(p)][p[2]]
             /\ LongEnough(tail(p), name) /\ Passed(url, Entry(url, p))
             /\ Keeps(received, tail(p), Entry(url, p))
  <2>1. /\ p[1] \in 1 .. Len(name) /\ p[2] \in Nat /\ p = <<p[1], p[2]>>
        /\ tail(p) \in DOMAIN cookieDict /\ p[2] \in 1 .. Len(cookieDict[tail(p)])
        /\ LongEnough(tail(p), name) /\ Passed(url, Entry(url, p))
        /\ Entry(url, p) = cookieDict[tail(p)][p[2]]
    BY DEF Places, Entry
  <2> HIDE DEF name
  <2>2. cookieDict[tail(p)] \in Seq(Cookie)
    BY <2>1 DEF JarInv, JarOK
  <2>3. p[2] \in DOMAIN cookieDict[tail(p)] /\ Entry(url, p) \in Cookie
    BY <2>1, <2>2
  <2>4. Keeps(received, tail(p), Entry(url, p))
    BY <2>1, <2>3 DEF JarInv, JarOK
  <2> QED
    BY <2>1, <2>3, <2>4
<1> HIDE DEF name
<1>4. ASSUME NEW p \in Places(url) PROVE \E i \in DOMAIN received : Stands(p, i)
  BY <1>3 DEF Keeps
<1> DEFINE number(p) == CHOOSE i \in DOMAIN received : Stands(p, i)
           edition == [k \in DOMAIN sent |-> received[number(place[k])]]
<1>5. ASSUME NEW p \in Places(url) PROVE number(p) \in DOMAIN received /\ Stands(p, number(p))
  <2> HIDE DEF Stands
  <2> QED
    BY <1>4
<1> HIDE DEF number
<1>6. ASSUME NEW p \in Places(url)
      PROVE  LET r == received[number(p)]
             IN /\ r \in Receipts /\ r \in Range(received) /\ received[Min(Editions(r))] = r
                /\ MeantFor(r) = tail(p) /\ Found(r.cookie, Entry(url, p))
                /\ Editions(r) = {m \in DOMAIN received : IsEdition(received, m, tail(p), Entry(url, p))}
                /\ Entry(url, p) = [r.cookie EXCEPT !.expires = Entry(url, p).expires]
  BY <1>5, EditionFacts
<1>7. ASSUME NEW p \in Places(url) PROVE Reaches(received[number(p)], url)
  <2> DEFINE r == received[number(p)]
  <2>1. MeantFor(r) = tail(p) /\ r.cookie.path = Entry(url, p).path
    BY <1>6 DEF Found
  <2>2. tail(p) # <<>> /\ IsSuffix(tail(p), name) /\ (Enough(tail(p)) \/ Len(name) = 1)
    BY <1>1, <1>3, LooksUp
  <2>3. IsPrefix(r.cookie.path, PathOf[url])
    BY <1>3, <2>1 DEF Passed
  <2> HIDE DEF r
  <2>4. Reaches(r, url)
    BY <2>1, <2>2, <2>3 DEF Reaches, Within, name
  <2> QED
    BY <2>4 DEF r
<1>8. ASSUME NEW p \in Places(url) PROVE Lasting(received[number(p)])
  <2> DEFINE e == Entry(url, p)
             r == received[number(p)]
  <2>1. PICK m \in DOMAIN received :
          IsEdition(received, m, tail(p), e) /\ received[m].cookie.expires = e.expires
    BY <1>3 DEF Keeps
  <2>2. m \in Editions(r)
    BY <1>6, <2>1
  <2>3. e.expires = NoDate \/ e.expires >= now
    <3>1. e \in Cookie /\ ~Expired(e) /\ now \in Nat
      BY <1>3 DEF Passed, JarInv
    <3> HIDE DEF e
    <3>2. e.expires = NoDate \/ (e.expires \in Nat /\ ~(e.expires < now))
      BY <3>1 DEF Cookie, Expired
    <3> QED
      BY <3>1, <3>2
  <2> QED
    BY <2>1, <2>2, <2>3 DEF Lasting
<1>9. edition \in [DOMAIN sent -> Firsts(url)]
  <2>1. \A k \in DOMAIN sent : place[k] \in Places(url)
    OBVIOUS
  <2>2. \A k \in DOMAIN sent : received[number(place[k])] \in Firsts(url)
    BY <1>6, <1>7, <2>1 DEF Firsts
  <2> QED
    BY <2>2
<1>10. \A k \in DOMAIN sent :
         /\ sent[k] = [edition[k].cookie EXCEPT !.expires = sent[k].expires]
         /\ Lasting(edition[k])
  <2>1. SUFFICES ASSUME NEW k \in DOMAIN sent
                 PROVE  /\ sent[k] = [edition[k].cookie EXCEPT !.expires = sent[k].expires]
                        /\ Lasting(edition[k])
    OBVIOUS
  <2>2. place[k] \in Places(url) /\ edition[k] = received[number(place[k])] /\ sent[k] = Entry(url, place[k])
    BY <1>2
  <2> HIDE DEF edition
  <2> QED
    BY <1>6, <1>8, <2>2
<1>11. ASSUME NEW k \in DOMAIN sent, NEW l \in DOMAIN sent, edition[k] = edition[l]
       PROVE  k = l
  <2> DEFINE p == place[k]
             q == place[l]
  <2>1. p \in Places(url) /\ q \in Places(url) /\ received[number(p)] = received[number(q)]
    BY <1>11
  <2> HIDE DEF edition, p, q
  <2>2. /\ tail(p) = tail(q) /\ Found(Entry(url, p), Entry(url, q))
    BY <1>6, <2>1 DEF Found
  <2>3. p[1] = q[1]
    BY <1>1, <1>3, <2>1, <2>2, LooksUp
  <2>4. p[2] = q[2]
    BY <1>3, <2>1, <2>2 DEF JarInv, JarOK
  <2>5. p = q
    BY <1>3, <2>1, <2>3, <2>4
  <2> QED
    BY <1>2, <2>5 DEF p, q
<1>12. ASSUME NEW r \in Firsts(url), Undated(r), r.cookie.max_age = -1
       PROVE  r \in Range(edition)
  <2> DEFINE i == Min(Editions(r))
             d == MeantFor(r)
             k == Len(d)
  <2>1. r \in Range(received) /\ Reaches(r, url) /\ received[i] = r
    BY <1>12 DEF Firsts
  <2>2. PICK j \in DOMAIN received : received[j] = r
    BY <2>1 DEF Range
  <2>3. received \in Seq(Receipts) /\ r \in Receipts
    BY <2>2 DEF JarInv, JarOK
  <2>4. d \in Seq(STRING)
    BY <2>3 DEF Receipts, Cookie, MeantFor
  <2>5. PICK m \in DOMAIN cookieDict[d] : d \in DOMAIN cookieDict /\ Found(cookieDict[d][m], r.cookie)
    BY <2>2 DEF JarInv, JarOK
  <2> DEFINE e == cookieDict[d][m]
             p == <<k, m>>
  <2>6. e \in Cookie /\ m \in Nat /\ m \in 1 .. Len(cookieDict[d])
    BY <2>5 DEF JarInv, JarOK
  <2>7. k \in 1 .. Len(name) /\ d = LastLabels(name, k)
    <3>1. d # <<>> /\ IsSuffix(d, name)
      BY <2>1 DEF Reaches, Within, name
    <3>2. Len(d) <= Len(name) /\ d = LastLabels(name, Len(d))
      BY <1>1, <2>4, <3>1, SuffixFacts
    <3>3. Len(d) \in Nat /\ Len(d) # 0 /\ Len(name) \in Nat
      BY <1>1, <2>4, <3>1, EmptySeq
    <3> QED
      BY <3>2, <3>3
  <2>8. LongEnough(d, name)
    <3>1. Enough(d) \/ Len(name) = 1
      BY <2>1 DEF Reaches, name
    <3> QED
      BY <1>1, <2>7, <3>1, LooksUp
  <2>9. Keeps(received, d, e)
    BY <2>5 DEF JarInv, JarOK
  <2> HIDE DEF e, d, k
  <2>10. PICK first \in DOMAIN received :
           IsFirst(received, first, d, e) /\ e = [received[first].cookie EXCEPT !.expires = e.expires]
    BY <2>9 DEF Keeps
  <2>11. /\ received[first] \in Receipts
         /\ Editions(received[first]) = {n \in DOMAIN received : IsEdition(received, n, d, e)}
         /\ received[Min(Editions(received[first]))] = received[first]
    BY <2>10, EditionFacts
  <2>12. Editions(r) = {n \in DOMAIN received : IsEdition(received, n, d, e)}
    BY <2>5 DEF Editions, IsEdition, Found, d, e
  <2>13. received[first] = r
    BY <2>1, <2>11, <2>12
  <2>14. e.expires = NoDate
    <3>1. PICK n \in DOMAIN received : IsEdition(received, n, d, e) /\ received[n].cookie.expires = e.expires
      BY <2>9 DEF Keeps
    <3> QED
      BY <1>12, <2>12, <3>1 DEF Undated
  <2>15. e.max_age = -1 /\ e.issue_time = 0 /\ e.path = r.cookie.path
    BY <1>12, <2>3, <2>10, <2>13 DEF Receipts, Cookie
  <2>16. Passed(url, e)
    <3>1. ~Expired(e)
      <4>1. now \in Nat /\ ~(now - 0 <= -1)
        BY DEF JarInv
      <4> QED
        BY <2>14, <2>15, <4>1 DEF Expired
    <3>2. IsPrefix(e.path, PathOf[url])
      BY <2>1, <2>15 DEF Reaches
    <3> QED
      BY <3>1, <3>2 DEF Passed
  <2>17. p \in Places(url) /\ Entry(url, p) = e /\ tail(p) = d
    <3>1. Entry(url, p) = e /\ tail(p) = d
      BY <2>7 DEF Entry, name, e
    <3>2. p \in Places(url)
      BY <2>5, <2>6, <2>7, <2>8, <2>16 DEF Places, name, e
    <3> QED
      BY <3>1, <3>2
  <2> HIDE DEF p
  <2>18. received[number(p)] = r
    <3>1. received[number(p)] = received[Min({n \in DOMAIN received : IsEdition(received, n, d, e)})]
      BY <1>6, <2>17
    <3> QED
      BY <2>1, <2>12, <3>1
  <2>19. PICK n \in DOMAIN sent : place[n] = p
    BY <1>2, <2>17
  <2>20. n \in DOMAIN edition /\ edition[n] = r
    BY <2>18, <2>19
  <2> HIDE DEF edition
  <2> QED
    BY <2>20 DEF Range
<1> HIDE DEF edition
<1> QED
  BY <1>9, <1>10, <1>11, <1>12 DEF CookiesComeBack, sent

LEMMA OwnHeader == IInv => HeaderOwn
<1> SUFFICES ASSUME IInv, pc = "header"
             PROVE  url \in URLs /\ \A n \in 1 .. arrived : stream[n].line = "head" => stream[n].url = url
  BY DEF HeaderOwn
<1>1. url \in URLs /\ OwnHeads(stream) /\ stream \in Seq(Pieces) /\ arrived \in 0 .. Len(stream)
  BY DEF IInv, TypeOK, StreamInv
<1>2. \A n \in 1 .. arrived : n \in 1 .. Len(stream)
  BY <1>1
<1> QED
  BY <1>1, <1>2 DEF OwnHeads

(* Whatever cookies the headers of a dig set, in which order and through    *)
(* which faults of the network: where indexOf finds a cookie's domain at    *)
(* the end of a host name only, a request carries each cookie that is meant *)
(* for it and lasts, once, and no other.                                    *)
THEOREM CookiesReturn == EndsOnly => (SpecCookies => []CookiesComeBack)
<1> SUFFICES ASSUME EndsOnly PROVE SpecCookies => []CookiesComeBack
  OBVIOUS
<1>1. InitCookies => IInv /\ JarInv
  BY InitInv, InitJar DEF InitCookies
<1>2. IInv /\ JarInv /\ [NextCookies]_allVars => IInv' /\ JarInv'
  BY JarLooksOn, NextInv, OneSetting, OwnHeader, JarStep
<1>3. IInv /\ JarInv => CookiesComeBack
  <2>1. CASE pc = "request"
    <3>1. IInv => url \in URLs
      BY <2>1 DEF IInv, TypeOK
    <3> QED
      BY <3>1, ComeBack
  <2>2. CASE pc # "request"
    BY <2>2 DEF CookiesComeBack
  <2> QED
    BY <2>1, <2>2
<1> QED
  BY <1>1, <1>2, <1>3, PTL DEF SpecCookies
=============================================================================
