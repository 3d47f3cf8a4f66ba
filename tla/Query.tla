---------------------------------- MODULE Query --------------------------------
(****************************************************************************)
(* What a query means.  The code reads words and operators from left to     *)
(* right and keeps a stack; the meaning splits a text at its last operator  *)
(* outside of brackets and phrases, | before & and !, and so on with the    *)
(* two parts.                                                               *)
(****************************************************************************)
EXTENDS Parser

Operators == {"&", "|", "!"}

(* How many brackets are open behind a place of a text. *)
Depth(words, i) ==
  LET brackets(type) == {j \in 1..i : words[j].type = type /\ ~InPhrase(words, j)}
  IN  Cardinality(brackets("(")) - Cardinality(brackets(")"))

(* The operators of a part of a text that are in no bracket of it. *)
Outer(words, part, types) ==
  {k \in part[1] .. part[2] :
     /\ words[k].type \in types /\ ~InPhrase(words, k)
     /\ Depth(words, k) = Depth(words, part[1] - 1)}

Main(words, part) ==
  LET alternatives == Outer(words, part, {"|"})
  IN  Greatest(IF alternatives # {} THEN alternatives ELSE Outer(words, part, Operators))

(* An ignored operand leaves the other one as it is. *)
Joined(op, left, right) ==
  IF right = Ignored \/ (left = Ignored /\ op = "!") THEN left
  ELSE IF left = Ignored THEN right
  ELSE ResultList(CASE op = "&" -> left.of \intersect right.of
                    [] op = "|" -> left.of \union right.of
                    [] op = "!" -> left.of \ right.of)

(* Parts of a text, and what each means when leaf has the meaning of the    *)
(* word or phrase that begins at a place.                                   *)
Parts(words) == (1 .. Len(words) + 1) \X (0 .. Len(words))

Meaning(words, leaf) ==
  LET meaning[part \in Parts(words)] ==
        IF part[1] > part[2] THEN Ignored
        ELSE IF Outer(words, part, Operators) # {}
          THEN LET k == Main(words, part)
               IN  Joined(words[k].type, meaning[<<part[1], k - 1>>], meaning[<<k + 1, part[2]>>])
        ELSE IF words[part[1]].type = "(" THEN meaning[<<part[1] + 1, part[2] - 1>>]
        ELSE leaf[part[1]]
  IN  meaning

(* The words of a phrase whose quote is at a place, and where each of them  *)
(* stands, from the first that is looked up: the words before it that have  *)
(* a place in the text are counted.                                         *)
Phrase(words, quote) ==
  {i \in quote + 1 .. Len(words) : \A j \in quote + 1 .. i : words[j].type # "quote"}

LookedUp(words, quote) == {i \in Phrase(words, quote) : words[i].type = "word"}

Place(words, quote, i) ==
  Cardinality({j \in Least(LookedUp(words, quote)) .. i - 1 : words[j].type \in {"word", "bad"}})

PhraseMeaning(words, quote) ==
  {d \in {DocID(k) : k \in index \ StatRecords} :
     /\ LookedUp(words, quote) # {}
     /\ \E start \in 0 .. MaxValue[3] : \A i \in LookedUp(words, quote) :
          \E k \in Occurrences(words[i].word) :
            DocID(k) = d /\ Location(k) = start + Place(words, quote, i)}

(* A word means itself where it has no substitutes. *)
WordMeaning(t) ==
  {DocID(k) : k \in UNION {{o \in Occurrences(w) : Flags(o) \in t.fields} :
                           w \in IF Fuzzy[t.word] = <<>> THEN {t.word} ELSE Seqs!ToSet(Fuzzy[t.word])}}

LeafMeaning(words) ==
  [i \in DOMAIN words |->
     CASE words[i].type = "quote" -> ResultList(PhraseMeaning(words, i))
       [] words[i].type = "word" -> ResultList(WordMeaning(words[i]))
       [] words[i].type = "*" -> ResultList(Recorded)
       [] OTHER -> Ignored]

(* Words and phrases without operators, for the other match methods. *)
ListMeaning(words, op) ==
  LET upTo[i \in 0 .. Len(words)] ==
        IF i = 0 THEN Ignored
        ELSE IF InPhrase(words, i - 1) THEN upTo[i - 1]
        ELSE Joined(op, upTo[i - 1], LeafMeaning(words)[i])
  IN  upTo[Len(words)]

QueryMeaning(q) ==
  CASE q.match_method = "boolean" -> Meaning(q.words, LeafMeaning(q.words))[<<1, Len(q.words)>>]
    [] q.match_method = "and" -> ListMeaning(q.words, "&")
    [] q.match_method = "or" -> ListMeaning(q.words, "|")

KeywordsMeaning(keywords) ==
  {d \in Recorded \union {DocID(k) : k \in index \ StatRecords} :
     LET found == {i \in DOMAIN keywords : \E k \in Occurrences(keywords[i]) : DocID(k) = d}
     IN  IF any_keywords THEN found # {} ELSE found = DOMAIN keywords}

(* What is found is what was asked for, whatever was asked before: parse    *)
(* with its stack and its static counter, setupWords, convertToBoolean,     *)
(* doFuzzy, addRequiredWords.                                               *)
AnswerIsMeaning ==
  step = "parsed" =>
    LET asked == QueryMeaning(Queries[query])
        keywords == Queries[query].keywords
        docs == IF keywords = <<>> THEN asked.of
                ELSE IF asked = Ignored THEN KeywordsMeaning(keywords)
                ELSE asked.of \intersect KeywordsMeaning(keywords)
    IN  matches = docs \intersect Normal /\ stack = <<>> /\ ignoredWords = 0

----------------------------------------------------------------------------
(* The queries this is meant for: what the parser takes without a message,  *)
(* and none of those it answers otherwise.                                  *)

(* Behind an operand comes an operator, a closing bracket or the end, and   *)
(* behind anything else an operand; brackets and quotes are closed.         *)
OperandEnds(words, i) == i > 0 /\ (IsWord(words[i]) \/ words[i].type \in {")", "quote"})

Grammatical(words) ==
  /\ ~InPhrase(words, Len(words)) /\ Depth(words, Len(words)) = 0
  /\ \A i \in 0 .. Len(words) : ~InPhrase(words, i) =>
       /\ Depth(words, i) >= 0
       /\ IF OperandEnds(words, i)
          THEN i = Len(words) \/ words[i + 1].type \in Operators \union {")"}
          ELSE i < Len(words) /\ (IsWord(words[i + 1]) \/ words[i + 1].type \in {"(", "quote"})

(* A list has words and phrases only, and at least one. *)
IsList(words) ==
  /\ words # <<>> /\ ~InPhrase(words, Len(words))
  /\ \A i \in DOMAIN words : InPhrase(words, i) \/ IsWord(words[i]) \/ words[i].type = "quote"

(* No word with a place is passed over between the last word of a phrase    *)
(* and its end.                                                             *)
PhrasesEnd(words) ==
  \A quote \in DOMAIN words : words[quote].type = "quote" /\ InPhrase(words, quote) =>
    \A i \in Phrase(words, quote) : words[i].type = "bad" =>
      \/ \A j \in LookedUp(words, quote) : j > i
      \/ \E j \in LookedUp(words, quote) : j > i

(* No alternative in brackets is ignored: a word that is found nowhere      *)
(* before it would be taken for one to ignore.                              *)
AlternativesFound(words) ==
  LET kind == Meaning(words, [i \in DOMAIN words |->
                                IF words[i].type \in {"quote", "word", "*"} THEN ResultList({}) ELSE Ignored])
  IN  \A part \in (2 .. Len(words)) \X (2 .. Len(words) - 1) :
        LET i == part[1]
            j == part[2]
        IN  /\ i <= j /\ ~InPhrase(words, i - 1) /\ ~InPhrase(words, j)
            /\ Depth(words, j) = Depth(words, i - 1)
            /\ \A k \in i .. j : Depth(words, k) >= Depth(words, i - 1)
            /\ words[i - 1].type \in {"(", "|"} /\ words[j + 1].type \in {")", "|"}
            /\ "|" \in {words[i - 1].type, words[j + 1].type} /\ Depth(words, j) > 0
            => kind[part] # Ignored

Tokens ==
  [type : Operators \union {"(", ")", "quote", "bad", "short", "*"}] \union
  [type : {"word"}, word : Words, fields : SUBSET AllFields]

(* Outside of phrases a word without substitutes is asked for in any field. *)
Substituted(words) ==
  \A i \in DOMAIN words : words[i].type = "word" /\ ~InPhrase(words, i) =>
    Fuzzy[words[i].word] # <<>> \/ words[i].fields = AllFields

(* What the parser reads is to be of the kind above. *)
Readable(words) ==
  words \in Seq(Tokens) /\ Grammatical(words) /\ AlternativesFound(words) /\ PhrasesEnd(words)

WellAsked ==
  /\ Fuzzy \in [Words -> Seq(Words)]
  /\ \A i \in DOMAIN Queries :
       LET q == Queries[i]
       IN  /\ q.words \in Seq(Tokens) /\ q.keywords \in Seq(Words)
           /\ \/ q.match_method = "boolean" /\ Grammatical(q.words)
              \/ q.match_method \in {"and", "or"} /\ IsList(q.words)
           /\ Substituted(q.words) /\ Readable(addRequiredWords(setupWords(q), q.keywords))
================================================================================
