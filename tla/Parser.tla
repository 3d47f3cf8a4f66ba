--------------------------------- MODULE Parser --------------------------------
(****************************************************************************)
(* A search in the word index: hlsearch turns what the user asks into words *)
(* and operators (hlsearch/hlsearch.cc), and the Parser evaluates them as   *)
(* it reads them (hlsearch/parser.cc).  A number of calls of expr are open, *)
(* each with the operators whose right operand is still to come; the        *)
(* results of the operands are on a stack.  Nothing else runs meanwhile, so *)
(* the look-up of a word is one step: what a walk for it collects.          *)
(****************************************************************************)
EXTENDS WordCursor, Sequences

CONSTANTS
  Queries,       \* a sequence of what users ask: words, match_method and keywords
  Fuzzy,         \* the words search_algorithm looks up for a word
  any_keywords,  \* attribute: one of the keywords is enough
  Recorded,      \* the documents that have a record,
  Normal         \* and those of them that are Reference_normal

(* A key of the word index has the fields below, behind the word itself.    *)
ASSUMPTION KeyAssumption == N >= 3

VARIABLES
  query,         \* which of them is being asked, or 0
  tokens,        \* the words and operators left to read
  calls,         \* the open calls of expr, with what waits for a right operand
  stack,         \* the results of operands
  wordList,      \* where the phrase so far occurs, and "null" before its first word
  ignoredWords,  \* words passed over in a phrase; static, so it outlives a query
  matches,       \* the documents found
  step           \* "idle", "factor", "term", "phrase", "parsed"

parserVars == <<query, tokens, calls, stack, wordList, ignoredWords, matches, step>>

searchVars == <<vars, parserVars>>

Seqs == INSTANCE SequencesExt

(* Fields of the keys of the word index (wordlist_wordkey_description). *)
DocID(k) == k[1]
Flags(k) == k[2]
Location(k) == k[3]

AllFields == 0 .. MaxValue[2]

(* A word to look up, or one to be ignored: "bad" if it has a place in the  *)
(* text, "short" if it has not.                                             *)
Word(w, fields) == [type |-> "word", word |-> w, fields |-> fields]
Token(type) == [type |-> type]

IsWord(t) == t.type \in {"word", "bad", "short", "*"}

(* Operands on the stack. *)
Null == [kind |-> "null", of |-> {}]
Ignored == [kind |-> "ignored", of |-> {}]
ResultList(docs) == [kind |-> "list", of |-> docs]

InPhrase(words, i) == Cardinality({j \in 1..i : words[j].type = "quote"}) % 2 = 1

(* convertToBoolean, for the match methods "and" and "or". *)
convertToBoolean(words, operator) ==
  Seqs!FlattenSeq([i \in DOMAIN words |->
    IF i = 1 \/ InPhrase(words, i - 1) THEN <<words[i]>>
    ELSE <<Token(operator), words[i]>>])

Between(operator, words) ==
  Seqs!FlattenSeq([i \in DOMAIN words |->
    IF i = 1 THEN <<words[i]>> ELSE <<Token(operator), words[i]>>])

Bracketed(words) == <<Token("(")>> \o words \o <<Token(")")>>

(* doFuzzy.  A word without substitutes is taken itself, in any field. *)
doFuzzy(t) ==
  LET found == [i \in DOMAIN Fuzzy[t.word] |-> Word(Fuzzy[t.word][i], t.fields)]
  IN  IF found = <<>> THEN <<Word(t.word, AllFields)>>
      ELSE IF Len(found) = 1 THEN found
      ELSE Bracketed(Between("|", found))

(* setupWords *)
setupWords(q) ==
  LET words == CASE q.match_method = "boolean" -> q.words
                 [] q.match_method = "and" -> convertToBoolean(q.words, "&")
                 [] q.match_method = "or" -> convertToBoolean(q.words, "|")
  IN  Seqs!FlattenSeq([i \in DOMAIN words |->
        IF words[i].type = "word" /\ ~InPhrase(words, i) THEN doFuzzy(words[i])
        ELSE <<words[i]>>])

addRequiredWords(words, keywords) ==
  LET required == [i \in DOMAIN keywords |-> Word(keywords[i], AllFields)]
  IN  IF required = <<>> THEN words
      ELSE Bracketed(words) \o <<Token("&")>> \o
           IF Len(required) = 1 THEN required
           ELSE Bracketed(Between(IF any_keywords THEN "|" ELSE "&", required))

(* words[p]: a walk for the whole word. *)
Occurrences(w) ==
  {k \in index \ StatRecords :
     Equal([NoKey EXCEPT !.value[0] = w, !.defined = {0}, !.suffix = TRUE], k)}

(* score, of which what is left is which documents get a score. *)
score(occurrences, fields) ==
  IF occurrences = {} THEN Null
  ELSE ResultList({DocID(k) : k \in {o \in occurrences : Flags(o) \in fields}})

perform_push(t) ==
  CASE t.type = "*" -> ResultList(Recorded)
    [] t.type \in {"bad", "short"} -> Ignored
    [] t.type = "word" -> score(Occurrences(t.word), t.fields)

perform_and(l2, l1) ==
  CASE Null \in {l1, l2} -> Null
    [] Null \notin {l1, l2} /\ l1 = Ignored -> l2
    [] Null \notin {l1, l2} /\ l1 # Ignored /\ l2 = Ignored -> l1
    [] OTHER -> ResultList(l2.of \intersect l1.of)

perform_not(l2, l1) ==
  IF l1 \in {Null, Ignored} \/ l2 \in {Null, Ignored} THEN l2
  ELSE ResultList(l2.of \ l1.of)

perform_or(l2, l1) ==
  CASE l1 = Null -> l2
    [] l1 # Null /\ l2 = Null -> l1
    [] Null \notin {l1, l2} /\ l1 = Ignored -> l2
    [] Null \notin {l1, l2} /\ l1 # Ignored /\ l2 = Ignored -> l1
    [] OTHER -> ResultList(l2.of \union l1.of)

----------------------------------------------------------------------------
NewCall == [or |-> FALSE, op |-> "none"]

InitSearch ==
  /\ Init
  /\ query = 0 /\ tokens = <<>> /\ calls = <<>> /\ stack = <<>>
  /\ wordList = Null /\ ignoredWords = 0 /\ matches = {} /\ step = "idle"

Lookahead(type) == tokens # <<>> /\ Head(tokens).type = type

Current == calls[Len(calls)]

(* htsearch, up to the first call of expr *)
Ask ==
  /\ step = "idle" /\ status = "idle" /\ step' = "factor"
  /\ query' \in DOMAIN Queries
  /\ LET q == Queries[query']
     IN  tokens' = addRequiredWords(setupWords(q), q.keywords)
  /\ calls' = <<NewCall>>
  /\ UNCHANGED <<stack, wordList, ignoredWords, matches>>

FactorPhrase ==
  /\ step = "factor" /\ Lookahead("quote") /\ step' = "phrase"
  /\ tokens' = Tail(tokens) /\ wordList' = Null
  /\ UNCHANGED <<query, calls, stack, ignoredWords, matches>>

FactorBracket ==
  /\ step = "factor" /\ Lookahead("(")
  /\ tokens' = Tail(tokens) /\ calls' = Append(calls, NewCall)
  /\ UNCHANGED <<query, stack, wordList, ignoredWords, matches, step>>

FactorWord ==
  /\ step = "factor" /\ tokens # <<>> /\ IsWord(Head(tokens)) /\ step' = "term"
  /\ stack' = Append(stack, perform_push(Head(tokens))) /\ tokens' = Tail(tokens)
  /\ UNCHANGED <<query, calls, wordList, ignoredWords, matches>>

(* perform_phrase, in a phrase that may still be found.  Of the words to be *)
(* ignored those that have a place in the text count.                       *)
PhrasePasses(t) ==
  /\ t.type # "word"
  /\ ignoredWords' = IF t.type = "bad" /\ wordList # Null THEN ignoredWords + 1
                     ELSE ignoredWords
  /\ UNCHANGED wordList

PhraseBegins(t) ==
  /\ t.type = "word" /\ wordList = Null
  /\ wordList' = ResultList(Occurrences(t.word))
  /\ UNCHANGED ignoredWords

(* Mutant: the words passed over are counted on. *)
PhraseGoesOnCounting(t) ==
  /\ t.type = "word" /\ wordList # Null
  /\ wordList' = ResultList({k \in Occurrences(t.word) : \E old \in wordList.of :
                    /\ DocID(old) = DocID(k)
                    /\ Location(k) = Location(old) + ignoredWords + 1})
  /\ UNCHANGED ignoredWords

PhraseGoesOn(t) ==
  /\ t.type = "word" /\ wordList # Null
  /\ wordList' = ResultList({k \in Occurrences(t.word) : \E old \in wordList.of :
                    /\ DocID(old) = DocID(k)
                    /\ Location(k) = Location(old) + ignoredWords + 1})
  /\ ignoredWords' = 0

PhraseWord ==
  /\ step = "phrase" /\ tokens # <<>> /\ ~Lookahead("quote")
  /\ IF wordList.kind = "list" /\ wordList.of = {}
     THEN UNCHANGED <<wordList, ignoredWords>>
     ELSE LET t == Head(tokens) IN PhrasePasses(t) \/ PhraseBegins(t) \/ PhraseGoesOn(t)
  /\ tokens' = Tail(tokens)
  /\ UNCHANGED <<query, calls, stack, matches, step>>

PhraseEnds ==
  /\ step = "phrase" /\ Lookahead("quote") /\ step' = "term"
  /\ stack' = Append(stack, score(wordList.of, AllFields)) /\ tokens' = Tail(tokens)
  /\ wordList' = Null
  /\ UNCHANGED <<query, calls, ignoredWords, matches>>

(* The two results on top of the stack become one. *)
Combined(op, l2, l1) ==
  CASE op = "&" -> perform_and(l2, l1)
    [] op = "!" -> perform_not(l2, l1)
    [] op = "|" -> perform_or(l2, l1)

Perform(op) ==
  LET n == Len(stack)
  IN  stack' = Append(SubSeq(stack, 1, n - 2), Combined(op, stack[n - 1], stack[n]))

(* term, after its second factor and every further one *)
TermCombines ==
  /\ step = "term" /\ Current.op # "none"
  /\ Perform(Current.op) /\ calls' = [calls EXCEPT ![Len(calls)].op = "none"]
  /\ UNCHANGED <<query, tokens, wordList, ignoredWords, matches, step>>

TermGoesOn ==
  /\ step = "term" /\ Current.op = "none" /\ (Lookahead("&") \/ Lookahead("!"))
  /\ calls' = [calls EXCEPT ![Len(calls)].op = Head(tokens).type]
  /\ tokens' = Tail(tokens) /\ step' = "factor"
  /\ UNCHANGED <<query, stack, wordList, ignoredWords, matches>>

TermEnds == step = "term" /\ Current.op = "none" /\ ~Lookahead("&") /\ ~Lookahead("!")

(* expr, after its second term and every further one *)
ExprCombines ==
  /\ TermEnds /\ Current.or
  /\ Perform("|") /\ calls' = [calls EXCEPT ![Len(calls)].or = FALSE]
  /\ UNCHANGED <<query, tokens, wordList, ignoredWords, matches, step>>

ExprGoesOn ==
  /\ TermEnds /\ ~Current.or /\ Lookahead("|")
  /\ calls' = [calls EXCEPT ![Len(calls)].or = TRUE]
  /\ tokens' = Tail(tokens) /\ step' = "factor"
  /\ UNCHANGED <<query, stack, wordList, ignoredWords, matches>>

(* The call returns to factor, which goes on behind the bracket. *)
ExprReturns ==
  /\ TermEnds /\ ~Current.or /\ Lookahead(")") /\ Len(calls) > 1
  /\ tokens' = Tail(tokens) /\ calls' = Seqs!Front(calls)
  /\ UNCHANGED <<query, stack, wordList, ignoredWords, matches, step>>

(* parse, after fullexpr: its call of expr returns *)
Parsed ==
  /\ TermEnds /\ ~Current.or /\ Len(calls) = 1 /\ tokens = <<>> /\ step' = "parsed"
  /\ matches' = Seqs!Last(stack).of \intersect Normal /\ stack' = Seqs!Front(stack)
  /\ calls' = <<>> /\ UNCHANGED <<query, tokens, wordList, ignoredWords>>

(* The next collection, or the next query of a client of libhtdig.  Each    *)
(* has a new Parser; of the old one only the static ignoredWords remains.   *)
Shown ==
  /\ step = "parsed" /\ step' = "idle" /\ matches' = {} /\ query' = 0
  /\ UNCHANGED <<tokens, calls, stack, wordList, ignoredWords>>

Parse ==
  \/ FactorPhrase \/ FactorBracket \/ FactorWord \/ PhraseWord \/ PhraseEnds
  \/ TermCombines \/ TermGoesOn \/ ExprCombines \/ ExprGoesOn \/ ExprReturns \/ Parsed

NextSearch ==
  \/ step = "idle" /\ Next /\ UNCHANGED parserVars
  \/ (Ask \/ Parse \/ Shown) /\ UNCHANGED vars

SearchSpec == InitSearch /\ [][NextSearch]_searchVars

(* perform_and, perform_not and perform_or find the two operands they pop,  *)
(* and parse the result, with which the stack is empty: none was left over. *)
OperandsThere ==
  /\ step = "term" => Len(stack) >= IF Current.op # "none" \/ Current.or THEN 2 ELSE 1
  /\ step \in {"idle", "parsed"} => stack = <<>>
================================================================================
