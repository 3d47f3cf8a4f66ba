------------------------------- MODULE MCSearch --------------------------------
(* A document, a flag and a location; "fo" begins "foo".  Of the documents  *)
(* one has no words and one is not normal.                                  *)
EXTENDS Query

MCMaxValue == <<1, 1, 2>>
MCWords == {4, 6}
MCExtends == [w \in MCWords |-> IF w = 4 THEN {4, 6} ELSE {w}]
MCStatWord == [w \in MCWords |-> (w - 4) \div 2]
MCFuzzy == [w \in MCWords |-> IF w = 4 THEN <<>> ELSE <<6, 4>>]

(* A leaf is a word to look up or to ignore, or a phrase in its quotes. *)
Leaf(words) == [op |-> "leaf", words |-> words]
Node(op, left, right) == [op |-> op, left |-> left, right |-> right]

(* A tree is written down with the brackets it needs. *)
RECURSIVE Text(_)

Text(tree) ==
  IF tree.op = "leaf" THEN tree.words
  ELSE LET Operand(t, brackets) == IF brackets THEN Bracketed(Text(t)) ELSE Text(t)
           leftTighter == tree.left.op # "|" \/ tree.op = "|"
           rightTighter == tree.right.op = "leaf" \/ (tree.op = "|" /\ tree.right.op # "|")
       IN  Operand(tree.left, ~leftTighter) \o <<Token(tree.op)>> \o
           Operand(tree.right, ~rightTighter)

Fo == Word(4, {0, 1})
TitleFoo == Word(6, {1})
Bad == Token("bad")

Quoted(words) == Leaf(<<Token("quote")>> \o words \o <<Token("quote")>>)
FarPhrase == Quoted(<<Bad, Fo, Token("short"), Bad, TitleFoo>>)
NearPhrase == Quoted(<<TitleFoo, Token("&"), Fo>>)

WordLeaves == [i \in 1..4 |-> Leaf(<<(<<Fo, TitleFoo, Bad, Token("*")>>)[i]>>)]
Leaves == WordLeaves \o <<FarPhrase, NearPhrase>>

(* Every operator between every two different trees. *)
Pairs(lefts, rights) ==
  LET n == Len(lefts)
      pair(i) == Node(<<"&", "|", "!">>[1 + (i % 3)], lefts[1 + ((i \div 3) % n)],
                      rights[1 + (i \div (3 * n))])
      different(t) == t.left # t.right
  IN  SelectSeq([i \in 1 .. 3 * n * Len(rights) |-> pair(i - 1)], different)

(* Three different words with two different operators; no ignored word is   *)
(* an operand of a bracketed "or".                                          *)
Triples ==
  LET bracketable(t) == t.op # "|" \/ Leaf(<<Bad>>) \notin {t.left, t.right}
      inner == SelectSeq(Pairs(WordLeaves, WordLeaves), bracketable)
      twoOps(t) ==
        LET leaf == CHOOSE u \in {t.left, t.right} : u.op = "leaf"
            node == CHOOSE u \in {t.left, t.right} : u.op # "leaf"
        IN  t.op # node.op /\ leaf \notin {node.left, node.right}
  IN  SelectSeq(Pairs(inner, WordLeaves) \o Pairs(WordLeaves, inner), twoOps)

Trees == Leaves \o Pairs(Leaves, Leaves) \o Triples

BooleanQueries ==
  LET trees == Trees
  IN  [i \in DOMAIN trees |->
        [match_method |-> "boolean", words |-> Text(trees[i]), keywords |-> <<>>]]

(* Lists of words and phrases for the other methods. *)
ListQuery(method, leaves, keywords) ==
  [match_method |-> method, words |-> Seqs!FlattenSeq([i \in DOMAIN leaves |-> leaves[i].words]),
   keywords |-> keywords]

ListQueries ==
  <<ListQuery("and", <<Leaf(<<Fo>>), FarPhrase, Leaf(<<TitleFoo>>)>>, <<>>),
    ListQuery("or", <<Leaf(<<Fo>>), FarPhrase, Leaf(<<TitleFoo>>)>>, <<6>>),
    ListQuery("and", <<FarPhrase, NearPhrase>>, <<>>),
    ListQuery("or", <<NearPhrase, Leaf(<<Fo>>)>>, <<4, 6>>),
    ListQuery("and", <<Leaf(<<Token("*")>>), Leaf(<<Bad>>)>>, <<4>>)>>

MCQueries == BooleanQueries \o ListQueries

(* The meaning of a text is that of the tree it is written from, whatever   *)
(* its words and phrases mean: they mean enough to tell any two texts apart.*)
Sample(n) ==
  IF Leaves[n] = Leaf(<<Bad>>) THEN Ignored
  ELSE ResultList({d \in 0 .. 63 : (d \div 2^(n - 1)) % 2 = 1})

SampleAt(words, i) ==
  LET here == {n \in DOMAIN Leaves : Seqs!IsPrefix(Leaves[n].words, SubSeq(words, i, Len(words)))}
  IN  IF here = {} THEN Ignored ELSE Sample(CHOOSE n \in here : TRUE)

RECURSIVE TreeMeaning(_)

TreeMeaning(tree) ==
  IF tree.op = "leaf" THEN Sample(CHOOSE n \in DOMAIN Leaves : Leaves[n] = tree)
  ELSE Joined(tree.op, TreeMeaning(tree.left), TreeMeaning(tree.right))

ASSUME \A tree \in Seqs!ToSet(Trees) :
  LET words == Text(tree)
  IN  Meaning(words, [i \in DOMAIN words |-> SampleAt(words, i)])[<<1, Len(words)>>] = TreeMeaning(tree)

ASSUME WellAsked
================================================================================
