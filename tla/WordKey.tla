-------------------------------- MODULE WordKey --------------------------------
(****************************************************************************)
(* Keys of the word index (hlword/WordKey.cc): a word and N numbers.  Field *)
(* 0 is the word, which stands for its place in byte order; a word with     *)
(* \001 appended is the place after the word's own.  A stored key defines   *)
(* every field.  A search key defines some of them, and its word is a whole *)
(* word or the beginning of one.                                            *)
(****************************************************************************)
EXTENDS Integers

CONSTANTS
  N,          \* how many numbers a key has
  MaxValue,   \* the greatest value of each
  Words,      \* the places of words
  Extends,    \* the words a word is the beginning of, itself among them
  Last,       \* the place of "\002": the keys of statistics come before it
  StatWord    \* where the statistics of a word are

ASSUMPTION FieldsAssumption == N \in Nat /\ MaxValue \in [1..N -> Nat]

(* Words come after the statistics, and the words with a common beginning   *)
(* are neighbours.                                                          *)
ASSUMPTION WordsAssumption ==
  /\ Words \subseteq Nat /\ Last \in Nat /\ \A w \in Words : Last < w
  /\ \A w \in Words : w + 1 \notin Words
  /\ Extends \in [Words -> SUBSET Words]
  /\ \A p \in Words : p \in Extends[p] /\ \A w \in Extends[p] : p <= w
  /\ \A p \in Words : \A last \in Extends[p] : \A w \in Words :
       p <= w /\ w <= last => w \in Extends[p]
  /\ StatWord \in [Words -> Nat] /\ \A w \in Words : StatWord[w] < Last

Fields == 0 .. N

Values == Words \union UNION {0 .. MaxValue[i] : i \in 1..N}

WordRecords ==
  {k \in [Fields -> Values] : k[0] \in Words /\ \A i \in 1..N : k[i] <= MaxValue[i]}

(* The keys the statistics of words are under. *)
StatRecordsOf(words) ==
  {[i \in Fields |-> IF i = 0 THEN StatWord[w] ELSE 0] : w \in words \intersect Words}

StatRecords == StatRecordsOf(Words)

Patterns ==
  {s \in [value : [Fields -> Values \union {0}], defined : SUBSET Fields, suffix : BOOLEAN] :
     /\ 0 \in s.defined => s.value[0] \in Words
     /\ s.suffix => 0 \in s.defined
     /\ \A i \in s.defined \ {0} : s.value[i] <= MaxValue[i]}

(* A field that is not defined is 0. *)
SearchKeys ==
  {[s EXCEPT !.value = [i \in Fields |-> IF i \in s.defined THEN s.value[i] ELSE 0]] :
     s \in Patterns}

NoKey == [value |-> [i \in Fields |-> 0], defined |-> {}, suffix |-> FALSE]

Least(S) == CHOOSE i \in S : \A j \in S : i <= j

Greatest(S) == CHOOSE i \in S : \A j \in S : j <= i

(* Compare: the first field that differs decides. *)
Less(a, b) ==
  \E i \in Fields : a[i] < b[i] /\ \A j \in Fields : j < i => a[j] = b[j]

(* Equal, one field at a time. *)
FieldEqual(s, k, i) ==
  IF i = 0 /\ ~s.suffix THEN k[0] \in Extends[s.value[0]] ELSE k[i] = s.value[i]

Equal(s, k) == \A i \in s.defined : FieldEqual(s, k, i)

ExactEqual(s, t) ==
  Equal(s, t.value) /\ s.defined = t.defined /\ s.suffix = t.suffix

(* Mutant: a word that is only begun does not end the prefix. *)
PrefixOnlyLong(s) ==
  LET kept == {i \in s.defined : \A j \in 0..i : j \in s.defined}
  IN  [s EXCEPT !.value = [i \in Fields |-> IF i \in kept THEN s.value[i] ELSE 0],
                !.defined = kept]

(* PrefixOnly: what comes before the first undefined field. *)
PrefixOnly(s) ==
  LET kept == {i \in s.defined : /\ i = 0 \/ s.suffix
                                 /\ \A j \in 0..i : j \in s.defined}
  IN  [s EXCEPT !.value = [i \in Fields |-> IF i \in kept THEN s.value[i] ELSE 0],
                !.defined = kept]

(* Diff: the first field that differs from the search key, and whether the  *)
(* key is lower there.  For the word the order is inverted.                 *)
DiffField(k, s) == Least({i \in s.defined : ~FieldEqual(s, k, i)})

(* Mutant: the order of the numbers inverted too. *)
DiffLowerInverted(k, s) ==
  LET d == DiffField(k, s)
  IN  k[d] > s.value[d]

DiffLower(k, s) ==
  LET d == DiffField(k, s)
  IN  IF d = 0 THEN k[0] > s.value[0] ELSE k[d] < s.value[d]

(* The field SetToFollowing adds one to: the last one up to position that   *)
(* does not overflow, else the word.  A position of -1 is the last field.   *)
Carry(k, defined, position) ==
  LET p == IF position = -1 THEN N ELSE position
  IN  Greatest({0} \union {i \in defined \ {0} : i <= p /\ k[i] < MaxValue[i]})

(* WORD_FOLLOWING_ATEND *)
NoFollowing(k, defined, position) ==
  Carry(k, defined, position) = 0 /\ 0 \notin defined

SetToFollowing(k, defined, position) ==
  LET c == Carry(k, defined, position)
  IN  [i \in Fields |-> IF i \notin defined \/ i < c THEN k[i]
                        ELSE IF i = c THEN k[i] + 1 ELSE 0]

(* Merge: the fields that are not defined are taken from the search key. *)
Merge(k, defined, s) == [i \in Fields |-> IF i \in defined THEN k[i] ELSE s.value[i]]
================================================================================
