--------------------------- MODULE WordCursorProofs ----------------------------
(****************************************************************************)
(* The walk of WordCursor hands over every record that matches, in order,   *)
(* whatever it jumps over: it implements WordWalk, for any number of        *)
(* fields, any values and any words.  From StackInv on, the parser of       *)
(* hlsearch: it has the operands it takes, and what it finds is what the    *)
(* text it reads means.                                                     *)
(****************************************************************************)
EXTENDS Query, TLAPS, WellFoundedInduction, FiniteSetTheorems, SequenceTheorems

Keys == [Fields -> Nat]

(* A non-empty set of numbers has a least member.                           *)
LEMMA LeastExists ==
  ASSUME NEW S \in SUBSET Nat, S # {}
  PROVE  Least(S) \in S /\ \A j \in S : Least(S) <= j
<1> DEFINE R == {ss \in Nat \X Nat : ss[1] < ss[2]}
<1>1. IsWellFoundedOn(R, Nat)
  BY NatLessThanWellFounded DEF OpToRel
<1>2. \E i \in S : \A j \in S : ~(<<j, i>> \in R)
  <2> HIDE DEF R
  <2> QED  BY <1>1, WFMin, Zenon
<1>3. PICK i \in S : \A j \in S : ~(<<j, i>> \in R)
  BY <1>2
<1>4. ASSUME NEW j \in S  PROVE  i <= j
  <2>1. <<j, i>> \notin R
    BY <1>3
  <2>2. j \in Nat /\ i \in Nat
    OBVIOUS
  <2> QED  BY <2>1, <2>2
<1> QED  BY <1>4 DEF Least

(* A bounded one has a greatest member.                                     *)
LEMMA GreatestExists ==
  ASSUME NEW n \in Nat, NEW S \in SUBSET (0 .. n), S # {}
  PROVE  Greatest(S) \in S /\ \A j \in S : j <= Greatest(S)
<1> DEFINE T == {n - i : i \in S}
<1>1. T \in SUBSET Nat /\ T # {}
  <2>1. \A i \in S : n - i \in Nat
    OBVIOUS
  <2> QED  BY <2>1
<1>2. Least(T) \in T /\ \A t \in T : Least(T) <= t
  BY <1>1, LeastExists
<1>3. PICK i \in S : Least(T) = n - i
  BY <1>2
<1>4. ASSUME NEW j \in S  PROVE  j <= i
  <2>1. n - j \in T
    OBVIOUS
  <2>2. n - i <= n - j
    BY <1>2, <1>3, <2>1
  <2>3. i \in Nat /\ j \in Nat
    OBVIOUS
  <2> QED  BY <2>2, <2>3
<1> QED  BY <1>4 DEF Greatest

----------------------------------------------------------------------------
(* The order of keys.                                                       *)

LEMMA FirstDifference ==
  ASSUME NEW a \in Keys, NEW b \in Keys, a # b
  PROVE  \E i \in Fields : a[i] # b[i] /\ \A j \in Fields : j < i => a[j] = b[j]
<1> DEFINE D == {i \in Fields : a[i] # b[i]}
<1>1. D \in SUBSET Nat
  BY FieldsAssumption DEF Fields
<1>2. D # {}
  <2>1. a = [i \in Fields |-> a[i]] /\ b = [i \in Fields |-> b[i]]
    BY DEF Keys
  <2>2. ASSUME \A i \in Fields : a[i] = b[i]  PROVE  a = b
    BY <2>1, <2>2
  <2> QED  BY <2>2
<1>3. PICK i \in D : \A j \in D : i <= j
  <2> HIDE DEF D
  <2> QED  BY <1>1, <1>2, LeastExists
<1>4. \A j \in Fields : j \in Nat
  BY FieldsAssumption DEF Fields
<1>5. ASSUME NEW j \in Fields, j < i  PROVE  a[j] = b[j]
  <2>1. j \notin D
    BY <1>3, <1>4, <1>5
  <2> QED  BY <2>1
<1> QED  BY <1>3, <1>5

LEMMA LessTotal ==
  ASSUME NEW a \in Keys, NEW b \in Keys, ~Less(a, b)
  PROVE  a = b \/ Less(b, a)
<1>1. CASE a = b
  BY <1>1
<1>2. CASE a # b
  <2>1. PICK i \in Fields : a[i] # b[i] /\ \A j \in Fields : j < i => a[j] = b[j]
    BY <1>2, FirstDifference
  <2>2. a[i] \in Nat /\ b[i] \in Nat
    BY DEF Keys
  <2>3. ~(a[i] < b[i])
    BY <2>1 DEF Less
  <2>4. b[i] < a[i]
    BY <2>1, <2>2, <2>3
  <2> QED  BY <2>1, <2>4 DEF Less
<1> QED  BY <1>1, <1>2

LEMMA LessTransitive ==
  ASSUME NEW a \in Keys, NEW b \in Keys, NEW c \in Keys, Less(a, b), Less(b, c)
  PROVE  Less(a, c)
<1>1. PICK i \in Fields : a[i] < b[i] /\ \A j \in Fields : j < i => a[j] = b[j]
  BY DEF Less
<1>2. PICK k \in Fields : b[k] < c[k] /\ \A j \in Fields : j < k => b[j] = c[j]
  BY DEF Less
<1>3. i \in Nat /\ k \in Nat /\ \A j \in Fields : j \in Nat
  BY FieldsAssumption DEF Fields
<1>4. \A j \in Fields : a[j] \in Nat /\ b[j] \in Nat /\ c[j] \in Nat
  BY DEF Keys
<1>5. CASE i <= k
  <2>1. a[i] < c[i]
    BY <1>1, <1>2, <1>3, <1>4, <1>5
  <2>2. \A j \in Fields : j < i => a[j] = c[j]
    BY <1>1, <1>2, <1>3, <1>5
  <2> QED  BY <2>1, <2>2 DEF Less
<1>6. CASE k < i
  <2>1. a[k] < c[k]
    BY <1>1, <1>2, <1>3, <1>4, <1>6
  <2>2. \A j \in Fields : j < k => a[j] = c[j]
    BY <1>1, <1>2, <1>3, <1>6
  <2> QED  BY <2>1, <2>2 DEF Less
<1> QED  BY <1>3, <1>5, <1>6

LEMMA LessIrreflexive ==
  ASSUME NEW a \in Keys
  PROVE  ~Less(a, a)
BY DEF Less, Keys

(* Up to a key that is not less, and on to one that is greater.             *)
LEMMA LessOrEqualLess ==
  ASSUME NEW a \in Keys, NEW b \in Keys, NEW c \in Keys
  PROVE  /\ ~Less(b, a) /\ Less(b, c) => Less(a, c)
         /\ Less(a, b) /\ ~Less(c, b) => Less(a, c)
         /\ ~Less(b, a) /\ ~Less(c, b) => ~Less(c, a)
<1>1. ASSUME ~Less(b, a), Less(b, c)  PROVE  Less(a, c)
  BY <1>1, LessTotal, LessTransitive
<1>2. ASSUME Less(a, b), ~Less(c, b)  PROVE  Less(a, c)
  BY <1>2, LessTotal, LessTransitive
<1>3. ASSUME ~Less(b, a), ~Less(c, b), Less(c, a)  PROVE  FALSE
  <2>1. Less(c, b)
    BY <1>3, LessTotal, LessTransitive
  <2> QED  BY <1>3, <2>1
<1> QED  BY <1>1, <1>2, <1>3

----------------------------------------------------------------------------
(* Jumps.  v are the values searched, free the fields that were not, f the  *)
(* key found, d the first field that differs, m a key that matches.         *)

(* The search constraint enforced and zeroes after it: the least key from f *)
(* on that has the values searched, when f is lower.                        *)
Enforced(f, v, free, d) ==
  [i \in Fields |-> IF i \notin free THEN v[i] ELSE IF i > d THEN 0 ELSE f[i]]

LEMMA LowerJump ==
  ASSUME NEW v \in Keys, NEW free \in SUBSET Fields, NEW f \in Keys,
         NEW d \in Fields, d \notin free, f[d] < v[d],
         \A i \in Fields : i < d /\ i \notin free => f[i] = v[i]
  PROVE  /\ Enforced(f, v, free, d) \in Keys
         /\ Less(f, Enforced(f, v, free, d))
         /\ \A m \in Keys :
              (\A i \in Fields : i \notin free => m[i] = v[i]) /\ Less(f, m)
              => ~Less(m, Enforced(f, v, free, d))
<1> DEFINE n == Enforced(f, v, free, d)
<1>0. /\ n \in Keys
      /\ \A i \in Fields :
           n[i] = IF i \notin free THEN v[i] ELSE IF i > d THEN 0 ELSE f[i]
  BY DEF Enforced, Keys
<1> HIDE DEF n
<1>1. \A i \in Fields : i \in Nat
  BY FieldsAssumption DEF Fields
<1>2. \A i \in Fields : f[i] \in Nat /\ v[i] \in Nat /\ n[i] \in Nat
  BY <1>0 DEF Keys
<1>3. \A i \in Fields : i < d => n[i] = f[i]
  BY <1>0, <1>1
<1>4. n[d] = v[d]
  BY <1>0
<1>5. Less(f, n)
  BY <1>3, <1>4 DEF Less
<1>6. ASSUME NEW m \in Keys, \A i \in Fields : i \notin free => m[i] = v[i],
             Less(f, m), Less(m, n)
      PROVE  FALSE
  <2>1. PICK e \in Fields : f[e] < m[e] /\ \A j \in Fields : j < e => f[j] = m[j]
    BY <1>6 DEF Less
  <2>2. PICK k \in Fields : m[k] < n[k] /\ \A j \in Fields : j < k => m[j] = n[j]
    BY <1>6 DEF Less
  <2>3. \A i \in Fields : m[i] \in Nat
    BY DEF Keys
  <2>4. m[d] = n[d]
    BY <1>4, <1>6
  <2>5. k # d
    BY <1>2, <2>2, <2>3, <2>4
  <2>6. CASE k < d
    <3>1. m[k] < f[k]
      BY <1>3, <2>2, <2>6
    <3>2. ~(k < e) /\ k # e
      BY <1>2, <2>1, <2>3, <3>1
    <3>3. e < k /\ e < d
      BY <1>1, <2>6, <3>2
    <3>4. m[e] = n[e] /\ n[e] = f[e]
      BY <1>3, <2>2, <3>3
    <3> QED  BY <1>2, <2>1, <2>3, <3>4
  <2>7. CASE k > d
    <3>1. n[k] = 0 \/ n[k] = m[k]
      BY <1>0, <1>6, <2>7
    <3> QED  BY <1>2, <2>2, <2>3, <3>1
  <2> QED  BY <1>1, <2>5, <2>6, <2>7
<1> QED  BY <1>0, <1>5, <1>6 DEF n

(* One added to the last field before d that is free and not at its         *)
(* greatest value, and zeroes after it: the least one when f is greater.    *)
(* Where no field can be incremented nothing greater than f matches.        *)
LEMMA GreaterJump ==
  ASSUME NEW v \in Keys, NEW free \in SUBSET Fields, NEW f \in Keys,
         NEW d \in Fields, d \notin free, v[d] < f[d],
         \A i \in Fields : i < d /\ i \notin free => f[i] = v[i],
         NEW c \in Fields, c < d, c = 0 \/ c \in free,
         \A i \in Fields :
           0 < i /\ i < d /\ i \in free /\ f[i] < MaxValue[i] => i <= c,
         NEW n \in Keys,
         \A i \in Fields :
           n[i] = IF i \notin free THEN v[i]
                  ELSE IF i < c THEN f[i] ELSE IF i = c THEN f[i] + 1 ELSE 0
  PROVE  /\ c \in free => Less(f, n)
         /\ \A m \in Keys :
              /\ \A i \in Fields : i \notin free => m[i] = v[i]
              /\ \A i \in 1..N : m[i] <= MaxValue[i]
              /\ Less(f, m)
              => c \in free /\ ~Less(m, n)
<1>1. \A i \in Fields : i \in Nat
  BY FieldsAssumption DEF Fields
<1>2. \A i \in Fields : f[i] \in Nat /\ v[i] \in Nat /\ n[i] \in Nat
  BY DEF Keys
<1>3. \A i \in Fields : i < c => n[i] = f[i]
  BY <1>1
<1>4. c \in free => n[c] = f[c] + 1
  BY <1>1
<1>5. ASSUME c \in free  PROVE  Less(f, n)
  <2>1. f[c] < n[c]
    BY <1>2, <1>4, <1>5
  <2> QED  BY <1>3, <2>1 DEF Less
<1>6. ASSUME NEW m \in Keys, \A i \in Fields : i \notin free => m[i] = v[i],
             \A i \in 1..N : m[i] <= MaxValue[i], Less(f, m)
      PROVE  c \in free /\ ~Less(m, n)
  <2>1. PICK e \in Fields : f[e] < m[e] /\ \A j \in Fields : j < e => f[j] = m[j]
    BY <1>6 DEF Less
  <2>2. \A i \in Fields : m[i] \in Nat
    BY DEF Keys
  <2>3. m[d] = v[d]
    BY <1>6
  <2>4. ~(d < e) /\ d # e
    BY <1>2, <2>1, <2>2, <2>3
  <2>5. e < d
    BY <1>1, <2>4
  <2>6. e \in free
    BY <1>2, <1>6, <2>1, <2>2, <2>5
  <2>7. e <= c
    <3>1. CASE e = 0
      BY <1>1, <3>1
    <3>2. CASE e # 0
      <4>1. e \in 1..N
        BY <3>2, FieldsAssumption DEF Fields
      <4>2. m[e] <= MaxValue[e] /\ MaxValue[e] \in Nat
        BY <1>6, <4>1, FieldsAssumption
      <4>3. f[e] < MaxValue[e]
        BY <1>2, <2>1, <2>2, <4>2
      <4>4. 0 < e
        BY <1>1, <3>2
      <4> QED  BY <2>5, <2>6, <4>3, <4>4
    <3> QED  BY <3>1, <3>2
  <2>8. c \in free
    <3>1. CASE c = 0
      BY <1>1, <2>6, <2>7, <3>1
    <3> QED  BY <3>1
  <2>9. ASSUME Less(m, n)  PROVE  FALSE
    <3>1. PICK k \in Fields : m[k] < n[k] /\ \A j \in Fields : j < k => m[j] = n[j]
      BY <2>9 DEF Less
    <3>2. CASE e < c
      <4>1. n[e] = f[e] /\ \A j \in Fields : j < e => n[j] = f[j]
        BY <1>1, <1>3, <3>2
      <4>2. ~(e < k) /\ k # e
        BY <1>2, <2>1, <2>2, <3>1, <4>1
      <4>3. k < e
        BY <1>1, <4>2
      <4>4. n[k] = m[k]
        BY <2>1, <4>1, <4>3
      <4> QED  BY <2>2, <3>1, <4>4
    <3>3. CASE e = c
      <4>1. n[c] <= m[c] /\ \A j \in Fields : j < c => n[j] = m[j]
        BY <1>2, <1>3, <1>4, <2>1, <2>2, <2>8, <3>3
      <4>2. k # c /\ ~(k < c)
        BY <1>2, <2>2, <3>1, <4>1
      <4>3. k > c
        BY <1>1, <4>2
      <4>4. n[k] = 0 \/ n[k] = m[k]
        BY <1>1, <1>6, <4>3
      <4> QED  BY <2>2, <3>1, <4>4
    <3> QED  BY <1>1, <2>7, <3>2, <3>3
  <2> QED  BY <2>8, <2>9
<1> QED  BY <1>5, <1>6

----------------------------------------------------------------------------
(* Records and search keys.                                                 *)

LEMMA ValuesAreNat == 0 \in Fields /\ Values \subseteq Nat
<1>1. 0 \in Fields
  BY FieldsAssumption DEF Fields
<1>2. ASSUME NEW x \in UNION {0 .. MaxValue[i] : i \in 1..N}  PROVE  x \in Nat
  <2>1. PICK i \in 1..N : x \in 0 .. MaxValue[i]
    BY <1>2
  <2> QED  BY <2>1, FieldsAssumption
<1> QED  BY <1>1, <1>2, WordsAssumption DEF Values

LEMMA RecordFacts ==
  /\ WordRecords \subseteq Keys /\ StatRecords \subseteq Keys
  /\ \A k \in WordRecords : k[0] \in Words /\ \A i \in 1..N : k[i] <= MaxValue[i]
  /\ \A k \in StatRecords : k[0] < Last
  /\ WordRecords \intersect StatRecords = {}
<1>0. 0 \in Fields /\ Values \subseteq Nat
  BY ValuesAreNat
<1>1. ASSUME NEW k \in WordRecords  PROVE  k \in Keys
  <2>1. k \in [Fields -> Values]
    BY DEF WordRecords
  <2> QED  BY <1>0, <2>1 DEF Keys
<1>2. \A k \in WordRecords : k[0] \in Words /\ \A i \in 1..N : k[i] <= MaxValue[i]
  BY DEF WordRecords
<1>3. ASSUME NEW k \in StatRecords  PROVE  k \in Keys /\ k[0] < Last
  <2>1. PICK w \in Words : k = [i \in Fields |-> IF i = 0 THEN StatWord[w] ELSE 0]
    BY DEF StatRecords, StatRecordsOf
  <2>2. StatWord[w] \in Nat /\ StatWord[w] < Last
    BY WordsAssumption
  <2> QED  BY <1>0, <2>1, <2>2 DEF Keys
<1>4. ASSUME NEW k \in WordRecords, k \in StatRecords  PROVE  FALSE
  <2>1. k[0] \in Nat /\ Last \in Nat /\ Last < k[0] /\ k[0] < Last
    BY <1>2, <1>3, <1>4, WordsAssumption
  <2> QED  BY <2>1
<1> QED  BY <1>1, <1>2, <1>3, <1>4

LEMMA SearchKeyFacts ==
  ASSUME NEW s \in SearchKeys
  PROVE  /\ s \in [value : Keys, defined : SUBSET Fields, suffix : BOOLEAN]
         /\ s.suffix => 0 \in s.defined
         /\ 0 \in s.defined => s.value[0] \in Words
<1>1. Values \union {0} \subseteq Nat
  BY ValuesAreNat
<1>2. PICK p \in Patterns :
        s = [p EXCEPT !.value = [i \in Fields |-> IF i \in p.defined THEN p.value[i] ELSE 0]]
  BY DEF SearchKeys
<1>3. /\ p \in [value : [Fields -> Values \union {0}], defined : SUBSET Fields,
                suffix : BOOLEAN]
      /\ p.suffix => 0 \in p.defined
      /\ 0 \in p.defined => p.value[0] \in Words
  BY DEF Patterns
<1>4. /\ s = [value |-> [i \in Fields |-> IF i \in p.defined THEN p.value[i] ELSE 0],
             defined |-> p.defined, suffix |-> p.suffix]
      /\ s.defined = p.defined /\ s.suffix = p.suffix
      /\ s.value = [i \in Fields |-> IF i \in p.defined THEN p.value[i] ELSE 0]
  BY <1>2, <1>3
<1>5. [i \in Fields |-> IF i \in p.defined THEN p.value[i] ELSE 0] \in Keys
  BY <1>1, <1>3 DEF Keys
<1>6. 0 \in p.defined => s.value[0] = p.value[0]
  BY <1>3, <1>4
<1> QED  BY <1>3, <1>4, <1>5, <1>6

LEMMA PrefixFacts ==
  ASSUME NEW s \in SearchKeys, 0 \in s.defined
  PROVE  /\ Prefix(s).defined =
              {i \in s.defined : (i = 0 \/ s.suffix) /\ \A j \in 0..i : j \in s.defined}
         /\ Prefix(s).value =
              [i \in Fields |-> IF i \in Prefix(s).defined THEN s.value[i] ELSE 0]
         /\ Prefix(s).suffix = s.suffix
         /\ 0 \in Prefix(s).defined
<1>1. Prefix(s) = PrefixOnly(s) /\ s \in [value : Keys, defined : SUBSET Fields, suffix : BOOLEAN]
  BY SearchKeyFacts DEF Prefix
<1>2. 0 \in Fields /\ \A j \in 0..0 : j = 0
  BY FieldsAssumption DEF Fields
<1> QED  BY <1>1, <1>2 DEF PrefixOnly

(* Where a walk starts.                                                     *)
LEMMA FirstKeyIsKey ==
  ASSUME NEW s \in SearchKeys
  PROVE  FirstKey(s) \in Keys
<1>1. CASE 0 \in s.defined
  <2>1. FirstKey(s) = [i \in Fields |-> IF i \in Prefix(s).defined THEN s.value[i] ELSE 0]
    BY <1>1, PrefixFacts DEF FirstKey
  <2>2. \A i \in Fields : s.value[i] \in Nat
    BY SearchKeyFacts DEF Keys
  <2> QED  BY <2>1, <2>2 DEF Keys
<1>2. CASE 0 \notin s.defined
  <2>1. FirstKey(s) = [i \in Fields |-> IF i = 0 THEN Last ELSE 0]
    BY <1>2 DEF FirstKey
  <2> QED  BY <2>1, WordsAssumption DEF Keys
<1> QED  BY <1>1, <1>2

(* What matches has the prefix.                                             *)
LEMMA MatchHasPrefix ==
  ASSUME NEW s \in SearchKeys, NEW m, Equal(s, m)
  PROVE  Equal(Prefix(s), m)
<1>1. CASE 0 \in s.defined
  <2>1. ASSUME NEW i \in Prefix(s).defined  PROVE  FieldEqual(Prefix(s), m, i)
    <3>1. i \in s.defined /\ i \in Fields
      BY <1>1, PrefixFacts, SearchKeyFacts
    <3>2. FieldEqual(s, m, i) /\ Prefix(s).value[i] = s.value[i] /\ Prefix(s).suffix = s.suffix
      BY <1>1, <3>1, PrefixFacts DEF Equal
    <3> QED  BY <3>2 DEF FieldEqual
  <2> QED  BY <2>1 DEF Equal
<1>2. CASE 0 \notin s.defined
  BY <1>2 DEF Prefix, NoKey, Equal
<1> QED  BY <1>1, <1>2

(* Nothing from the first key on that lacks the prefix comes before a match. *)
LEMMA PastPrefixIsEnd ==
  ASSUME NEW s \in SearchKeys, NEW f \in WordRecords \union StatRecords,
         ~Less(f, FirstKey(s)), ~Equal(Prefix(s), f),
         NEW m \in WordRecords, Equal(s, m)
  PROVE  Less(m, f)
<1> DEFINE p == Prefix(s)
<1>0. 0 \in s.defined
  BY DEF Prefix, NoKey, Equal
<1>1. FirstKey(s) = p.value /\ FirstKey(s) \in Keys
  BY <1>0, FirstKeyIsKey DEF FirstKey
<1>2. f \in Keys /\ m \in Keys
  BY RecordFacts
<1>3. \A i \in Fields : i \in Nat /\ f[i] \in Nat /\ m[i] \in Nat /\ p.value[i] \in Nat
  BY <1>1, <1>2, FieldsAssumption DEF Fields, Keys
<1>4. p.defined \subseteq Fields /\ 0 \in p.defined /\ 0 \in Fields
  BY <1>0, PrefixFacts, SearchKeyFacts, FieldsAssumption DEF Fields
<1>5. Equal(p, m)
  BY MatchHasPrefix
<1>6. CASE ~s.suffix
  <2>1. p.defined = {0} /\ ~p.suffix /\ p.value[0] = s.value[0]
    BY <1>0, <1>4, <1>6, PrefixFacts
  <2>2. s.value[0] \in Words /\ m[0] \in Extends[s.value[0]]
    BY <1>0, <1>5, <2>1, SearchKeyFacts DEF Equal, FieldEqual
  <2>3. f[0] \notin Extends[s.value[0]]
    BY <2>1 DEF Equal, FieldEqual
  <2>4. ~(f[0] < p.value[0])
    BY <1>1, <1>3, <1>4 DEF Less
  <2>5. s.value[0] <= f[0]
    BY <1>3, <1>4, <2>1, <2>4
  <2>6. f[0] \in Words
    <3>1. Last < s.value[0] /\ Last \in Nat
      BY <2>2, WordsAssumption
    <3>2. ~(f[0] < Last)
      BY <1>3, <1>4, <2>1, <2>5, <3>1
    <3>3. f \in WordRecords
      BY <3>2, RecordFacts
    <3> QED  BY <3>3, RecordFacts
  <2>7. ~(f[0] <= m[0])
    BY <2>2, <2>3, <2>5, <2>6, WordsAssumption
  <2>8. m[0] < f[0]
    BY <1>3, <1>4, <2>7
  <2> QED  BY <1>3, <1>4, <2>8 DEF Less
<1>7. CASE s.suffix
  <2>1. \A i \in p.defined : m[i] = p.value[i]
    BY <1>0, <1>5, <1>7, PrefixFacts DEF Equal, FieldEqual
  <2>2. PICK j \in p.defined : f[j] # p.value[j]
    BY <1>0, <1>7, PrefixFacts DEF Equal, FieldEqual
  <2>3. PICK i \in Fields :
          f[i] # p.value[i] /\ \A k \in Fields : k < i => f[k] = p.value[k]
    BY <1>1, <1>2, <1>4, <2>2, FirstDifference
  <2>4. ~(j < i)
    BY <1>4, <2>2, <2>3
  <2>5. \A k \in Fields : k <= j => k \in p.defined
    <3>1. \A k \in 0..j : k \in s.defined
      BY <1>0, PrefixFacts
    <3>2. ASSUME NEW k \in Fields, k <= j  PROVE  k \in p.defined
      <4>1. \A l \in 0..k : l \in 0..j
        BY <1>3, <1>4, <3>2
      <4>2. k \in 0..k
        BY <1>3
      <4> QED  BY <1>0, <1>7, <3>1, <4>1, <4>2, PrefixFacts
    <3> QED  BY <3>2
  <2>6. ~(f[i] < p.value[i])
    BY <1>1, <2>3 DEF Less
  <2>7. p.value[i] < f[i]
    BY <1>3, <2>3, <2>6
  <2>8. \A k \in Fields : k <= i => m[k] = p.value[k]
    BY <1>3, <1>4, <2>1, <2>4, <2>5
  <2>9. m[i] < f[i] /\ \A k \in Fields : k < i => m[k] = f[k]
    BY <1>3, <2>3, <2>7, <2>8
  <2> QED  BY <2>9 DEF Less
<1> QED  BY <1>6, <1>7

(* A record with the prefix, from the first key on, is one of a word.       *)
LEMMA FoundIsWord ==
  ASSUME NEW s \in SearchKeys, NEW f \in WordRecords \union StatRecords,
         ~Less(f, FirstKey(s)), Equal(Prefix(s), f)
  PROVE  f \in WordRecords
<1>0. 0 \in Fields /\ (\A j \in Fields : j < 0 => FALSE) /\ Last \in Nat
  BY FieldsAssumption, WordsAssumption DEF Fields
<1>1. SUFFICES ASSUME f[0] < Last  PROVE FALSE
  BY RecordFacts
<1>2. f[0] \in Nat
  BY <1>0, RecordFacts DEF Keys
<1>3. CASE 0 \in s.defined
  <2>1. FieldEqual(Prefix(s), f, 0) /\ Prefix(s).value[0] = s.value[0]
    BY <1>0, <1>3, PrefixFacts DEF Equal
  <2>2. s.value[0] \in Words
    BY <1>3, SearchKeyFacts
  <2>3. f[0] \in Words
    BY <2>1, <2>2, WordsAssumption DEF FieldEqual
  <2> QED  BY <1>1, <1>2, <2>3, WordsAssumption
<1>4. CASE 0 \notin s.defined
  <2>1. FirstKey(s)[0] = Last
    BY <1>0, <1>4 DEF FirstKey
  <2>2. Less(f, FirstKey(s))
    BY <1>0, <1>1, <2>1 DEF Less
  <2> QED  BY <2>2
<1> QED  BY <1>3, <1>4

(* The jump from a record that has the prefix and does not match goes       *)
(* forward, over nothing that matches (SkipUselessSequentialWalking).       *)
LEMMA JumpFacts ==
  ASSUME NEW s \in SearchKeys, NEW f \in WordRecords,
         Equal(Prefix(s), f), ~Equal(s, f)
  PROVE  /\ JumpKey(f, s) \in Keys
         /\ ~JumpAtEnd(f, s) => Less(f, JumpKey(f, s))
         /\ \A m \in WordRecords : Equal(s, m) /\ Less(f, m) =>
              ~JumpAtEnd(f, s) /\ ~Less(m, JumpKey(f, s))
<1> DEFINE D == {i \in s.defined : ~FieldEqual(s, f, i)}
           d == DiffField(f, s)
           free == Free(s)
           v == s.value
<1>1. 0 \in Fields /\ \A i \in Fields : i \in Nat
  BY FieldsAssumption DEF Fields
<1>2. v \in Keys /\ s.defined \subseteq Fields /\ f \in Keys /\ free \in SUBSET Fields
  BY <1>1, SearchKeyFacts, RecordFacts DEF Free
<1>3. d \in D /\ \A j \in D : d <= j
  <2>1. D \in SUBSET Nat /\ D # {}
    BY <1>1, <1>2 DEF Equal
  <2>2. Least(D) \in D /\ \A j \in D : Least(D) <= j
    <3> HIDE DEF D
    <3> QED  BY <2>1, LeastExists
  <2> QED  BY <2>2 DEF DiffField
<1> HIDE DEF d
<1>4. d # 0
  <2>1. ASSUME 0 \in s.defined  PROVE  FieldEqual(s, f, 0)
    <3>1. 0 \in Prefix(s).defined /\ Prefix(s).suffix = s.suffix /\ Prefix(s).value[0] = s.value[0]
      BY <1>1, <2>1, PrefixFacts
    <3>2. FieldEqual(Prefix(s), f, 0)
      BY <3>1 DEF Equal
    <3> QED  BY <3>1, <3>2 DEF FieldEqual
  <2> QED  BY <1>3, <2>1
<1>5. d \in Fields /\ d \notin free /\ f[d] # v[d]
  BY <1>2, <1>3, <1>4 DEF Free, FieldEqual
<1>6. \A i \in Fields : i \notin free => i \in s.defined /\ (i # 0 \/ s.suffix)
  BY DEF Free
<1>7. ASSUME NEW i \in Fields, i < d, i \notin free  PROVE  f[i] = v[i]
  <2>1. i \notin D
    BY <1>1, <1>3, <1>5, <1>7
  <2> QED  BY <1>6, <1>7, <2>1 DEF FieldEqual
<1>8. ASSUME NEW m \in WordRecords, Equal(s, m), NEW i \in Fields, i \notin free
      PROVE  m[i] = v[i]
  BY <1>6, <1>8 DEF Equal, FieldEqual
<1>9. DiffLower(f, s) <=> f[d] < v[d]
  BY <1>4 DEF DiffLower, d
<1>10. \A i \in Fields : f[i] \in Nat /\ v[i] \in Nat
  BY <1>2 DEF Keys
<1>11. CASE DiffLower(f, s)
  <2>1. JumpKey(f, s) = Enforced(f, v, free, d)
    BY <1>11 DEF JumpKey, Merge, Enforced, d
  <2>2. ~JumpAtEnd(f, s)
    BY <1>11 DEF JumpAtEnd
  <2>3. f[d] < v[d]
    BY <1>9, <1>11
  <2> HIDE DEF free, v
  <2>4. /\ Enforced(f, v, free, d) \in Keys
        /\ Less(f, Enforced(f, v, free, d))
        /\ \A m \in Keys :
             (\A i \in Fields : i \notin free => m[i] = v[i]) /\ Less(f, m)
             => ~Less(m, Enforced(f, v, free, d))
    BY <1>2, <1>5, <1>7, <2>3, LowerJump
  <2>5. \A m \in WordRecords :
          Equal(s, m) /\ Less(f, m) => ~Less(m, Enforced(f, v, free, d))
    BY <1>8, <2>4, RecordFacts
  <2> QED  BY <2>1, <2>2, <2>4, <2>5
<1>12. CASE ~DiffLower(f, s)
  <2> DEFINE n == JumpKey(f, s)
             c == Carry(f, free, d - 1)
             C == {0} \union {i \in free \ {0} : i <= d - 1 /\ f[i] < MaxValue[i]}
  <2>1. C \in SUBSET (0 .. N) /\ C # {} /\ N \in Nat
    <3>1. C \subseteq Fields /\ 0 \in C
      BY <1>1, <1>2
    <3> HIDE DEF C
    <3> QED  BY <3>1, FieldsAssumption DEF Fields
  <2>2. d - 1 # -1 /\ d \in Nat
    BY <1>1, <1>4, <1>5
  <2>3. c = Greatest(C)
    BY <2>2 DEF Carry
  <2>4. c \in C /\ \A j \in C : j <= c
    <3> HIDE DEF C, c
    <3> QED  BY <2>1, <2>3, GreatestExists
  <2>5. n = [i \in Fields |-> IF i \notin free THEN v[i]
                              ELSE IF i < c THEN f[i] ELSE IF i = c THEN f[i] + 1 ELSE 0]
    BY <1>12 DEF JumpKey, Merge, SetToFollowing, d
  <2>6. n \in Keys /\ \A i \in Fields :
          n[i] = IF i \notin free THEN v[i]
                 ELSE IF i < c THEN f[i] ELSE IF i = c THEN f[i] + 1 ELSE 0
    <3> HIDE DEF c, free, v
    <3> QED  BY <1>10, <2>5 DEF Keys
  <2>7. c \in Fields /\ c < d /\ (c = 0 \/ c \in free)
    <3>1. \A i \in C : i \in Fields /\ i < d /\ (i = 0 \/ i \in free)
      BY <1>1, <1>2, <1>4, <2>2
    <3> HIDE DEF C, c
    <3> QED  BY <2>4, <3>1
  <2>8. \A i \in Fields :
          0 < i /\ i < d /\ i \in free /\ f[i] < MaxValue[i] => i <= c
    <3>1. \A i \in Fields :
            0 < i /\ i < d /\ i \in free /\ f[i] < MaxValue[i] => i \in C
      BY <1>1, <2>2
    <3> HIDE DEF C, c
    <3> QED  BY <2>4, <3>1
  <2>9. JumpAtEnd(f, s) <=> c \notin free
    <3>1. JumpAtEnd(f, s) <=> c = 0 /\ 0 \notin free
      BY <1>12 DEF JumpAtEnd, NoFollowing, d
    <3> QED  BY <2>7, <3>1
  <2> HIDE DEF n, c, free, v
  <2>10. v[d] < f[d]
    BY <1>5, <1>9, <1>10, <1>12
  <2>11. /\ c \in free => Less(f, n)
         /\ \A m \in Keys :
              /\ \A i \in Fields : i \notin free => m[i] = v[i]
              /\ \A i \in 1..N : m[i] <= MaxValue[i]
              /\ Less(f, m)
              => c \in free /\ ~Less(m, n)
    BY <1>2, <1>5, <1>7, <2>6, <2>7, <2>8, <2>10, GreaterJump, SMTT(60)
  <2>12. \A m \in WordRecords : Equal(s, m) /\ Less(f, m) => c \in free /\ ~Less(m, n)
    BY <1>8, <2>11, RecordFacts
  <2> QED  BY <2>6, <2>9, <2>11, <2>12 DEF n
<1> QED  BY <1>11, <1>12

(* Nothing that matches comes before the first key.                         *)
LEMMA MatchNotBeforeFirst ==
  ASSUME NEW s \in SearchKeys, NEW m \in WordRecords, Equal(s, m)
  PROVE  ~Less(m, FirstKey(s))
<1>0. 0 \in Fields /\ m \in Keys /\ FirstKey(s) \in Keys
  BY FirstKeyIsKey, RecordFacts, FieldsAssumption DEF Fields
<1>1. \A i \in Fields : m[i] \in Nat /\ FirstKey(s)[i] \in Nat
  BY <1>0 DEF Keys
<1>2. SUFFICES ASSUME NEW i \in Fields  PROVE FirstKey(s)[i] <= m[i]
  <2>1. ASSUME Less(m, FirstKey(s))  PROVE FALSE
    <3>1. PICK j \in Fields : m[j] < FirstKey(s)[j]
      BY <2>1 DEF Less
    <3>2. FirstKey(s)[j] <= m[j]
      BY <1>2
    <3>3. m[j] \in Nat /\ FirstKey(s)[j] \in Nat
      BY <1>1
    <3> QED  BY <3>1, <3>2, <3>3
  <2> QED  BY <2>1
<1>3. CASE 0 \in s.defined
  <2>0. FirstKey(s) = [j \in Fields |-> IF j \in Prefix(s).defined THEN s.value[j] ELSE 0]
    BY <1>3, PrefixFacts DEF FirstKey
  <2>1. FirstKey(s)[i] = IF i \in Prefix(s).defined THEN s.value[i] ELSE 0
    BY <2>0
  <2>2. CASE i \in Prefix(s).defined
    <3>1. i \in s.defined /\ FieldEqual(s, m, i)
      BY <1>3, <2>2, PrefixFacts DEF Equal
    <3>2. CASE i = 0 /\ ~s.suffix
      <4>1. s.value[0] \in Words /\ m[0] \in Extends[s.value[0]]
        BY <1>3, <3>1, <3>2, SearchKeyFacts DEF FieldEqual
      <4> QED  BY <2>1, <2>2, <3>2, <4>1, WordsAssumption
    <3>3. CASE ~(i = 0 /\ ~s.suffix)
      BY <1>1, <2>1, <2>2, <3>1, <3>3 DEF FieldEqual
    <3> QED  BY <3>2, <3>3
  <2>3. CASE i \notin Prefix(s).defined
    BY <1>1, <2>1, <2>3
  <2> QED  BY <2>2, <2>3
<1>4. CASE 0 \notin s.defined
  <2>1. FirstKey(s)[i] = IF i = 0 THEN Last ELSE 0
    BY <1>4 DEF FirstKey
  <2>2. m[0] \in Nat /\ Last \in Nat /\ Last < m[0]
    BY <1>0, <1>1, RecordFacts, WordsAssumption
  <2> QED  BY <1>1, <2>1, <2>2
<1> QED  BY <1>3, <1>4

(* When the search key is its own prefix, what has the prefix matches.      *)
LEMMA SameAsPrefixMatches ==
  ASSUME NEW s \in SearchKeys, NEW k, ExactEqual(s, Prefix(s)), Equal(Prefix(s), k)
  PROVE  Equal(s, k)
<1>1. s.defined = Prefix(s).defined
  BY DEF ExactEqual
<1>2. CASE 0 \in s.defined
  <2>1. ASSUME NEW i \in s.defined  PROVE  FieldEqual(s, k, i)
    <3>1. i \in Fields /\ FieldEqual(Prefix(s), k, i)
      BY <1>1, SearchKeyFacts DEF Equal
    <3>2. Prefix(s).value[i] = s.value[i] /\ Prefix(s).suffix = s.suffix
      BY <1>1, <1>2, <3>1, PrefixFacts
    <3> QED  BY <3>1, <3>2 DEF FieldEqual
  <2> QED  BY <2>1 DEF Equal
<1>3. CASE 0 \notin s.defined
  BY <1>1, <1>3 DEF Prefix, NoKey, Equal
<1> QED  BY <1>2, <1>3

LEMMA NoKeyIsSearchKey == NoKey \in SearchKeys /\ NoKey.value \in Keys
<1>1. NoKey.value = [i \in Fields |-> 0] /\ NoKey.defined = {} /\ NoKey.suffix = FALSE
  BY DEF NoKey
<1>2. NoKey \in [value : [Fields -> Values \union {0}], defined : SUBSET Fields, suffix : BOOLEAN]
  BY DEF NoKey
<1>3. NoKey \in Patterns
  BY <1>1, <1>2 DEF Patterns
<1>4. [i \in Fields |-> 0] = [i \in Fields |-> IF i \in NoKey.defined THEN NoKey.value[i] ELSE 0]
  BY <1>1
<1>5. NoKey = [NoKey EXCEPT !.value =
                 [i \in Fields |-> IF i \in NoKey.defined THEN NoKey.value[i] ELSE 0]]
  BY <1>1, <1>2, <1>4
<1>6. NoKey.value \in Keys
  BY <1>1 DEF Keys
<1> QED  BY <1>3, <1>5, <1>6 DEF SearchKeys

----------------------------------------------------------------------------
(* The walk.                                                                *)

(* NothingSkipped, with where the walk began: the cursor has not gone back  *)
(* before it, and nothing is reported outside a walk.                       *)
WalkInv ==
  /\ TypeOK /\ NothingSkipped
  /\ status = "walking" => ~Less(key, FirstKey(searchKey))
  /\ status = "idle" => reported = {}

(* What holds of the key that Get stops at.                                 *)
LEMMA GetFacts ==
  ASSUME WalkInv, status = "walking", NEW k \in index, Get(k)
  PROVE  /\ k \in Keys /\ k \in WordRecords \union StatRecords /\ key \in Keys
         /\ ~Less(k, key) /\ (cursor_get_flags = "next" => Less(key, k))
         /\ ~Less(k, FirstKey(searchKey))
         /\ \A r \in reported : Less(r, k)
         /\ \A m \in index \ StatRecords :
              Equal(searchKey, m) /\ m \notin reported => m \in WordRecords /\ ~Less(m, k)
<1>1. /\ k \in Keys /\ k \in WordRecords \union StatRecords /\ key \in Keys
      /\ searchKey \in SearchKeys /\ reported \subseteq Keys
      /\ cursor_get_flags \in {"set_range", "next"}
      /\ index \subseteq WordRecords \union StatRecords
  BY RecordFacts DEF WalkInv, TypeOK, Keys
<1>2. FirstKey(searchKey) \in Keys
  BY <1>1, FirstKeyIsKey
<1>3. Ahead(k)
  BY DEF Get
<1>4. cursor_get_flags = "next" => Less(key, k)
  BY <1>3 DEF Ahead
<1>5. ~Less(k, key)
  <2>1. CASE cursor_get_flags = "next"
    BY <1>1, <1>4, <2>1, LessTransitive, LessIrreflexive
  <2>2. CASE cursor_get_flags = "set_range"
    BY <1>3, <2>2 DEF Ahead
  <2> QED  BY <1>1, <2>1, <2>2
<1>6. ~Less(k, FirstKey(searchKey))
  BY <1>1, <1>2, <1>5, LessOrEqualLess DEF WalkInv
<1>7. ASSUME NEW r \in reported  PROVE  Less(r, k)
  <2>1. ~Ahead(r) /\ r \in Keys
    BY <1>1 DEF WalkInv, NothingSkipped
  <2>2. CASE cursor_get_flags = "next"
    <3>1. ~Less(key, r) /\ Less(key, k)
      BY <1>4, <2>1, <2>2 DEF Ahead
    <3> QED  BY <1>1, <2>1, <3>1, LessOrEqualLess
  <2>3. CASE cursor_get_flags = "set_range"
    <3>1. Less(r, key)
      BY <2>1, <2>3 DEF Ahead
    <3> QED  BY <1>1, <1>5, <2>1, <3>1, LessOrEqualLess
  <2> QED  BY <1>1, <2>2, <2>3
<1>8. ASSUME NEW m \in index \ StatRecords, Equal(searchKey, m), m \notin reported
      PROVE  m \in WordRecords /\ ~Less(m, k)
  <2>1. Ahead(m)
    BY <1>8 DEF WalkInv, NothingSkipped
  <2> QED  BY <1>1, <2>1 DEF Get
<1> QED  BY <1>1, <1>4, <1>5, <1>6, <1>7, <1>8

(* Where a walk ends, nothing that matches is left.                         *)
Exhausted ==
  \A m \in index \ StatRecords : Equal(searchKey, m) => m \in reported

LEMMA PastIsExhausted ==
  ASSUME WalkInv, status = "walking", NEW k \in index, Get(k), PastPrefix(k)
  PROVE  Exhausted
<1>1. searchKey \in SearchKeys /\ ~Equal(Prefix(searchKey), k)
  BY DEF WalkInv, TypeOK, PastPrefix
<1>2. ASSUME NEW m \in index \ StatRecords, Equal(searchKey, m), m \notin reported
      PROVE  FALSE
  <2>1. m \in WordRecords /\ ~Less(m, k)
    BY <1>2, GetFacts
  <2>2. Less(m, k)
    BY <1>1, <1>2, <2>1, GetFacts, PastPrefixIsEnd
  <2> QED  BY <2>1, <2>2
<1> QED  BY <1>2 DEF Exhausted

LEMMA NoMoreIsExhausted ==
  ASSUME WalkInv, status = "walking", WalkNoMore
  PROVE  Exhausted
BY DEF WalkInv, NothingSkipped, WalkNoMore, Exhausted

(* The record a walk does not stop at, and what is beyond it.               *)
LEMMA SkipFacts ==
  ASSUME WalkInv, status = "walking", NEW k \in index, Get(k), ~PastPrefix(k), ~Matches(k)
  PROVE  /\ JumpKey(k, searchKey) \in Keys
         /\ JumpAtEnd(k, searchKey) => Exhausted
         /\ ~JumpAtEnd(k, searchKey) => Less(k, JumpKey(k, searchKey))
         /\ \A m \in index \ StatRecords :
              Equal(searchKey, m) /\ m \notin reported => ~Less(m, JumpKey(k, searchKey))
<1>1. searchKey \in SearchKeys /\ Equal(Prefix(searchKey), k) /\ ~Equal(searchKey, k)
  BY DEF WalkInv, TypeOK, PastPrefix, Matches, Equal
<1>2. k \in WordRecords /\ k \in Keys
  BY <1>1, GetFacts, FoundIsWord
<1>3. ASSUME NEW m \in index \ StatRecords, Equal(searchKey, m), m \notin reported
      PROVE  m \in WordRecords /\ Less(k, m)
  <2>1. m \in WordRecords /\ ~Less(m, k) /\ m \in Keys
    BY <1>3, GetFacts, RecordFacts
  <2>2. m # k
    BY <1>1, <1>3
  <2> QED  BY <1>2, <2>1, <2>2, LessTotal
<1>4. /\ JumpKey(k, searchKey) \in Keys
      /\ ~JumpAtEnd(k, searchKey) => Less(k, JumpKey(k, searchKey))
      /\ \A m \in WordRecords : Equal(searchKey, m) /\ Less(k, m) =>
           ~JumpAtEnd(k, searchKey) /\ ~Less(m, JumpKey(k, searchKey))
  BY <1>1, <1>2, JumpFacts
<1>5. JumpAtEnd(k, searchKey) => Exhausted
  BY <1>3, <1>4 DEF Exhausted
<1> QED  BY <1>3, <1>4, <1>5

LEMMA FoundFacts ==
  ASSUME WalkInv, status = "walking", NEW k \in index, Get(k), ~PastPrefix(k), Matches(k)
  PROVE  k \in WordRecords /\ k \notin StatRecords /\ Equal(searchKey, k) /\ k \notin reported
<1>1. searchKey \in SearchKeys /\ Equal(Prefix(searchKey), k)
  BY DEF WalkInv, TypeOK, PastPrefix, Equal
<1>2. k \in WordRecords /\ k \in Keys
  BY <1>1, GetFacts, FoundIsWord
<1>3. Equal(searchKey, k)
  BY <1>1, SameAsPrefixMatches DEF Matches
<1>4. k \notin reported
  BY <1>2, GetFacts, LessIrreflexive
<1> QED  BY <1>2, <1>3, <1>4, RecordFacts

(* Deleting a record takes nothing but the word's statistics with it.       *)
LEMMA DeletedFacts ==
  ASSUME NEW k, NEW rest \in Deleted(k)
  PROVE  rest \subseteq index /\ rest \ StatRecords = (index \ StatRecords) \ {k}
<1>1. StatRecordsOf({k[0]}) \subseteq StatRecords
  BY DEF StatRecords, StatRecordsOf
<1> QED  BY <1>1 DEF Deleted

LEMMA InitWalkInv == Init => WalkInv
<1> SUFFICES ASSUME Init  PROVE WalkInv
  OBVIOUS
<1>1. TypeOK
  BY NoKeyIsSearchKey DEF Init, TypeOK, Keys
<1> QED  BY <1>1 DEF Init, WalkInv, NothingSkipped

(* A step of the walk that stops at k, without finding a match there.       *)
LEMMA SkipKeepsWalkInv ==
  ASSUME WalkInv, status = "walking", NEW k \in index, Get(k), WalkSkip(k)
  PROVE  WalkInv'
<1>1. ~PastPrefix(k) /\ ~Matches(k) /\ UNCHANGED <<index, searchKey, reported>>
  BY DEF WalkSkip
<1>2. k \in Keys /\ searchKey \in SearchKeys /\ reported \subseteq Keys
  BY GetFacts, RecordFacts DEF WalkInv, TypeOK
<1>3. CASE JumpAtEnd(k, searchKey)
  <2>1. status' = "atend" /\ key' = k /\ cursor_get_flags' = "next"
    BY <1>3 DEF WalkSkip
  <2>2. TypeOK'
    BY <1>1, <1>2, <2>1 DEF WalkInv, TypeOK, Keys
  <2> QED  BY <2>1, <2>2 DEF WalkInv, NothingSkipped
<1>4. CASE ~JumpAtEnd(k, searchKey)
  <2> DEFINE n == JumpKey(k, searchKey)
  <2>1. key' = n /\ cursor_get_flags' = "set_range" /\ status' = status
    BY <1>4 DEF WalkSkip
  <2>2. n \in Keys /\ Less(k, n)
    BY <1>1, <1>4, SkipFacts
  <2>3. \A m \in index \ StatRecords :
          Equal(searchKey, m) /\ m \notin reported => ~Less(m, n)
    BY <1>1, SkipFacts
  <2> HIDE DEF n
  <2>4. \A r \in reported : Less(r, n)
    BY <1>2, <2>2, GetFacts, LessTransitive
  <2>5. FirstKey(searchKey) \in Keys /\ ~Less(n, FirstKey(searchKey))
    <3>1. FirstKey(searchKey) \in Keys /\ ~Less(k, FirstKey(searchKey))
      BY <1>2, FirstKeyIsKey, GetFacts
    <3> QED  BY <1>2, <2>2, <3>1, LessTransitive
  <2>6. TypeOK'
    BY <1>1, <2>1, <2>2 DEF WalkInv, TypeOK, Keys
  <2>7. NothingSkipped'
    BY <1>1, <2>1, <2>3, <2>4 DEF NothingSkipped, Ahead
  <2> QED  BY <1>1, <2>1, <2>5, <2>6, <2>7 DEF WalkInv
<1> QED  BY <1>3, <1>4

(* A step of the walk that finds a match.                                   *)
LEMMA FoundKeepsWalkInv ==
  ASSUME WalkInv, status = "walking", NEW k \in index, Get(k), WalkFound(k)
  PROVE  WalkInv'
<1>1. /\ ~PastPrefix(k) /\ Matches(k) /\ key' = k /\ cursor_get_flags' = "next"
      /\ reported' = reported \union {k} /\ searchKey' = searchKey
      /\ index' \in {index} \union Deleted(k) /\ status' \in {"walking", "failed"}
  BY DEF WalkFound
<1>2. k \in Keys /\ reported \subseteq Keys /\ index \subseteq WordRecords \union StatRecords
  BY GetFacts, RecordFacts DEF WalkInv, TypeOK
<1>3. k \in WordRecords
  BY <1>1, FoundFacts
<1>4. index' \subseteq index
  BY <1>1, DeletedFacts
<1>5. TypeOK'
  BY <1>1, <1>2, <1>3, <1>4 DEF WalkInv, TypeOK, Keys
<1>6. ASSUME NEW m \in index \ StatRecords, Equal(searchKey, m), m \notin reported, m # k
      PROVE  Less(k, m)
  <2>1. m \in Keys /\ ~Less(m, k)
    BY <1>6, GetFacts, RecordFacts
  <2> QED  BY <1>2, <1>6, <2>1, LessTotal
<1>7. \A r \in reported : ~Less(k, r)
  BY <1>2, GetFacts, LessTransitive, LessIrreflexive
<1>8. NothingSkipped'
  BY <1>1, <1>2, <1>4, <1>6, <1>7, LessIrreflexive DEF NothingSkipped, Ahead
<1>9. ~Less(k, FirstKey(searchKey))
  BY GetFacts
<1> QED  BY <1>1, <1>5, <1>8, <1>9 DEF WalkInv

LEMMA NextWalkInv == WalkInv /\ [Next]_vars => WalkInv'
<1> SUFFICES ASSUME WalkInv, [Next]_vars  PROVE WalkInv'
  OBVIOUS
<1>1. CASE UNCHANGED vars
  BY <1>1 DEF WalkInv, TypeOK, NothingSkipped, Ahead, vars
<1>2. CASE Put
  <2>1. \A w : StatRecordsOf({w}) \subseteq StatRecords
    BY DEF StatRecords, StatRecordsOf
  <2>2. TypeOK'
    BY <1>2, <2>1 DEF Put, WalkInv, TypeOK
  <2> QED  BY <1>2, <2>2 DEF Put, WalkInv, NothingSkipped
<1>3. CASE WalkInit
  <2> DEFINE s == searchKey'
  <2>1. s \in SearchKeys /\ FirstKey(s) \in Keys
    BY <1>3, FirstKeyIsKey DEF WalkInit
  <2>2. TypeOK'
    BY <1>3, <2>1 DEF WalkInit, WalkInv, TypeOK, Keys
  <2>3. \A m \in index \ StatRecords : Equal(s, m) => ~Less(m, FirstKey(s))
    BY <2>1, MatchNotBeforeFirst DEF WalkInv, TypeOK
  <2>4. NothingSkipped'
    BY <1>3, <2>3 DEF WalkInit, WalkInv, NothingSkipped, Ahead
  <2>5. (~Less(key, FirstKey(searchKey)))'
    BY <1>3, <2>1, LessIrreflexive DEF WalkInit
  <2> QED  BY <1>3, <2>2, <2>4, <2>5 DEF WalkInit, WalkInv
<1>4. CASE WalkNextStep
  <2>1. CASE WalkNoMore
    BY <2>1 DEF WalkNoMore, WalkInv, TypeOK, NothingSkipped
  <2>2. ASSUME NEW k \in index, Get(k), WalkPast(k)  PROVE WalkInv'
    <3>1. status = "walking"
      BY <1>4 DEF WalkNextStep
    <3>2. k \in Keys
      BY <2>2, <3>1, GetFacts
    <3> QED  BY <2>2, <3>2 DEF WalkPast, WalkInv, TypeOK, NothingSkipped, Keys
  <2>3. ASSUME NEW k \in index, Get(k), WalkSkip(k)  PROVE WalkInv'
    BY <1>4, <2>3, SkipKeepsWalkInv DEF WalkNextStep
  <2>4. ASSUME NEW k \in index, Get(k), WalkFound(k)  PROVE WalkInv'
    BY <1>4, <2>4, FoundKeepsWalkInv DEF WalkNextStep
  <2> QED  BY <1>4, <2>1, <2>2, <2>3, <2>4 DEF WalkNextStep
<1>5. CASE WalkGetFails
  BY <1>5 DEF WalkGetFails, WalkInv, TypeOK, NothingSkipped
<1>6. CASE WalkFinish
  BY <1>6, NoKeyIsSearchKey DEF WalkFinish, WalkInv, TypeOK, NothingSkipped, Keys
<1> QED  BY <1>1, <1>2, <1>3, <1>4, <1>5, <1>6 DEF Next

(* Whatever is stored, searched and deleted, the variables of a walk have   *)
(* their types (WordCursor.cc:137-582).                                     *)
THEOREM TypeCorrect == Spec => []TypeOK
<1>1. WalkInv => TypeOK
  BY DEF WalkInv
<1> QED  BY <1>1, InitWalkInv, NextWalkInv, PTL DEF Spec

(* What matches and was not found yet lies ahead of the cursor, wherever it *)
(* jumped (WordCursor.cc:494-582).                                          *)
THEOREM NothingSkippedTheorem == Spec => []NothingSkipped
<1>1. WalkInv => NothingSkipped
  BY DEF WalkInv
<1> QED  BY <1>1, InitWalkInv, NextWalkInv, PTL DEF Spec

(* A walk that goes on moves forward (WordCursor.cc:266-401).               *)
THEOREM CursorAdvancesTheorem == Spec => CursorAdvances
<1> DEFINE Forward ==
      \/ Less(key, key')
      \/ key' = key /\ cursor_get_flags = "set_range" /\ cursor_get_flags' = "next"
<1>1. ASSUME WalkInv, [Next]_vars, status = "walking", status' = "walking", ~UNCHANGED vars
      PROVE  Forward
  <2>1. WalkNextStep
    BY <1>1 DEF Next, Put, WalkInit, WalkGetFails, WalkFinish
  <2>2. PICK k \in index : Get(k) /\ (WalkPast(k) \/ WalkSkip(k) \/ WalkFound(k))
    BY <1>1, <2>1 DEF WalkNextStep, WalkNoMore
  <2>3. /\ k \in Keys /\ key \in Keys /\ ~Less(k, key)
        /\ cursor_get_flags = "next" => Less(key, k)
    BY <1>1, <2>2, GetFacts
  <2>4. CASE WalkPast(k)
    BY <1>1, <2>4 DEF WalkPast
  <2>5. CASE WalkSkip(k)
    <3>1. ~JumpAtEnd(k, searchKey) /\ key' = JumpKey(k, searchKey)
      BY <1>1, <2>5 DEF WalkSkip
    <3>2. JumpKey(k, searchKey) \in Keys /\ Less(k, JumpKey(k, searchKey))
      BY <1>1, <2>2, <2>5, <3>1, SkipFacts DEF WalkSkip
    <3>3. Less(key, key')
      BY <2>3, <3>1, <3>2, LessOrEqualLess
    <3> QED  BY <3>3
  <2>6. CASE WalkFound(k)
    <3>1. key' = k /\ cursor_get_flags' = "next"
      BY <2>6 DEF WalkFound
    <3>2. key = k \/ Less(key, k)
      BY <2>3, LessTotal
    <3>3. cursor_get_flags \in {"set_range", "next"}
      BY <1>1 DEF WalkInv, TypeOK
    <3> QED  BY <2>3, <3>1, <3>2, <3>3
  <2> QED  BY <2>2, <2>4, <2>5, <2>6
<1>2. WalkInv /\ [Next]_vars => [status = "walking" /\ status' = "walking" => Forward]_vars
  BY <1>1
<1> QED  BY <1>2, InitWalkInv, NextWalkInv, PTL DEF Spec, CursorAdvances

----------------------------------------------------------------------------
(* The promise.                                                             *)

LEMMA PromiseKeys ==
  /\ promise!NoKey = NoKey
  /\ promise!SearchKeys = SearchKeys /\ promise!WordRecords = WordRecords
  /\ \A a, b : promise!Less(a, b) <=> Less(a, b)
  /\ \A s, k : promise!Equal(s, k) <=> Equal(s, k)
<1>1. promise!Fields = Fields
  BY DEF promise!Fields, Fields
<1>2. promise!Values = Values
  BY DEF promise!Values, Values
<1>3. \A s, k, i : promise!FieldEqual(s, k, i) <=> FieldEqual(s, k, i)
  BY DEF promise!FieldEqual, FieldEqual
<1>4. \A s, k : promise!Equal(s, k) <=> Equal(s, k)
  BY <1>3 DEF promise!Equal, Equal
<1>5. \A a, b : promise!Less(a, b) <=> Less(a, b)
  BY <1>1 DEF promise!Less, Less
<1>6. promise!SearchKeys = SearchKeys
  BY <1>1, <1>2 DEF promise!SearchKeys, SearchKeys, promise!Patterns, Patterns
<1>7. promise!WordRecords = WordRecords
  BY <1>1, <1>2 DEF promise!WordRecords, WordRecords
<1>8. promise!NoKey = NoKey
  BY <1>1 DEF promise!NoKey, NoKey
<1> QED  BY <1>4, <1>5, <1>6, <1>7, <1>8

(* Each way through a step of a walk is a report, an end or nothing.        *)
LEMMA StepKeepsPromise ==
  ASSUME WalkInv, WalkNextStep
  PROVE  promise!NextWalk \/ UNCHANGED promise!walkVars
<1>1. status = "walking"
  BY DEF WalkNextStep
<1>2. ASSUME Exhausted, status' = "atend", UNCHANGED <<index, searchKey, reported>>
      PROVE  promise!NextWalk
  <2>1. promise!Pending = {}
    BY <1>2, PromiseKeys DEF promise!Pending, Exhausted
  <2> QED  BY <1>1, <1>2, <2>1 DEF promise!End, promise!NextWalk
<1>3. CASE WalkNoMore
  BY <1>1, <1>2, <1>3, NoMoreIsExhausted DEF WalkNoMore
<1>4. ASSUME NEW k \in index, Get(k), WalkPast(k)
      PROVE  promise!NextWalk
  BY <1>1, <1>2, <1>4, PastIsExhausted DEF WalkPast
<1>5. ASSUME NEW k \in index, Get(k), WalkSkip(k)
      PROVE  promise!NextWalk \/ UNCHANGED promise!walkVars
  <2>1. CASE JumpAtEnd(k, searchKey)
    BY <1>1, <1>2, <1>5, <2>1, SkipFacts DEF WalkSkip
  <2>2. CASE ~JumpAtEnd(k, searchKey)
    BY <1>5, <2>2 DEF WalkSkip, promise!walkVars
  <2> QED  BY <2>1, <2>2
<1>6. ASSUME NEW k \in index, Get(k), WalkFound(k)
      PROVE  promise!NextWalk
  <2>1. /\ ~PastPrefix(k) /\ Matches(k) /\ searchKey' = searchKey
        /\ reported' = reported \union {k}
        /\ index' \in {index} \union Deleted(k) /\ status' \in {"walking", "failed"}
    BY <1>1, <1>6 DEF WalkFound
  <2>2. k \notin StatRecords /\ Equal(searchKey, k) /\ k \notin reported
    BY <1>1, <1>6, <2>1, FoundFacts
  <2>3. k \in promise!Pending
    BY <1>6, <2>2, PromiseKeys DEF promise!Pending
  <2>4. \A p \in promise!Pending : ~promise!Less(p, k)
    BY <1>1, <1>6, GetFacts, PromiseKeys DEF promise!Pending
  <2>5. \A r \in reported : promise!Less(r, k)
    BY <1>1, <1>6, GetFacts, PromiseKeys
  <2>6. index' \ StatRecords \in {index \ StatRecords, (index \ StatRecords) \ {k}}
    BY <2>1, DeletedFacts
  <2>7. promise!Report(k)
    BY <1>1, <2>1, <2>3, <2>4, <2>5, <2>6 DEF promise!Report
  <2> QED  BY <2>3, <2>7 DEF promise!NextWalk
<1> QED  BY <1>3, <1>4, <1>5, <1>6 DEF WalkNextStep

(* A walk through the index, with its jumps, hands over what WordWalk       *)
(* promises: every match, once and in order, and no early end               *)
(* (WordCursor.cc:120-582).                                                 *)
THEOREM WalkKeepsPromiseTheorem == Spec => WalkKeepsPromise
<1>1. Init => promise!InitWalk
  BY PromiseKeys DEF Init, promise!InitWalk
<1>2. ASSUME WalkInv, [Next]_vars
      PROVE  promise!NextWalk \/ UNCHANGED promise!walkVars
  <2>1. CASE UNCHANGED vars
    BY <2>1 DEF vars, promise!walkVars
  <2>2. CASE Put
    <3> PICK k \in WordRecords :
          index' = index \union {k} \union IF wordlist_extend THEN StatRecordsOf({k[0]}) ELSE {}
      BY <2>2 DEF Put
    <3>1. StatRecordsOf({k[0]}) \subseteq StatRecords /\ k \notin StatRecords
      BY RecordFacts DEF StatRecords, StatRecordsOf
    <3>2. index' \ StatRecords = (index \ StatRecords) \union {k}
      BY <2>2, <3>1 DEF Put
    <3>3. promise!Store
      BY <2>2, <3>2, PromiseKeys DEF Put, promise!Store
    <3> QED  BY <3>3 DEF promise!NextWalk
  <2>3. CASE WalkInit
    BY <2>3, PromiseKeys DEF WalkInit, promise!Start, promise!NextWalk
  <2>4. CASE WalkNextStep
    BY <1>2, <2>4, StepKeepsPromise
  <2>5. CASE WalkGetFails
    BY <2>5 DEF WalkGetFails, promise!Fail, promise!NextWalk
  <2>6. CASE WalkFinish
    BY <2>6, PromiseKeys DEF WalkFinish, promise!Finish, promise!NextWalk
  <2> QED  BY <1>2, <2>1, <2>2, <2>3, <2>4, <2>5, <2>6 DEF Next
<1>3. WalkInv /\ [Next]_vars => [promise!NextWalk]_(promise!walkVars)
  BY <1>2
<1> QED  BY <1>1, <1>3, InitWalkInv, NextWalkInv, PTL
         DEF Spec, WalkKeepsPromise, promise!WalkSpec

----------------------------------------------------------------------------
(* Queries.                                                                 *)

(* Searching with queries does to the index and its walks only what the     *)
(* word index does by itself (parser.cc:339-973), so all of the above holds *)
(* of SearchSpec too.                                                       *)
THEOREM SearchesAreWalks == SearchSpec => Spec /\ []NothingSkipped /\ WalkKeepsPromise
<1>1. [NextSearch]_searchVars => [Next]_vars
  BY DEF NextSearch, searchVars
<1>2. SearchSpec => Spec
  BY <1>1, PTL DEF SearchSpec, Spec, InitSearch
<1> QED  BY <1>2, NothingSkippedTheorem, WalkKeepsPromiseTheorem

(* The documents that operands are made of, and what is on the stack.       *)
Docs == Recorded \union {DocID(k) : k \in WordRecords}
Operands == [kind : {"null", "ignored", "list"}, of : SUBSET Docs]

(* Operators that were read and have not been performed: an operand of each *)
(* is on the stack, and one more behind a factor.                           *)
Ors(c) == {i \in DOMAIN c : c[i].or}
Ops(c) == {i \in DOMAIN c : c[i].op # "none"}
Pending(c) == Cardinality(Ors(c)) + Cardinality(Ops(c))

Calls == [or : BOOLEAN, op : {"none", "&", "!"}]

StackInv ==
  /\ step \in {"idle", "factor", "term", "phrase", "parsed"}
  /\ calls \in Seq(Calls)
  /\ stack \in Seq(Operands)
  /\ wordList.of \subseteq WordRecords
  /\ calls = <<>> <=> step \in {"idle", "parsed"}
  /\ Len(stack) = Pending(calls) + IF step = "term" THEN 1 ELSE 0

LEMMA PendingFinite ==
  ASSUME NEW c \in Seq(Calls)
  PROVE  /\ IsFiniteSet(Ors(c)) /\ IsFiniteSet(Ops(c))
         /\ Cardinality(Ors(c)) \in Nat /\ Cardinality(Ops(c)) \in Nat
         /\ Pending(c) \in Nat
<1>1. Len(c) \in Nat /\ DOMAIN c = 1 .. Len(c)
  OBVIOUS
<1>2. IsFiniteSet(1 .. Len(c))
  BY <1>1, FS_Interval
<1>3. Ors(c) \subseteq 1 .. Len(c) /\ Ops(c) \subseteq 1 .. Len(c)
  BY <1>1 DEF Ors, Ops
<1>4. IsFiniteSet(Ors(c)) /\ IsFiniteSet(Ops(c))
  BY <1>2, <1>3, FS_Subset
<1> QED  BY <1>4, FS_CardinalityType DEF Pending

LEMMA PendingNone ==
  Pending(<<>>) = 0 /\ Pending(<<NewCall>>) = 0 /\ <<NewCall>> \in Seq(Calls)
<1>1. Ors(<<>>) = {} /\ Ops(<<>>) = {} /\ Ors(<<NewCall>>) = {} /\ Ops(<<NewCall>>) = {}
  BY DEF Ors, Ops, NewCall
<1>2. NewCall \in Calls
  BY DEF NewCall, Calls
<1>3. Pending(<<>>) = 0 /\ Pending(<<NewCall>>) = 0
  <2>1. \A c : Ors(c) = {} /\ Ops(c) = {} => Pending(c) = 0
    BY FS_EmptySet DEF Pending
  <2> QED  BY <1>1, <2>1
<1> QED  BY <1>2, <1>3

(* A bracket opens, and closes behind a complete expression.                *)
LEMMA PendingOpens ==
  ASSUME NEW c \in Seq(Calls)
  PROVE  Append(c, NewCall) \in Seq(Calls) /\ Pending(Append(c, NewCall)) = Pending(c)
<1> DEFINE d == Append(c, NewCall)
<1>1. NewCall \in Calls /\ ~NewCall.or /\ NewCall.op = "none"
  BY DEF NewCall, Calls
<1>2. /\ d \in Seq(Calls) /\ Len(d) = Len(c) + 1 /\ d[Len(c) + 1] = NewCall
      /\ \A i \in 1 .. Len(c) : d[i] = c[i]
  BY <1>1
<1>3. Ors(d) = Ors(c) /\ Ops(d) = Ops(c)
  <2> HIDE DEF d
  <2> QED  BY <1>1, <1>2 DEF Ors, Ops
<1> QED  BY <1>2, <1>3 DEF Pending

LEMMA PendingCloses ==
  ASSUME NEW c \in Seq(Calls), c # <<>>, ~c[Len(c)].or, c[Len(c)].op = "none"
  PROVE  /\ Seqs!Front(c) \in Seq(Calls) /\ Len(Seqs!Front(c)) = Len(c) - 1
         /\ Pending(Seqs!Front(c)) = Pending(c)
<1> DEFINE d == Seqs!Front(c)
<1>1. /\ d \in Seq(Calls) /\ Len(d) = Len(c) - 1
      /\ \A i \in 1 .. Len(d) : d[i] = c[i]
  <2>1. ASSUME NEW m \in Nat, m = Len(c) - 1
        PROVE  LET b == SubSeq(c, 1, m)
               IN  b \in Seq(Calls) /\ Len(b) = m /\ \A i \in 1 .. m : b[i] = c[i]
    <3>1. \A i \in 1 .. m : c[i] \in Calls
      BY <2>1
    <3> QED  BY <2>1, <3>1, SubSeqProperties
  <2>2. Len(c) - 1 \in Nat
    OBVIOUS
  <2> QED  BY <2>1, <2>2 DEF Seqs!Front
<1>2. Ors(d) = Ors(c) /\ Ops(d) = Ops(c)
  <2> HIDE DEF d
  <2> QED  BY <1>1 DEF Ors, Ops
<1> QED  BY <1>1, <1>2 DEF Pending

(* An operator is read, or performed. *)
Count(b) == IF b THEN 1 ELSE 0

Waits(e) == Count(e.or) + Count(e.op # "none")

WithLast(c, e) == [c EXCEPT ![Len(c)] = e]

LEMMA PendingChanges ==
  ASSUME NEW c \in Seq(Calls), c # <<>>, NEW e \in Calls
  PROVE  /\ WithLast(c, e) \in Seq(Calls) /\ Len(WithLast(c, e)) = Len(c)
         /\ Pending(c) >= Waits(c[Len(c)])
         /\ Pending(WithLast(c, e)) = Pending(c) - Waits(c[Len(c)]) + Waits(e)
<1> SUFFICES ASSUME NEW n, n = Len(c), NEW d, d = [c EXCEPT ![n] = e]
             PROVE  /\ d \in Seq(Calls) /\ Len(d) = n
                    /\ Pending(c) >= Waits(c[n])
                    /\ Pending(d) = Pending(c) - Waits(c[n]) + Waits(e)
  BY Zenon DEF WithLast
<1>1. n \in Nat /\ n \in 1 .. n /\ DOMAIN c = 1 .. n /\ c[n] \in Calls
  OBVIOUS
<1>2. d \in Seq(Calls) /\ Len(d) = n /\ \A i \in 1 .. n : d[i] = IF i = n THEN e ELSE c[i]
  BY <1>1, ExceptSeq
<1>3. DOMAIN d = 1 .. n
  BY <1>2
<1> DEFINE Rest(S) == S \ {n}
<1>4. Rest(Ors(d)) = Rest(Ors(c)) /\ Rest(Ops(d)) = Rest(Ops(c))
  BY <1>1, <1>2, <1>3 DEF Ors, Ops
<1>5. /\ (n \in Ors(c) <=> c[n].or) /\ (n \in Ors(d) <=> e.or)
      /\ (n \in Ops(c) <=> c[n].op # "none") /\ (n \in Ops(d) <=> e.op # "none")
  BY <1>1, <1>2, <1>3 DEF Ors, Ops
<1>6. ASSUME NEW S, IsFiniteSet(S)
      PROVE  /\ Cardinality(S) = Cardinality(Rest(S)) + Count(n \in S)
             /\ Cardinality(Rest(S)) \in Nat
  <2>1. IsFiniteSet(Rest(S)) /\ Cardinality(Rest(S)) = IF n \in S THEN Cardinality(S) - 1 ELSE Cardinality(S)
    BY <1>6, FS_RemoveElement
  <2>2. Cardinality(S) \in Nat /\ Cardinality(Rest(S)) \in Nat
    BY <1>6, <2>1, FS_CardinalityType
  <2> QED  BY <2>1, <2>2 DEF Count
<1> HIDE DEF Rest
<1>7. /\ Pending(c) = Cardinality(Rest(Ors(c))) + Count(n \in Ors(c))
                       + (Cardinality(Rest(Ops(c))) + Count(n \in Ops(c)))
      /\ Pending(d) = Cardinality(Rest(Ors(c))) + Count(n \in Ors(d))
                       + (Cardinality(Rest(Ops(c))) + Count(n \in Ops(d)))
      /\ Cardinality(Rest(Ors(c))) \in Nat /\ Cardinality(Rest(Ops(c))) \in Nat
  BY <1>2, <1>4, <1>6, PendingFinite DEF Pending
<1>8. /\ Count(n \in Ors(c)) = Count(c[n].or) /\ Count(n \in Ors(d)) = Count(e.or)
      /\ Count(n \in Ops(c)) = Count(c[n].op # "none") /\ Count(n \in Ops(d)) = Count(e.op # "none")
  BY <1>5 DEF Count
<1>9. Pending(c) >= Waits(c[n]) /\ Pending(d) = Pending(c) - Waits(c[n]) + Waits(e)
  <2>1. \A b : \E w \in Nat : w = Count(b)
    BY DEF Count
  <2>2. PICK w \in Nat : w = Count(c[n].or)
    BY <2>1
  <2>3. PICK x \in Nat : x = Count(c[n].op # "none")
    BY <2>1
  <2>4. PICK y \in Nat : y = Count(e.or)
    BY <2>1
  <2>5. PICK z \in Nat : z = Count(e.op # "none")
    BY <2>1
  <2>6. PICK a \in Nat, b \in Nat : Pending(c) = a + w + (b + x) /\ Pending(d) = a + y + (b + z)
    BY <1>7, <1>8, <2>2, <2>3, <2>4, <2>5, ZenonT(60)
  <2>7. Pending(c) >= w + x /\ Pending(d) = Pending(c) - (w + x) + (y + z)
    BY <2>6
  <2>8. Waits(c[n]) = w + x /\ Waits(e) = y + z
    BY <2>2, <2>3, <2>4, <2>5, Zenon DEF Waits
  <2> QED  BY <2>7, <2>8
<1> QED  BY <1>1, <1>2, <1>9

(* Operands. *)

LEMMA FoundDocs ==
  ASSUME TypeOK, NEW w
  PROVE  Occurrences(w) \subseteq WordRecords
BY DEF Occurrences, TypeOK

LEMMA ScoreIsOperand ==
  ASSUME NEW K \in SUBSET WordRecords, NEW fields
  PROVE  score(K, fields) \in Operands
BY DEF score, Null, ResultList, Operands, Docs

LEMMA PushIsOperand ==
  ASSUME TypeOK, NEW t, IsWord(t)
  PROVE  perform_push(t) \in Operands
<1>1. CASE t.type = "*"
  BY <1>1 DEF perform_push, ResultList, Operands, Docs
<1>2. CASE t.type \in {"bad", "short"}
  BY <1>2 DEF perform_push, Ignored, Operands
<1>3. CASE t.type = "word"
  BY <1>3, FoundDocs, ScoreIsOperand DEF perform_push
<1> QED  BY <1>1, <1>2, <1>3 DEF IsWord

LEMMA CombinedIsOperand ==
  ASSUME NEW op \in {"&", "!", "|"}, NEW l2 \in Operands, NEW l1 \in Operands
  PROVE  Combined(op, l2, l1) \in Operands
<1>1. Null \in Operands /\ \A D \in SUBSET Docs : ResultList(D) \in Operands
  BY DEF Null, ResultList, Operands
<1>2. /\ l2.of \intersect l1.of \in SUBSET Docs /\ l2.of \ l1.of \in SUBSET Docs
      /\ l2.of \union l1.of \in SUBSET Docs
  BY DEF Operands
<1>3. perform_and(l2, l1) \in Operands
  BY <1>1, <1>2 DEF perform_and
<1>4. perform_not(l2, l1) \in Operands
  BY <1>1, <1>2 DEF perform_not
<1>5. perform_or(l2, l1) \in Operands
  BY <1>1, <1>2 DEF perform_or
<1> QED  BY <1>3, <1>4, <1>5 DEF Combined

(* The stack has its two operands where an operator is performed. *)
LEMMA PerformPops ==
  ASSUME NEW op \in {"&", "!", "|"}, stack \in Seq(Operands), Len(stack) >= 2, Perform(op)
  PROVE  stack' \in Seq(Operands) /\ Len(stack') = Len(stack) - 1
<1>1. PICK n \in Nat : n = Len(stack) /\ n - 2 \in Nat
  OBVIOUS
<1>2. Combined(op, stack[n - 1], stack[n]) \in Operands
  <2>1. stack[n - 1] \in Operands /\ stack[n] \in Operands
    BY <1>1
  <2> QED  BY <2>1, CombinedIsOperand
<1>3. ASSUME NEW m \in Nat, m = n - 2
      PROVE  SubSeq(stack, 1, m) \in Seq(Operands) /\ Len(SubSeq(stack, 1, m)) = m
  <2>1. \A i \in 1 .. m : stack[i] \in Operands
    BY <1>1, <1>3
  <2> QED  BY <1>3, <2>1, SubSeqProperties
<1>4. stack' = Append(SubSeq(stack, 1, n - 2), Combined(op, stack[n - 1], stack[n]))
  BY <1>1 DEF Perform
<1> QED  BY <1>1, <1>2, <1>3, <1>4

(* Reading the operator of the current call, or forgetting it. *)
LEMMA CurrentCall ==
  ASSUME calls \in Seq(Calls), calls # <<>>
  PROVE  /\ Current \in Calls
         /\ \A op \in {"&", "!", "none"} :
              LET c == [calls EXCEPT ![Len(calls)].op = op]
              IN  /\ c \in Seq(Calls) /\ c # <<>> /\ Pending(c) \in Nat
                  /\ Current.op = "none" /\ op # "none" => Pending(c) = Pending(calls) + 1
                  /\ Current.op # "none" /\ op = "none" => Pending(c) = Pending(calls) - 1
         /\ \A or \in BOOLEAN :
              LET c == [calls EXCEPT ![Len(calls)].or = or]
              IN  /\ c \in Seq(Calls) /\ c # <<>> /\ Pending(c) \in Nat
                  /\ ~Current.or /\ or => Pending(c) = Pending(calls) + 1
                  /\ Current.or /\ ~or => Pending(c) = Pending(calls) - 1
         /\ Pending(calls) \in Nat
         /\ Current.op # "none" \/ Current.or => Pending(calls) >= 1
<1> DEFINE n == Len(calls)
<1>1. /\ n \in Nat \ {0} /\ Current \in Calls /\ Current = calls[n]
      /\ Pending(calls) \in Nat
  BY PendingFinite DEF Current
<1>3. ASSUME NEW op \in {"&", "!", "none"}, NEW c, c = [calls EXCEPT ![n].op = op]
      PROVE  /\ c \in Seq(Calls) /\ c # <<>> /\ Pending(c) \in Nat
             /\ Current.op = "none" /\ op # "none" => Pending(c) = Pending(calls) + 1
             /\ Current.op # "none" /\ op = "none" => Pending(c) = Pending(calls) - 1
  <2> DEFINE e == [Current EXCEPT !.op = op]
  <2>1. e \in Calls /\ e.op = op /\ e.or = Current.or /\ c = WithLast(calls, e)
    BY <1>1, <1>3 DEF Calls, WithLast
  <2> HIDE DEF e
  <2>2. /\ c \in Seq(Calls) /\ Len(c) = n
        /\ Pending(c) = Pending(calls) - Waits(Current) + Waits(e)
    BY <1>1, <2>1, PendingChanges
  <2>3. Pending(c) \in Nat
    BY <2>2, PendingFinite
  <2>5. c # <<>>
    BY <1>1, <2>2
  <2> QED  BY <1>1, <2>1, <2>2, <2>3, <2>5 DEF Waits, Count
<1>4. ASSUME NEW or \in BOOLEAN, NEW c, c = [calls EXCEPT ![n].or = or]
      PROVE  /\ c \in Seq(Calls) /\ c # <<>> /\ Pending(c) \in Nat
             /\ ~Current.or /\ or => Pending(c) = Pending(calls) + 1
             /\ Current.or /\ ~or => Pending(c) = Pending(calls) - 1
  <2> DEFINE e == [Current EXCEPT !.or = or]
  <2>1. e \in Calls /\ e.or = or /\ e.op = Current.op /\ c = WithLast(calls, e)
    BY <1>1, <1>4 DEF Calls, WithLast
  <2> HIDE DEF e
  <2>2. /\ c \in Seq(Calls) /\ Len(c) = n
        /\ Pending(c) = Pending(calls) - Waits(Current) + Waits(e)
    BY <1>1, <2>1, PendingChanges
  <2>3. Pending(c) \in Nat
    BY <2>2, PendingFinite
  <2>5. c # <<>>
    BY <1>1, <2>2
  <2> QED  BY <1>1, <2>1, <2>2, <2>3, <2>5 DEF Waits, Count
<1>5. Current.op # "none" \/ Current.or => Pending(calls) >= 1
  <2>1. Pending(calls) >= Waits(Current)
    BY <1>1, PendingChanges
  <2> QED  BY <1>1, <2>1 DEF Waits, Count
<1> QED  BY <1>1, <1>3, <1>4, <1>5

LEMMA StackStep ==
  ASSUME TypeOK, StackInv, [NextSearch]_searchVars
  PROVE  StackInv'
<1>1. /\ calls \in Seq(Calls) /\ stack \in Seq(Operands) /\ wordList.of \subseteq WordRecords
      /\ Pending(calls) \in Nat
      /\ step \notin {"idle", "parsed"} => calls # <<>>
      /\ step # "term" => Len(stack) = Pending(calls)
      /\ step = "term" => Len(stack) = Pending(calls) + 1
  BY PendingFinite DEF StackInv
<1>2. Len(stack) \in Nat
  BY <1>1
<1>3. CASE UNCHANGED parserVars
  BY <1>3 DEF StackInv, parserVars, Pending, Ors, Ops
<1>4. CASE Ask
  <2>1. stack' = <<>> /\ calls' = <<NewCall>> /\ step' = "factor" /\ wordList' = wordList
    <3>1. calls = <<>> /\ Len(stack) = 0
      BY <1>1, <1>4, PendingNone DEF Ask, StackInv
    <3> QED  BY <1>1, <1>4, <3>1 DEF Ask
  <2> QED  BY <1>1, <2>1, PendingNone DEF StackInv
<1>5. CASE FactorPhrase
  BY <1>1, <1>5 DEF FactorPhrase, StackInv, Null
<1>6. CASE FactorBracket
  <2>1. calls' = Append(calls, NewCall) /\ UNCHANGED <<stack, wordList, step>> /\ step = "factor"
    BY <1>6 DEF FactorBracket
  <2>2. calls' # <<>>
    BY <1>1, <2>1
  <2> QED  BY <1>1, <2>1, <2>2, PendingOpens DEF StackInv
<1>7. CASE FactorWord
  <2>1. perform_push(Head(tokens)) \in Operands
    BY <1>7, PushIsOperand DEF FactorWord
  <2>2. stack' \in Seq(Operands) /\ Len(stack') = Len(stack) + 1
    BY <1>1, <1>7, <2>1 DEF FactorWord
  <2>3. step = "factor" /\ step' = "term" /\ UNCHANGED <<calls, wordList>>
    BY <1>7 DEF FactorWord
  <2> QED  BY <1>1, <2>2, <2>3 DEF StackInv
<1>8. CASE PhraseWord
  <2>1. wordList'.of \subseteq WordRecords
    <3>1. ASSUME NEW t PROVE {k \in Occurrences(t.word) : \E old \in wordList.of :
                    /\ DocID(old) = DocID(k)
                    /\ Location(k) = Location(old) + ignoredWords + 1} \subseteq WordRecords
      BY FoundDocs
    <3> QED  BY <1>1, <1>8, <3>1, FoundDocs
             DEF PhraseWord, PhrasePasses, PhraseBegins, PhraseGoesOn, ResultList
  <2> QED  BY <1>1, <1>8, <2>1 DEF PhraseWord, StackInv
<1>9. CASE PhraseEnds
  <2>1. score(wordList.of, AllFields) \in Operands
    BY <1>1, ScoreIsOperand
  <2>2. stack' \in Seq(Operands) /\ Len(stack') = Len(stack) + 1
    BY <1>1, <1>9, <2>1 DEF PhraseEnds
  <2>3. step = "phrase" /\ step' = "term" /\ wordList' = Null /\ UNCHANGED calls
    BY <1>9 DEF PhraseEnds
  <2> QED  BY <1>1, <2>2, <2>3 DEF StackInv, Null
<1>10. CASE TermCombines
  <2>1. /\ step = "term" /\ UNCHANGED <<step, wordList>> /\ Perform(Current.op) /\ Current.op # "none"
        /\ calls' = [calls EXCEPT ![Len(calls)].op = "none"]
    BY <1>10 DEF TermCombines
  <2>2. /\ calls' \in Seq(Calls) /\ calls' # <<>> /\ Pending(calls') = Pending(calls) - 1
        /\ Pending(calls) >= 1 /\ Current.op \in {"&", "!"}
    BY <1>1, <2>1, CurrentCall DEF Calls
  <2>3. stack' \in Seq(Operands) /\ Len(stack') = Len(stack) - 1
    BY <1>1, <2>1, <2>2, PerformPops
  <2> QED  BY <1>1, <2>1, <2>2, <2>3 DEF StackInv
<1>11. CASE TermGoesOn
  <2>1. /\ step = "term" /\ step' = "factor" /\ UNCHANGED <<stack, wordList>> /\ Current.op = "none"
        /\ \E op \in {"&", "!"} : calls' = [calls EXCEPT ![Len(calls)].op = op]
    BY <1>11 DEF TermGoesOn, Lookahead
  <2>2. /\ calls' \in Seq(Calls) /\ calls' # <<>> /\ Pending(calls') = Pending(calls) + 1
    BY <1>1, <2>1, CurrentCall
  <2> QED  BY <1>1, <2>1, <2>2 DEF StackInv
<1>12. CASE ExprCombines
  <2>1. /\ step = "term" /\ UNCHANGED <<step, wordList>> /\ Perform("|") /\ Current.or
        /\ calls' = [calls EXCEPT ![Len(calls)].or = FALSE]
    BY <1>12 DEF ExprCombines, TermEnds
  <2>2. /\ calls' \in Seq(Calls) /\ calls' # <<>> /\ Pending(calls') = Pending(calls) - 1
        /\ Pending(calls) >= 1
    BY <1>1, <2>1, CurrentCall
  <2>3. stack' \in Seq(Operands) /\ Len(stack') = Len(stack) - 1
    BY <1>1, <2>1, <2>2, PerformPops
  <2> QED  BY <1>1, <2>1, <2>2, <2>3 DEF StackInv
<1>13. CASE ExprGoesOn
  <2>1. /\ step = "term" /\ step' = "factor" /\ UNCHANGED <<stack, wordList>> /\ ~Current.or
        /\ calls' = [calls EXCEPT ![Len(calls)].or = TRUE]
    BY <1>13 DEF ExprGoesOn, TermEnds
  <2>2. /\ calls' \in Seq(Calls) /\ calls' # <<>> /\ Pending(calls') = Pending(calls) + 1
    BY <1>1, <2>1, CurrentCall
  <2> QED  BY <1>1, <2>1, <2>2 DEF StackInv
<1>14. CASE ExprReturns
  <2>1. /\ step = "term" /\ UNCHANGED <<step, stack, wordList>> /\ ~Current.or /\ Current.op = "none"
        /\ calls' = Seqs!Front(calls) /\ Len(calls) > 1
    BY <1>14 DEF ExprReturns, TermEnds
  <2>2. /\ calls' \in Seq(Calls) /\ Len(calls') = Len(calls) - 1 /\ Pending(calls') = Pending(calls)
    BY <1>1, <2>1, PendingCloses DEF Current
  <2>3. calls' # <<>>
    BY <1>1, <2>1, <2>2
  <2> QED  BY <1>1, <2>1, <2>2, <2>3 DEF StackInv
<1>15. CASE Parsed
  <2>1. /\ step = "term" /\ step' = "parsed" /\ UNCHANGED wordList /\ calls' = <<>>
        /\ ~Current.or /\ Current.op = "none" /\ Len(calls) = 1 /\ stack' = Seqs!Front(stack)
    BY <1>15 DEF Parsed, TermEnds
  <2>2. Pending(calls) = 0
    <3>1. Ors(calls) = {} /\ Ops(calls) = {}
      BY <1>1, <2>1 DEF Ors, Ops, Current
    <3> QED  BY <3>1, FS_EmptySet DEF Pending
  <2>3. stack' = <<>>
    <3>1. Len(stack) = 1
      BY <1>1, <2>1, <2>2
    <3> QED  BY <2>1, <3>1, SubSeqEmpty DEF Seqs!Front
  <2>4. Pending(calls') = 0
    BY <2>1, PendingNone
  <2> QED  BY <1>1, <2>1, <2>3, <2>4 DEF StackInv
<1>16. CASE Shown
  BY <1>1, <1>16 DEF Shown, StackInv
<1> QED  BY <1>3, <1>4, <1>5, <1>6, <1>7, <1>8, <1>9, <1>10, <1>11, <1>12, <1>13, <1>14,
            <1>15, <1>16 DEF NextSearch, Parse, searchVars

LEMMA StackHolds == SearchSpec => []StackInv
<1>1. InitSearch => StackInv
  <2> SUFFICES ASSUME InitSearch PROVE StackInv
    OBVIOUS
  <2>1. calls = <<>> /\ stack = <<>> /\ wordList = Null /\ step = "idle"
    BY DEF InitSearch
  <2> QED  BY <2>1, PendingNone DEF StackInv, Null
<1>2. TypeOK /\ StackInv /\ [NextSearch]_searchVars => StackInv'
  BY StackStep
<1>3. SearchSpec => []TypeOK
  BY SearchesAreWalks, TypeCorrect, PTL
<1> QED  BY <1>1, <1>2, <1>3, PTL DEF SearchSpec

(* Whatever is asked, the parser never takes an operand that is not there,  *)
(* and has none left over when it is done: every operator that was read has *)
(* its left operand on the stack, one that waits for no more than its right *)
(* one has two (parser.cc:123-235, 931-973).                                *)
THEOREM OperandsAreThere == SearchSpec => []OperandsThere
<1>1. StackInv => OperandsThere
  <2> SUFFICES ASSUME StackInv PROVE OperandsThere
    OBVIOUS
  <2>1. stack \in Seq(Operands) /\ calls \in Seq(Calls)
    BY DEF StackInv
  <2>2. CASE step = "term"
    <3>1. calls # <<>> /\ Len(stack) = Pending(calls) + 1
      BY <2>2 DEF StackInv
    <3>2. Pending(calls) \in Nat /\ (Current.op # "none" \/ Current.or => Pending(calls) >= 1)
      BY <2>1, <3>1, CurrentCall
    <3> QED  BY <2>2, <3>1, <3>2 DEF OperandsThere
  <2>3. CASE step \in {"idle", "parsed"}
    <3>1. Len(stack) = 0
      BY <2>3, PendingNone DEF StackInv
    <3> QED  BY <2>1, <2>3, <3>1 DEF OperandsThere
  <2> QED  BY <2>2, <2>3 DEF OperandsThere
<1> QED  BY <1>1, StackHolds, PTL

----------------------------------------------------------------------------
(* Texts: brackets and quotes *)

(* A set of numbers that has 0 and the successor of each is all of them, up *)
(* to a last one.                                                           *)
LEMMA UpTo ==
  ASSUME NEW n \in Nat, NEW S, 0 \in S,
         \A i \in 1 .. n : i - 1 \in S => i \in S
  PROVE  \A i \in 0 .. n : i \in S
<1> DEFINE Bad == {i \in 0 .. n : i \notin S}
<1>1. SUFFICES ASSUME Bad # {} PROVE FALSE
  OBVIOUS
<1>2. PICK i \in Bad : \A j \in Bad : i <= j
  <2>1. Bad \in SUBSET Nat
    OBVIOUS
  <2> HIDE DEF Bad
  <2> QED  BY <1>1, <2>1, LeastExists
<1>3. i \in 1 .. n /\ i - 1 \in 0 .. n /\ ~(i <= i - 1)
  OBVIOUS
<1>4. i - 1 \in S
  BY <1>2, <1>3
<1> QED  BY <1>3, <1>4

(* How many of a set there are up to a place. *)
LEMMA CountUpTo ==
  ASSUME NEW S, NEW i \in Nat
  PROVE  /\ Cardinality({j \in 1 .. i : j \in S}) \in Nat
         /\ i = 0 => Cardinality({j \in 1 .. i : j \in S}) = 0
         /\ i # 0 => Cardinality({j \in 1 .. i : j \in S}) =
                       Cardinality({j \in 1 .. i - 1 : j \in S}) + Count(i \in S)
<1> DEFINE C(n) == {j \in 1 .. n : j \in S}
<1>1. \A n \in Nat : IsFiniteSet(C(n)) /\ Cardinality(C(n)) \in Nat
  <2> TAKE n \in Nat
  <2>1. IsFiniteSet(1 .. n)
    BY FS_Interval
  <2>2. C(n) \subseteq 1 .. n
    OBVIOUS
  <2> QED  BY <2>1, <2>2, FS_Subset, FS_CardinalityType
<1>2. CASE i = 0
  <2>1. C(0) = {}
    OBVIOUS
  <2> QED  BY <1>1, <1>2, <2>1, FS_EmptySet
<1>3. CASE i # 0
  <2>1. i - 1 \in Nat /\ i \notin C(i - 1)
    BY <1>3
  <2>2. C(i) = IF i \in S THEN C(i - 1) \union {i} ELSE C(i - 1)
    BY <1>3
  <2> HIDE DEF C
  <2>3. Cardinality(C(i - 1) \union {i}) = Cardinality(C(i - 1)) + 1
    BY <1>1, <2>1, FS_AddElement
  <2>4. Cardinality(C(i)) = Cardinality(C(i - 1)) + Count(i \in S)
    BY <1>1, <2>1, <2>2, <2>3 DEF Count
  <2> QED  BY <1>1, <1>3, <2>4 DEF C
<1> QED  BY <1>2, <1>3

IsQuote(words, i) == words[i].type = "quote"
IsOpening(words, i) == words[i].type = "(" /\ ~InPhrase(words, i)
IsClosing(words, i) == words[i].type = ")" /\ ~InPhrase(words, i)

LEMMA InPhraseStep ==
  ASSUME NEW words, NEW i \in Nat
  PROVE  /\ i = 0 => ~InPhrase(words, i)
         /\ i # 0 => (InPhrase(words, i) <=> ~(InPhrase(words, i - 1) <=> IsQuote(words, i)))
<1> DEFINE S == {j \in Nat : words[j].type = "quote"}
<1>1. ASSUME NEW n \in Nat
      PROVE  InPhrase(words, n) <=> (Cardinality({j \in 1 .. n : j \in S}) % 2 = 1)
  <2>1. {j \in 1 .. n : j \in S} = {j \in 1 .. n : words[j].type = "quote"}
    OBVIOUS
  <2> QED  BY <2>1, Zenon DEF InPhrase
<1>2. i \in S <=> IsQuote(words, i)
  BY DEF IsQuote
<1> HIDE DEF S
<1>3. CASE i = 0
  <2>1. Cardinality({j \in 1 .. i : j \in S}) = 0
    BY <1>3, CountUpTo
  <2>2. ~(0 % 2 = 1)
    OBVIOUS
  <2>3. InPhrase(words, i) <=> (Cardinality({j \in 1 .. i : j \in S}) % 2 = 1)
    BY <1>1
  <2> QED  BY <1>3, <2>1, <2>2, <2>3
<1>4. CASE i # 0
  <2>1. i - 1 \in Nat
    BY <1>4
  <2>0. \A n \in Nat : ((n + 1) % 2 = 1) <=> ~(n % 2 = 1)
    OBVIOUS
  <2> DEFINE c == Cardinality({j \in 1 .. i - 1 : j \in S})
             d == Cardinality({j \in 1 .. i : j \in S})
  <2>2. c \in Nat /\ d = c + Count(i \in S)
    BY <1>4, <2>1, CountUpTo
  <2>3. InPhrase(words, i) <=> (d % 2 = 1)
    BY <1>1
  <2>4. InPhrase(words, i - 1) <=> (c % 2 = 1)
    BY <1>1, <2>1
  <2> HIDE DEF c, d
  <2>5. CASE i \in S
    <3>1. d = c + 1
      BY <2>2, <2>5 DEF Count
    <3> QED  BY <1>2, <1>4, <2>0, <2>2, <2>3, <2>4, <2>5, <3>1
  <2>6. CASE i \notin S
    <3>1. d = c
      BY <2>2, <2>6 DEF Count
    <3> QED  BY <1>2, <1>4, <2>2, <2>3, <2>4, <2>6, <3>1
  <2> QED  BY <2>5, <2>6
<1> QED  BY <1>3, <1>4

LEMMA DepthStep ==
  ASSUME NEW words, NEW i \in Nat
  PROVE  /\ Depth(words, i) \in Int
         /\ i = 0 => Depth(words, i) = 0
         /\ i # 0 => Depth(words, i) =
              Depth(words, i - 1) + (IF IsOpening(words, i) THEN 1
                                     ELSE IF IsClosing(words, i) THEN -1 ELSE 0)
<1> DEFINE O == {j \in Nat : IsOpening(words, j)}
           C == {j \in Nat : IsClosing(words, j)}
           o(n) == Cardinality({j \in 1 .. n : j \in O})
           c(n) == Cardinality({j \in 1 .. n : j \in C})
<1>1. ASSUME NEW n \in Nat
      PROVE  Depth(words, n) = o(n) - c(n)
  <2>1. {j \in 1 .. n : j \in O} = {j \in 1 .. n : words[j].type = "(" /\ ~InPhrase(words, j)}
    BY DEF IsOpening
  <2>2. {j \in 1 .. n : j \in C} = {j \in 1 .. n : words[j].type = ")" /\ ~InPhrase(words, j)}
    BY DEF IsClosing
  <2> QED  BY <2>1, <2>2, Zenon DEF Depth
<1>2. (i \in O <=> IsOpening(words, i)) /\ (i \in C <=> IsClosing(words, i))
  OBVIOUS
<1>3. ~(IsOpening(words, i) /\ IsClosing(words, i))
  BY DEF IsOpening, IsClosing
<1> HIDE DEF O, C
<1>4. \A n \in Nat : o(n) \in Nat /\ c(n) \in Nat
  BY CountUpTo
<1>5. i = 0 => o(i) = 0 /\ c(i) = 0
  BY CountUpTo
<1>6. i # 0 => o(i) = o(i - 1) + Count(i \in O) /\ c(i) = c(i - 1) + Count(i \in C)
  BY CountUpTo
<1> HIDE DEF o, c
<1>7. CASE i = 0
  BY <1>1, <1>4, <1>5, <1>7
<1>8. CASE i # 0
  <2>1. i - 1 \in Nat
    BY <1>8
  <2>2. Depth(words, i - 1) = o(i - 1) - c(i - 1) /\ Depth(words, i) = o(i) - c(i)
    BY <1>1, <2>1
  <2>3. o(i) \in Nat /\ c(i) \in Nat /\ o(i - 1) \in Nat /\ c(i - 1) \in Nat
    BY <1>4, <2>1
  <2> QED  BY <1>2, <1>3, <1>6, <1>8, <2>2, <2>3 DEF Count
<1> QED  BY <1>7, <1>8

----------------------------------------------------------------------------
(* The meaning of a text *)

(* What Meaning says of a part, when m has the meanings of shorter ones. *)
OfPart(words, leaf, m, part) ==
  IF part[1] > part[2] THEN Ignored
  ELSE IF Outer(words, part, Operators) # {}
    THEN Joined(words[Main(words, part)].type, m[<<part[1], Main(words, part) - 1>>],
                m[<<Main(words, part) + 1, part[2]>>])
  ELSE IF words[part[1]].type = "(" THEN m[<<part[1] + 1, part[2] - 1>>]
  ELSE leaf[part[1]]

Size(part) == IF part[2] >= part[1] THEN part[2] - part[1] + 1 ELSE 0

(* The last of the outer alternatives, or else of the other operators.      *)
LEMMA MainIsOuter ==
  ASSUME NEW words, NEW part \in (Nat \ {0}) \X Nat, Outer(words, part, Operators) # {}
  PROVE  /\ Main(words, part) \in Outer(words, part, Operators)
         /\ Main(words, part) \in part[1] .. part[2]
         /\ Outer(words, part, {"|"}) # {} =>
              /\ Main(words, part) \in Outer(words, part, {"|"})
              /\ \A k \in Outer(words, part, {"|"}) : k <= Main(words, part)
         /\ Outer(words, part, {"|"}) = {} =>
              \A k \in Outer(words, part, Operators) : k <= Main(words, part)
<1>1. /\ Outer(words, part, {"|"}) \in SUBSET (0 .. part[2])
      /\ Outer(words, part, Operators) \in SUBSET (0 .. part[2])
      /\ Outer(words, part, Operators) \subseteq part[1] .. part[2]
  BY DEF Outer
<1>2. Outer(words, part, {"|"}) \subseteq Outer(words, part, Operators)
  BY DEF Outer, Operators
<1>3. CASE Outer(words, part, {"|"}) # {}
  <2>1. Main(words, part) = Greatest(Outer(words, part, {"|"}))
    BY <1>3 DEF Main
  <2> QED  BY <1>1, <1>2, <1>3, <2>1, GreatestExists
<1>4. CASE Outer(words, part, {"|"}) = {}
  <2>1. Main(words, part) = Greatest(Outer(words, part, Operators))
    BY <1>4 DEF Main
  <2> QED  BY <1>1, <1>4, <2>1, GreatestExists
<1> QED  BY <1>3, <1>4

(* Only shorter parts are asked for. *)
LEMMA ShorterParts ==
  ASSUME NEW words, Len(words) \in Nat, NEW part \in Parts(words), ~(part[1] > part[2])
  PROVE  /\ Outer(words, part, Operators) # {} =>
              /\ <<part[1], Main(words, part) - 1>> \in Parts(words)
              /\ <<Main(words, part) + 1, part[2]>> \in Parts(words)
              /\ Size(<<part[1], Main(words, part) - 1>>) < Size(part)
              /\ Size(<<Main(words, part) + 1, part[2]>>) < Size(part)
         /\ <<part[1] + 1, part[2] - 1>> \in Parts(words)
         /\ Size(<<part[1] + 1, part[2] - 1>>) < Size(part)
         /\ Size(part) \in 1 .. Len(words)
<1>1. PICK i \in 1 .. Len(words) + 1, j \in 0 .. Len(words) : part = <<i, j>>
  BY DEF Parts
<1>2. i <= j
  BY <1>1
<1>3. ASSUME Outer(words, part, Operators) # {}
      PROVE  Main(words, part) \in i .. j
  BY <1>1, <1>3, MainIsOuter
<1>4. Size(part) = j - i + 1
  BY <1>1, <1>2 DEF Size
<1>5. /\ <<i + 1, j - 1>> \in Parts(words) /\ Size(<<i + 1, j - 1>>) < j - i + 1
      /\ j - i + 1 \in 1 .. Len(words)
  BY <1>2 DEF Parts, Size
<1>6. ASSUME NEW k \in i .. j
      PROVE  /\ <<i, k - 1>> \in Parts(words) /\ <<k + 1, j>> \in Parts(words)
             /\ Size(<<i, k - 1>>) < j - i + 1 /\ Size(<<k + 1, j>>) < j - i + 1
  BY <1>2 DEF Parts, Size
<1> QED  BY <1>1, <1>3, <1>4, <1>5, <1>6

LEMMA MeaningIs ==
  ASSUME NEW words, NEW leaf, Len(words) \in Nat
  PROVE  \A part \in Parts(words) :
           Meaning(words, leaf)[part] = OfPart(words, leaf, Meaning(words, leaf), part)
<1> DEFINE P == Parts(words)
           Fits(m, s) == \A part \in P : Size(part) <= s => m[part] = OfPart(words, leaf, m, part)
           Good == {s \in Nat : \E m : m = [part \in P |-> m[part]] /\ Fits(m, s)}
<1>0. \A part \in P : Size(part) \in 0 .. Len(words)
  BY ShorterParts DEF Size, Parts
<1>1. ASSUME NEW part \in P, NEW m, NEW f,
             \A other \in P : Size(other) < Size(part) => m[other] = f[other]
      PROVE  OfPart(words, leaf, m, part) = OfPart(words, leaf, f, part)
  <2>1. CASE part[1] > part[2]
    BY <2>1 DEF OfPart
  <2>2. CASE ~(part[1] > part[2])
    <3>1. CASE Outer(words, part, Operators) # {}
      <4> DEFINE a == <<part[1], Main(words, part) - 1>>
                 b == <<Main(words, part) + 1, part[2]>>
      <4>1. m[a] = f[a] /\ m[b] = f[b]
        BY <1>1, <2>2, <3>1, ShorterParts
      <4> QED  BY <2>2, <3>1, <4>1, Zenon DEF OfPart
    <3>2. CASE ~(Outer(words, part, Operators) # {})
      <4> DEFINE a == <<part[1] + 1, part[2] - 1>>
      <4>1. m[a] = f[a]
        BY <1>1, <2>2, ShorterParts
      <4> QED  BY <2>2, <3>2, <4>1, Zenon DEF OfPart
    <3> QED  BY <3>1, <3>2
  <2> QED  BY <2>1, <2>2
<1>2. 0 \in Good
  <2> DEFINE m == [part \in P |-> Ignored]
  <2>1. \A part \in P : Size(part) <= 0 => part[1] > part[2]
    BY DEF Size, Parts
  <2>2. Fits(m, 0)
    BY <2>1 DEF OfPart
  <2>3. m = [part \in P |-> m[part]]
    OBVIOUS
  <2> HIDE DEF m, Fits
  <2> QED  BY <2>2, <2>3
<1>3. ASSUME NEW s \in 1 .. Len(words), s - 1 \in Good PROVE s \in Good
  <2>1. PICK f : Fits(f, s - 1)
    BY <1>3
  <2> DEFINE m == [part \in P |-> OfPart(words, leaf, f, part)]
  <2>2. ASSUME NEW part \in P, Size(part) <= s PROVE m[part] = OfPart(words, leaf, m, part)
    <3>1. ASSUME NEW other \in P, Size(other) < Size(part) PROVE f[other] = m[other]
      <4>1. Size(other) <= s - 1
        <5>1. Size(other) \in Nat /\ Size(part) \in Nat /\ s \in Nat
          BY <1>0
        <5> QED  BY <2>2, <3>1, <5>1
      <4> QED  BY <2>1, <4>1
    <3>2. m[part] = OfPart(words, leaf, f, part)
      OBVIOUS
    <3> HIDE DEF m
    <3>3. OfPart(words, leaf, f, part) = OfPart(words, leaf, m, part)
      BY <1>1, <3>1
    <3> QED  BY <3>2, <3>3
  <2>3. m = [part \in P |-> m[part]]
    OBVIOUS
  <2> HIDE DEF m
  <2>4. Fits(m, s)
    BY <2>2
  <2> HIDE DEF Fits
  <2> QED  BY <2>3, <2>4
<1>4. Len(words) \in Good
  <2>1. Len(words) \in 0 .. Len(words) /\ Len(words) \in Nat
    OBVIOUS
  <2> HIDE DEF Good
  <2> QED  BY <1>2, <1>3, <2>1, UpTo
<1>5. PICK m : m = [part \in P |-> m[part]] /\ Fits(m, Len(words))
  BY <1>4
<1>6. m = [part \in P |-> OfPart(words, leaf, m, part)]
  <2>1. \A part \in P : m[part] = OfPart(words, leaf, m, part)
    BY <1>0, <1>5
  <2> HIDE DEF P, Fits
  <2> QED  BY <1>5, <2>1
<1> DEFINE Is(f) == f = [part \in P |-> OfPart(words, leaf, f, part)]
<1>7. Meaning(words, leaf) = CHOOSE f : Is(f)
  BY Zenon DEF Meaning, OfPart, Parts
<1>8. Is(Meaning(words, leaf))
  BY <1>6, <1>7
<1> HIDE DEF P
<1> QED  BY <1>8 DEF P

(* A part is ignored where it would be with any other meaning of the words  *)
(* and phrases that are not.                                                *)
IsMeaning(m) == m = Ignored \/ \E D : m = ResultList(D)

LEMMA ListIsNotIgnored ==
  ASSUME NEW D
  PROVE  ResultList(D) # Ignored /\ ResultList(D).of = D /\ Ignored.of = {}
         /\ Null # Ignored /\ Null # ResultList(D) /\ Null.of = {}
BY DEF ResultList, Ignored, Null

LEMMA JoinedIsMeaning ==
  ASSUME NEW op, NEW left, NEW right, IsMeaning(left), IsMeaning(right)
  PROVE  /\ IsMeaning(Joined(op, left, right))
         /\ Joined(op, left, right) = Ignored <=>
              left = Ignored /\ (right = Ignored \/ op = "!")
<1>1. \E D : (CASE op = "&" -> left.of \intersect right.of
                [] op = "|" -> left.of \union right.of
                [] op = "!" -> left.of \ right.of) = D
  OBVIOUS
<1> QED  BY <1>1, ListIsNotIgnored DEF Joined, IsMeaning

LEMMA MeaningKinds ==
  ASSUME NEW words, Len(words) \in Nat, NEW leaf, NEW kind,
         \A i \in 1 .. Len(words) : /\ IsMeaning(leaf[i]) /\ IsMeaning(kind[i])
                                    /\ leaf[i] = Ignored <=> kind[i] = Ignored
  PROVE  \A part \in Parts(words) :
           /\ IsMeaning(Meaning(words, leaf)[part])
           /\ Meaning(words, leaf)[part] = Ignored <=> Meaning(words, kind)[part] = Ignored
<1> DEFINE m == Meaning(words, leaf)
           k == Meaning(words, kind)
           Same(part) == /\ IsMeaning(m[part]) /\ IsMeaning(k[part])
                         /\ m[part] = Ignored <=> k[part] = Ignored
           Good == {s \in Nat : \A part \in Parts(words) : Size(part) <= s => Same(part)}
<1>1. \A part \in Parts(words) : Size(part) \in 0 .. Len(words)
  BY DEF Size, Parts
<1>2. \A part \in Parts(words) : /\ m[part] = OfPart(words, leaf, m, part)
                                 /\ k[part] = OfPart(words, kind, k, part)
  BY MeaningIs
<1> HIDE DEF m, k
<1>3. ASSUME NEW part \in Parts(words), part[1] > part[2] PROVE Same(part)
  <2>1. m[part] = Ignored /\ k[part] = Ignored
    BY <1>2, <1>3 DEF OfPart
  <2> QED  BY <2>1 DEF IsMeaning
<1>4. 0 \in Good
  <2>1. \A part \in Parts(words) : Size(part) <= 0 => part[1] > part[2]
    BY DEF Size, Parts
  <2> HIDE DEF Same
  <2> QED  BY <1>3, <2>1
<1>5. ASSUME NEW s \in 1 .. Len(words), s - 1 \in Good PROVE s \in Good
  <2> SUFFICES ASSUME NEW part \in Parts(words), Size(part) <= s, ~(part[1] > part[2])
               PROVE  Same(part)
    BY <1>3
  <2>1. \A other \in Parts(words) : Size(other) < Size(part) => Same(other)
    <3>1. \A other \in Parts(words) : Size(other) < Size(part) => Size(other) <= s - 1
      <4>1. Size(part) \in Nat /\ \A other \in Parts(words) : Size(other) \in Nat
        BY <1>1
      <4>2. \A x \in Nat, y \in Nat : x < y /\ y <= s => x <= s - 1
        OBVIOUS
      <4> QED  BY <4>1, <4>2
    <3> HIDE DEF Same
    <3> QED  BY <1>5, <3>1
  <2>2. CASE Outer(words, part, Operators) # {}
    <3> DEFINE a == <<part[1], Main(words, part) - 1>>
               b == <<Main(words, part) + 1, part[2]>>
               op == words[Main(words, part)].type
    <3>1. Same(a) /\ Same(b)
      BY <2>1, <2>2, ShorterParts
    <3>2. m[part] = Joined(op, m[a], m[b]) /\ k[part] = Joined(op, k[a], k[b])
      BY <1>2, <2>2 DEF OfPart
    <3> HIDE DEF a, b, op
    <3> QED  BY <3>1, <3>2, JoinedIsMeaning
  <2>3. CASE Outer(words, part, Operators) = {} /\ words[part[1]].type = "("
    <3> DEFINE a == <<part[1] + 1, part[2] - 1>>
    <3>1. Same(a)
      BY <2>1, ShorterParts
    <3>2. m[part] = m[a] /\ k[part] = k[a]
      BY <1>2, <2>3 DEF OfPart
    <3> HIDE DEF a
    <3> QED  BY <3>1, <3>2
  <2>4. CASE Outer(words, part, Operators) = {} /\ words[part[1]].type # "("
    <3>1. m[part] = leaf[part[1]] /\ k[part] = kind[part[1]]
      BY <1>2, <2>4 DEF OfPart
    <3>2. part[1] \in 1 .. Len(words)
      BY DEF Parts
    <3> QED  BY <3>1, <3>2
  <2> QED  BY <2>2, <2>3, <2>4
<1>6. Len(words) \in Good
  <2>1. Len(words) \in 0 .. Len(words) /\ Len(words) \in Nat
    OBVIOUS
  <2> HIDE DEF Good
  <2> QED  BY <1>4, <1>5, <2>1, UpTo
<1> HIDE DEF Same
<1>7. \A part \in Parts(words) : Same(part)
  BY <1>1, <1>6
<1> QED  BY <1>7 DEF Same, m, k

(* The results on the stack and what they stand for.  A word that is found  *)
(* nowhere before an alternative that is ignored gives one that looks       *)
(* ignored: then only the documents are right.                              *)
IsResult(v) == v = Null \/ IsMeaning(v)

Stands(v, m) == IsResult(v) /\ IsMeaning(m) /\ v.of = m.of

Denotes(v, m) == Stands(v, m) /\ (v = Ignored <=> m = Ignored)

LEMMA CombinedDenotes ==
  ASSUME NEW op \in {"&", "!"}, NEW v2, NEW m2, NEW v1, NEW m1, Denotes(v2, m2), Denotes(v1, m1)
  PROVE  Denotes(Combined(op, v2, v1), Joined(op, m2, m1))
<1>1. /\ IsMeaning(Joined(op, m2, m1))
      /\ Joined(op, m2, m1) = Ignored <=> m2 = Ignored /\ (m1 = Ignored \/ op = "!")
  BY JoinedIsMeaning DEF Denotes, Stands
<1>2. CASE op = "&"
  <2>1. Combined(op, v2, v1) = perform_and(v2, v1)
    BY <1>2 DEF Combined
  <2>2. IsResult(perform_and(v2, v1))
    BY DEF perform_and, Denotes, Stands, IsResult, IsMeaning
  <2>3. perform_and(v2, v1) = Ignored <=> v2 = Ignored /\ v1 = Ignored
    BY ListIsNotIgnored DEF perform_and, Denotes, Stands, IsResult, IsMeaning
  <2>4. perform_and(v2, v1).of = Joined(op, m2, m1).of
    BY <1>2, ListIsNotIgnored DEF perform_and, Joined, Denotes, Stands, IsResult, IsMeaning
  <2> QED  BY <1>1, <1>2, <2>1, <2>2, <2>3, <2>4 DEF Denotes, Stands
<1>3. CASE op = "!"
  <2>1. Combined(op, v2, v1) = perform_not(v2, v1)
    BY <1>3 DEF Combined
  <2>2. IsResult(perform_not(v2, v1))
    BY DEF perform_not, Denotes, Stands, IsResult, IsMeaning
  <2>3. perform_not(v2, v1) = Ignored <=> v2 = Ignored
    BY ListIsNotIgnored DEF perform_not, Denotes, Stands, IsResult, IsMeaning
  <2>4. perform_not(v2, v1).of = Joined(op, m2, m1).of
    BY <1>3, ListIsNotIgnored DEF perform_not, Joined, Denotes, Stands, IsResult, IsMeaning
  <2> QED  BY <1>1, <1>3, <2>1, <2>2, <2>3, <2>4 DEF Denotes, Stands
<1> QED  BY <1>2, <1>3

LEMMA AlternativesStand ==
  ASSUME NEW v2, NEW m2, NEW v1, NEW m1, Stands(v2, m2), Stands(v1, m1)
  PROVE  /\ Stands(Combined("|", v2, v1), Joined("|", m2, m1))
         /\ v2 # Ignored /\ v1 # Ignored => Combined("|", v2, v1) # Ignored
<1>1. /\ IsMeaning(Joined("|", m2, m1))
      /\ Joined("|", m2, m1).of = m2.of \union m1.of
  <2>1. IsMeaning(Joined("|", m2, m1))
    BY JoinedIsMeaning DEF Stands
  <2> QED  BY <2>1, ListIsNotIgnored DEF Joined
<1>2. Combined("|", v2, v1) = perform_or(v2, v1)
  BY DEF Combined
<1>3. IsResult(perform_or(v2, v1)) /\ perform_or(v2, v1).of = v2.of \union v1.of
  BY ListIsNotIgnored DEF perform_or, Stands, IsResult, IsMeaning
<1>4. v2 # Ignored /\ v1 # Ignored => perform_or(v2, v1) # Ignored
  BY ListIsNotIgnored DEF perform_or, Stands, IsResult, IsMeaning
<1> QED  BY <1>1, <1>2, <1>3, <1>4 DEF Stands

----------------------------------------------------------------------------
(* The open calls of expr *)

(* Operators between two places of a text, d brackets deep. *)
At(T, a, b, types, d) ==
  {k \in a .. b : T[k].type \in types /\ ~InPhrase(T, k) /\ Depth(T, k) = d}

(* v is the result of the words a to b of call number l. *)
Val(T, M, v, a, b, l) ==
  IF l = 1 /\ At(T, a, b, {"|"}, 0) # {} THEN Stands(v, M[<<a, b>>]) ELSE Denotes(v, M[<<a, b>>])

(* Where a call began to read, the last "|" it has read and how many        *)
(* results were on the stack: it has read the words up to p, and a factor   *)
(* comes next.                                                              *)
TermStart(c, f) == IF c.or THEN f.bar + 1 ELSE f.start

Frame(T, M, c, s, f, l, p) ==
  /\ f.start \in 1 .. p + 1 /\ f.bar \in Nat /\ f.base \in Nat
  /\ IF l = 1 THEN f.start = 1 ELSE f.start > 1 /\ T[f.start - 1].type = "("
  /\ ~InPhrase(T, f.start - 1) /\ Depth(T, f.start - 1) = l - 1
  /\ ~InPhrase(T, p) /\ Depth(T, p) = l - 1
  /\ \A k \in f.start - 1 .. p : Depth(T, k) >= l - 1
  /\ c.or => /\ f.bar \in f.start + 1 .. p /\ f.bar \in At(T, f.start, p, {"|"}, l - 1)
             /\ Val(T, M, s[f.base + 1], f.start, f.bar - 1, l)
  /\ At(T, TermStart(c, f), p, {"|"}, l - 1) = {}
  /\ IF c.op = "none" THEN p + 1 = TermStart(c, f)
     ELSE /\ p \in At(T, TermStart(c, f), p, {c.op}, l - 1)
          /\ Denotes(s[f.base + Count(c.or) + 1], M[<<TermStart(c, f), p - 1>>])

Frames(T, M, c, s, F, p) ==
  /\ p \in 0 .. Len(T) /\ F[1].base = 0
  /\ \A l \in 1 .. Len(c) : Frame(T, M, c[l], s, F[l], l, IF l = Len(c) THEN p ELSE F[l + 1].start - 2)
  /\ \A l \in 1 .. Len(c) - 1 : F[l + 1].base = F[l].base + Waits(c[l])

(* A factor comes next, or was read up to i. *)
Held(c, F) == F[Len(c)].base + Waits(c[Len(c)])

Reading(T, M, c, s, p) == \E F : Frames(T, M, c, s, F, p) /\ Len(s) = Held(c, F)

Behind(T, M, c, v, l, p, i) ==
  /\ i \in p + 1 .. Len(T)
  /\ ~InPhrase(T, i) /\ OperandEnds(T, i) /\ Depth(T, i) = l - 1
  /\ \A k \in p .. i : Depth(T, k) >= l - 1
  /\ Val(T, M, v, p + 1, i, l)
  /\ c.op # "none" => At(T, p + 1, i, Operators, l - 1) = {}
  /\ \/ At(T, p + 1, i, {"|"}, l - 1) = {}
     \/ c.op = "none" /\ ~c.or /\ (i < Len(T) => T[i + 1].type \notin {"&", "!"})

Read(T, M, c, s, i) ==
  \E F, p : /\ Frames(T, M, c, s, F, p) /\ Len(s) = Held(c, F) + 1
            /\ Behind(T, M, c[Len(c)], s[Len(s)], Len(c), p, i)

LEMMA WaitsFacts ==
  ASSUME NEW c \in Calls
  PROVE  /\ Waits(c) \in Nat /\ Count(c.or) \in Nat
         /\ c.or => Waits(c) >= 1 /\ Count(c.or) = 1
         /\ ~c.or => Count(c.or) = 0
         /\ Waits(c) = Count(c.or) + (IF c.op = "none" THEN 0 ELSE 1)
BY DEF Calls, Waits, Count

(* A call looks at its own results only. *)
LEMMA FrameStack ==
  ASSUME NEW T, NEW M, NEW c \in Calls, NEW s, NEW t, NEW f, NEW l, NEW p,
         Frame(T, M, c, s, f, l, p), \A i \in 1 .. f.base + Waits(c) : s[i] = t[i]
  PROVE  Frame(T, M, c, t, f, l, p)
<1>1. f.base \in Nat
  BY DEF Frame
<1>2. PICK w \in Nat, o \in Nat : w = Waits(c) /\ o = Count(c.or)
  BY WaitsFacts
<1>3. (c.or => w >= 1) /\ (c.op # "none" => w = o + 1)
  BY <1>2, WaitsFacts
<1>4. /\ c.or => f.base + 1 \in 1 .. f.base + w
      /\ c.op # "none" => f.base + o + 1 \in 1 .. f.base + w
  BY <1>1, <1>2, <1>3
<1>5. /\ c.or => s[f.base + 1] = t[f.base + 1]
      /\ c.op # "none" => s[f.base + Count(c.or) + 1] = t[f.base + Count(c.or) + 1]
  BY <1>2, <1>4
<1> QED  BY <1>5, Zenon DEF Frame

LEMMA BasesGrow ==
  ASSUME NEW T, NEW M, NEW c \in Seq(Calls), NEW s, NEW F, NEW p, Frames(T, M, c, s, F, p)
  PROVE  /\ \A l \in 1 .. Len(c) : F[l].base \in Nat
         /\ \A l \in 1 .. Len(c) - 1 : F[l].base + Waits(c[l]) <= F[Len(c)].base
<1> DEFINE n == Len(c)
           Good == {m \in Nat : \A l \in 1 .. m - 1 : F[l].base + Waits(c[l]) <= F[m].base}
<1>1. \A l \in 1 .. n : F[l].base \in Nat /\ c[l] \in Calls /\ Waits(c[l]) \in Nat
  <2>1. \A l \in 1 .. n : F[l].base \in Nat
    BY DEF Frames, Frame
  <2>2. \A l \in 1 .. n : c[l] \in Calls
    OBVIOUS
  <2> QED  BY <2>1, <2>2, WaitsFacts
<1>2. n \in Nat
  OBVIOUS
<1>3. \A l \in 1 .. n - 1 : F[l + 1].base = F[l].base + Waits(c[l])
  BY DEF Frames
<1> HIDE DEF n
<1>4. 0 \in Good
  OBVIOUS
<1>5. ASSUME NEW m \in 1 .. n, m - 1 \in Good PROVE m \in Good
  <2> SUFFICES ASSUME NEW l \in 1 .. m - 1 PROVE F[l].base + Waits(c[l]) <= F[m].base
    OBVIOUS
  <2>1. m - 1 \in 1 .. n /\ m - 1 \in 1 .. n - 1 /\ (m - 1) + 1 = m /\ l \in 1 .. n
    BY <1>2
  <2>2. F[m].base = F[m - 1].base + Waits(c[m - 1])
    BY <1>3, <2>1
  <2>3. F[m - 1].base \in Nat /\ Waits(c[m - 1]) \in Nat /\ F[l].base \in Nat /\ Waits(c[l]) \in Nat
    BY <1>1, <2>1
  <2>4. CASE l = m - 1
    BY <2>2, <2>3, <2>4
  <2>5. CASE l # m - 1
    <3>1. l \in 1 .. (m - 1) - 1
      BY <2>5
    <3>2. F[l].base + Waits(c[l]) <= F[m - 1].base
      BY <1>5, <3>1
    <3> QED  BY SMTT(30), <2>2, <2>3, <3>2
  <2> QED  BY <2>4, <2>5
<1>6. n \in Good
  <2>1. n \in 0 .. n
    BY <1>2
  <2> HIDE DEF Good
  <2> QED  BY <1>2, <1>4, <1>5, <2>1, UpTo
<1> QED  BY <1>1, <1>6 DEF n

(* What changes is the last call and the results above the others'. *)
LEMMA FramesLast ==
  ASSUME NEW T, NEW M, NEW c \in Seq(Calls), c # <<>>, NEW d \in Seq(Calls), Len(d) = Len(c),
         \A l \in 1 .. Len(c) - 1 : d[l] = c[l],
         NEW s, NEW t, NEW F, NEW G, \A l \in 1 .. Len(c) - 1 : G[l] = F[l],
         G[Len(c)].base = F[Len(c)].base, G[Len(c)].start = F[Len(c)].start,
         \A i \in 1 .. F[Len(c)].base : t[i] = s[i],
         NEW p, NEW q \in 0 .. Len(T), Frames(T, M, c, s, F, p),
         Frame(T, M, d[Len(c)], t, G[Len(c)], Len(c), q)
  PROVE  Frames(T, M, d, t, G, q)
<1>1. PICK n \in Nat : n = Len(c) /\ n >= 1
  <2>1. Len(c) \in Nat /\ Len(c) # 0
    BY EmptySeq
  <2> QED  BY <2>1
<1>2. G[1].base = 0
  <2>1. F[1].base = 0
    BY DEF Frames
  <2> QED  BY <1>1, <2>1
<1>3. ASSUME NEW l \in 1 .. n, l # n
      PROVE  Frame(T, M, d[l], t, G[l], l, G[l + 1].start - 2)
  <2>1. l \in 1 .. Len(c) - 1 /\ l + 1 \in 1 .. n /\ l \in 1 .. Len(c)
    BY <1>1, <1>3
  <2>2. d[l] = c[l] /\ G[l] = F[l] /\ c[l] \in Calls
    BY <2>1
  <2>3. G[l + 1].start = F[l + 1].start
    <3>1. CASE l + 1 = n
      BY <1>1, <3>1
    <3>2. CASE l + 1 # n
      <4>1. l + 1 \in 1 .. Len(c) - 1
        BY <1>1, <2>1, <3>2
      <4> QED  BY <4>1
    <3> QED  BY <3>1, <3>2
  <2>4. Frame(T, M, c[l], s, F[l], l, F[l + 1].start - 2)
    BY <1>1, <1>3, <2>1 DEF Frames
  <2>5. \A i \in 1 .. F[l].base + Waits(c[l]) : s[i] = t[i]
    <3>0. /\ \A m \in 1 .. Len(c) : F[m].base \in Nat
          /\ \A m \in 1 .. Len(c) - 1 : F[m].base + Waits(c[m]) <= F[Len(c)].base
      BY BasesGrow, Zenon
    <3>1. F[l].base + Waits(c[l]) <= F[n].base /\ F[n].base \in Nat /\ F[l].base \in Nat
      BY <1>1, <2>1, <3>0
    <3>2. Waits(c[l]) \in Nat
      BY <2>2, WaitsFacts
    <3>3. \A i \in 1 .. F[l].base + Waits(c[l]) : i \in 1 .. F[n].base
      BY <3>1, <3>2
    <3> QED  BY <1>1, <3>3
  <2>6. Frame(T, M, c[l], t, F[l], l, F[l + 1].start - 2)
    BY <2>2, <2>4, <2>5, FrameStack
  <2> QED  BY <2>2, <2>3, <2>6
<1>4. \A l \in 1 .. n : Frame(T, M, d[l], t, G[l], l, IF l = n THEN q ELSE G[l + 1].start - 2)
  BY <1>1, <1>3
<1>5. ASSUME NEW l \in 1 .. n - 1 PROVE G[l + 1].base = G[l].base + Waits(d[l])
  <2>1. F[l + 1].base = F[l].base + Waits(c[l]) /\ d[l] = c[l] /\ G[l] = F[l]
    BY <1>1 DEF Frames
  <2>2. G[l + 1].base = F[l + 1].base
    <3>1. CASE l + 1 = n
      BY <1>1, <3>1
    <3>2. CASE l + 1 # n
      <4>1. l + 1 \in 1 .. Len(c) - 1
        BY <1>1, <3>2
      <4> QED  BY <4>1
    <3> QED  BY <3>1, <3>2
  <2> QED  BY <2>1, <2>2
<1> QED  BY <1>1, <1>2, <1>4, <1>5 DEF Frames

(* Where the term of a call begins. *)
LEMMA TermStartFacts ==
  ASSUME NEW T, NEW M, NEW c \in Calls, NEW s, NEW f, NEW l \in Nat, NEW p \in Nat,
         Frame(T, M, c, s, f, l, p)
  PROVE  /\ TermStart(c, f) \in f.start .. p + 1 /\ f.start \in Nat /\ f.start >= 1
         /\ f.base \in Nat /\ f.bar \in Nat
         /\ ~InPhrase(T, TermStart(c, f) - 1) /\ Depth(T, TermStart(c, f) - 1) = l - 1
<1>1. CASE c.or
  <2>1. f.bar \in At(T, f.start, p, {"|"}, l - 1) /\ f.bar \in f.start + 1 .. p /\ f.bar \in Nat
    BY <1>1 DEF Frame
  <2>2. TermStart(c, f) - 1 = f.bar
    BY <1>1, <2>1 DEF TermStart
  <2>3. ~InPhrase(T, f.bar) /\ Depth(T, f.bar) = l - 1
    BY <2>1 DEF At
  <2> QED  BY <1>1, <2>1, <2>2, <2>3 DEF TermStart, Frame
<1>2. CASE ~c.or
  BY <1>2 DEF TermStart, Frame
<1> QED  BY <1>1, <1>2

LEMMA AtSplits ==
  ASSUME NEW T, NEW a \in Int, NEW i \in Int, NEW p \in Int, a <= p + 1, p <= i, NEW types, NEW d
  PROVE  At(T, a, i, types, d) = At(T, a, p, types, d) \union At(T, p + 1, i, types, d)
BY DEF At

(* No operator or bracket: the same depth, outside of phrases. *)
LEMMA NextWord ==
  ASSUME NEW T, NEW i \in Nat, ~InPhrase(T, i), T[i + 1].type # "quote"
  PROVE  /\ ~InPhrase(T, i + 1)
         /\ T[i + 1].type = "(" => Depth(T, i + 1) = Depth(T, i) + 1
         /\ T[i + 1].type = ")" => Depth(T, i + 1) = Depth(T, i) - 1
         /\ T[i + 1].type \notin {"(", ")"} => Depth(T, i + 1) = Depth(T, i)
<1>1. i + 1 \in Nat /\ i + 1 # 0 /\ (i + 1) - 1 = i
  OBVIOUS
<1>2. ~InPhrase(T, i + 1)
  BY <1>1, InPhraseStep DEF IsQuote
<1>3. /\ Depth(T, i) \in Int
      /\ Depth(T, i + 1) = Depth(T, i) + (IF IsOpening(T, i + 1) THEN 1
                                          ELSE IF IsClosing(T, i + 1) THEN -1 ELSE 0)
  BY <1>1, DepthStep
<1> QED  BY <1>2, <1>3 DEF IsOpening, IsClosing

LEMMA CallsFacts ==
  ASSUME NEW c \in Seq(Calls), c # <<>>
  PROVE  Len(c) \in Nat /\ Len(c) >= 1 /\ c[Len(c)] \in Calls
<1>1. Len(c) \in Nat /\ Len(c) # 0
  BY EmptySeq
<1> QED  BY <1>1

(* The last call. *)
LEMMA LastFrame ==
  ASSUME NEW T, NEW M, NEW c \in Seq(Calls), c # <<>>, NEW s, NEW F, NEW p,
         Frames(T, M, c, s, F, p)
  PROVE  /\ Frame(T, M, c[Len(c)], s, F[Len(c)], Len(c), p)
         /\ p \in Nat /\ Len(c) \in Nat /\ Len(c) >= 1 /\ c[Len(c)] \in Calls
BY CallsFacts DEF Frames

(* Ask: the first call reads the first word. *)
LEMMA ReadsFirst ==
  ASSUME NEW T, Len(T) \in Nat, NEW M
  PROVE  Reading(T, M, <<NewCall>>, <<>>, 0)
<1> DEFINE c == <<NewCall>>
           f == [start |-> 1, bar |-> 0, base |-> 0]
           F == <<f>>
<1>1. Depth(T, 0) = 0 /\ ~InPhrase(T, 0)
  BY DepthStep, InPhraseStep
<1>2. At(T, 1, 0, {"|"}, 0) = {}
  BY DEF At
<1>3. ~NewCall.or /\ NewCall.op = "none"
  BY DEF NewCall
<1>4. \A k \in 0 .. 0 : Depth(T, k) >= 0
  BY <1>1
<1>5. Frame(T, M, NewCall, <<>>, f, 1, 0)
  BY <1>1, <1>2, <1>3, <1>4 DEF Frame, TermStart
<1>6. Len(c) = 1 /\ c[1] = NewCall /\ F[1] = f /\ F[1].base = 0
  OBVIOUS
<1> HIDE DEF f, F, c
<1>7. Frames(T, M, c, <<>>, F, 0)
  BY <1>5, <1>6 DEF Frames
<1>8. Waits(NewCall) = 0
  BY <1>3 DEF Waits, Count
<1>9. Held(c, F) = 0
  BY <1>6, <1>8 DEF Held
<1> QED  BY <1>7, <1>9 DEF Reading, c

(* A word or a phrase was read. *)
LEMMA ReadsFactor ==
  ASSUME NEW T, Len(T) \in Nat, NEW M, NEW c \in Seq(Calls), c # <<>>, NEW s \in Seq(Operands),
         NEW p, Reading(T, M, c, s, p), NEW i \in p + 1 .. Len(T), NEW v \in Operands,
         ~InPhrase(T, i), OperandEnds(T, i), \A k \in p + 1 .. i : Depth(T, k) = Depth(T, p),
         At(T, p + 1, i, Operators, Depth(T, p)) = {}, Denotes(v, M[<<p + 1, i>>])
  PROVE  Read(T, M, c, Append(s, v), i)
<1> DEFINE n == Len(c)
           t == Append(s, v)
<1>1. PICK F : Frames(T, M, c, s, F, p) /\ Len(s) = Held(c, F)
  BY DEF Reading
<1>2. /\ Frame(T, M, c[n], s, F[n], n, p) /\ p \in Nat /\ n \in Nat /\ n >= 1 /\ c[n] \in Calls
  BY <1>1, LastFrame
<1>3. Len(t) = Len(s) + 1 /\ t[Len(t)] = v /\ \A j \in 1 .. Len(s) : s[j] = t[j]
  OBVIOUS
<1>4. F[n].base \in Nat /\ Waits(c[n]) \in Nat /\ Len(s) = F[n].base + Waits(c[n])
  BY <1>1, <1>2, WaitsFacts DEF Held, Frame
<1> HIDE DEF t
<1>5. Frame(T, M, c[n], t, F[n], n, p)
  <2>1. \A j \in 1 .. F[n].base + Waits(c[n]) : s[j] = t[j]
    BY <1>3, <1>4
  <2> QED  BY <1>2, <2>1, FrameStack
<1>6. Frames(T, M, c, t, F, p)
  <2>1. \A j \in 1 .. F[n].base : t[j] = s[j]
    <3>1. \A j \in 1 .. F[n].base : j \in 1 .. Len(s)
      BY <1>4
    <3> QED  BY <1>3, <3>1
  <2>2. p \in 0 .. Len(T)
    BY <1>1 DEF Frames
  <2> QED  BY <1>1, <1>5, <2>1, <2>2, FramesLast
<1>7. Depth(T, p) = n - 1 /\ Depth(T, i) = n - 1 /\ \A k \in p .. i : Depth(T, k) >= n - 1
  <2>1. Depth(T, p) = n - 1
    BY <1>2 DEF Frame
  <2>2. \A k \in p .. i : k = p \/ k \in p + 1 .. i
    BY <1>2
  <2>3. \A k \in p .. i : Depth(T, k) = n - 1
    BY <2>1, <2>2
  <2> QED  BY <1>2, <2>1, <2>3
<1>8. At(T, p + 1, i, Operators, n - 1) = {} /\ At(T, p + 1, i, {"|"}, n - 1) = {}
  BY <1>7 DEF At, Operators
<1>9. Val(T, M, v, p + 1, i, n)
  <2>1. n = 1 => At(T, p + 1, i, {"|"}, 0) = {}
    BY <1>8
  <2> QED  BY <2>1 DEF Val
<1>10. Behind(T, M, c[n], v, n, p, i)
  BY <1>7, <1>8, <1>9, Zenon DEF Behind
<1>11. Len(t) = Held(c, F) + 1
  BY <1>1, <1>3
<1>12. Behind(T, M, c[n], t[Len(t)], n, p, i)
  BY <1>3, <1>10
<1> QED  BY <1>6, <1>11, <1>12 DEF Read, t

(* A bracket opens. *)
LEMMA ReadsBracket ==
  ASSUME NEW T, Len(T) \in Nat, NEW M, NEW c \in Seq(Calls), c # <<>>, NEW s,
         NEW p, Reading(T, M, c, s, p), p < Len(T), T[p + 1].type = "("
  PROVE  Reading(T, M, Append(c, NewCall), s, p + 1)
<1> DEFINE n == Len(c)
           d == Append(c, NewCall)
<1>1. PICK F : Frames(T, M, c, s, F, p) /\ Len(s) = Held(c, F)
  BY DEF Reading
<1>2. /\ Frame(T, M, c[n], s, F[n], n, p) /\ p \in Nat /\ n \in Nat /\ n >= 1 /\ c[n] \in Calls
  BY <1>1, LastFrame
<1>3. /\ Len(d) = n + 1 /\ d[n + 1] = NewCall /\ \A l \in 1 .. n : d[l] = c[l]
  OBVIOUS
<1> DEFINE f == [start |-> p + 2, bar |-> 0, base |-> Held(c, F)]
           G == [l \in 1 .. n + 1 |-> IF l = n + 1 THEN f ELSE F[l]]
<1>4. G[n + 1] = f /\ \A l \in 1 .. n : G[l] = F[l]
  BY <1>2
<1>5. f.start = p + 2 /\ f.bar = 0 /\ f.base = Held(c, F) /\ Held(c, F) \in Nat
  <2>1. F[n].base \in Nat /\ Waits(c[n]) \in Nat
    BY <1>2, WaitsFacts DEF Frame
  <2>2. Held(c, F) \in Nat
    BY <2>1 DEF Held
  <2> QED  BY <2>2
<1> HIDE DEF f, G, d, n
<1>6. ~InPhrase(T, p + 1) /\ Depth(T, p + 1) = n
  <2>1. ~InPhrase(T, p) /\ Depth(T, p) = n - 1
    BY <1>2 DEF Frame
  <2> QED  BY <1>2, <2>1, NextWord
<1>7. ~NewCall.or /\ NewCall.op = "none" /\ Waits(NewCall) = 0
  BY DEF NewCall, Waits, Count
<1>8. Frame(T, M, NewCall, s, f, n + 1, p + 1)
  <2>1. At(T, p + 2, p + 1, {"|"}, n) = {}
    BY <1>2 DEF At
  <2>2. TermStart(NewCall, f) = p + 2
    BY <1>5, <1>7 DEF TermStart
  <2>3. (p + 2) - 1 = p + 1 /\ (n + 1) - 1 = n /\ n + 1 # 1 /\ (p + 1) + 1 = p + 2
    BY <1>2
  <2>4. \A k \in p + 1 .. p + 1 : Depth(T, k) >= n
    BY <1>2, <1>6
  <2>5. p + 2 \in 1 .. p + 2 /\ p + 2 > 1 /\ 0 \in Nat
    BY <1>2
  <2>6. T[p + 1].type = "("
    OBVIOUS
  <2> QED  BY <1>5, <1>6, <1>7, <2>1, <2>2, <2>3, <2>4, <2>5, <2>6 DEF Frame
<1>9. \A l \in 1 .. n : Frame(T, M, c[l], s, F[l], l, IF l = n THEN p ELSE F[l + 1].start - 2)
  BY <1>1 DEF Frames, n
<1>10. ASSUME NEW l \in 1 .. n + 1
       PROVE  Frame(T, M, d[l], s, G[l], l, IF l = n + 1 THEN p + 1 ELSE G[l + 1].start - 2)
  <2>1. CASE l = n + 1
    BY <1>3, <1>4, <1>8, <2>1
  <2>2. CASE l = n
    <3>1. G[l + 1].start - 2 = p /\ l # n + 1
      BY SMTT(30), <1>2, <1>4, <1>5, <2>2
    <3>2. d[l] = c[l] /\ G[l] = F[l] /\ l \in 1 .. n
      BY <1>2, <1>3, <1>4, <2>2
    <3>3. Frame(T, M, c[l], s, F[l], l, p)
      BY <1>9, <2>2, <3>2
    <3> QED  BY <3>1, <3>2, <3>3
  <2>3. CASE l # n + 1 /\ l # n
    <3>1. l \in 1 .. n /\ l + 1 \in 1 .. n
      BY <1>2, <2>3
    <3>2. G[l + 1] = F[l + 1] /\ d[l] = c[l] /\ G[l] = F[l]
      BY <1>3, <1>4, <3>1
    <3>3. Frame(T, M, c[l], s, F[l], l, F[l + 1].start - 2)
      BY <1>9, <2>3, <3>1
    <3> QED  BY <2>3, <3>2, <3>3
  <2> QED  BY <2>1, <2>2, <2>3
<1>11. \A l \in 1 .. (n + 1) - 1 : G[l + 1].base = G[l].base + Waits(d[l])
  <2> TAKE l \in 1 .. (n + 1) - 1
  <2>1. l \in 1 .. n
    BY <1>2
  <2>2. CASE l = n
    BY <1>3, <1>4, <1>5, <2>1, <2>2 DEF Held, n
  <2>3. CASE l # n
    <3>1. l \in 1 .. Len(c) - 1 /\ l + 1 \in 1 .. n
      BY <1>2, <2>1, <2>3 DEF n
    <3>2. F[l + 1].base = F[l].base + Waits(c[l])
      BY <1>1, <3>1 DEF Frames
    <3> QED  BY <1>3, <1>4, <2>1, <3>1, <3>2
  <2> QED  BY <2>2, <2>3
<1>12. G[1].base = 0 /\ p + 1 \in 0 .. Len(T)
  <2>1. F[1].base = 0
    BY <1>1 DEF Frames
  <2> QED  BY <1>2, <1>4, <2>1
<1>13. Frames(T, M, d, s, G, p + 1)
  BY <1>3, <1>10, <1>11, <1>12 DEF Frames
<1>14. Held(d, G) = Held(c, F)
  BY <1>3, <1>4, <1>5, <1>7 DEF Held
<1> QED  BY <1>1, <1>13, <1>14 DEF Reading, d

(* Operators of a part: those as deep as the place before it. *)
LEMMA OuterIsAt ==
  ASSUME NEW T, NEW a, NEW b, NEW types
  PROVE  Outer(T, <<a, b>>, types) = At(T, a, b, types, Depth(T, a - 1))
BY DEF Outer, At

Means(T, leaf, M) == \A part \in Parts(T) : M[part] = OfPart(T, leaf, M, part)

LastAt(T, a, i, p, d) ==
  \/ /\ p \in At(T, a, i, {"|"}, d) /\ At(T, p + 1, i, {"|"}, d) = {}
  \/ /\ p \in At(T, a, i, {"&", "!"}, d) /\ At(T, a, i, {"|"}, d) = {}
     /\ At(T, p + 1, i, Operators, d) = {}

(* A part with its last operator at p, to the left of what binds tighter. *)
LEMMA SplitsAt ==
  ASSUME NEW T, Len(T) \in Nat, NEW leaf, NEW M, Means(T, leaf, M),
         NEW a \in 1 .. Len(T), NEW i \in a .. Len(T), NEW p \in a .. i, NEW d, Depth(T, a - 1) = d,
         LastAt(T, a, i, p, d)
  PROVE  M[<<a, i>>] = Joined(T[p].type, M[<<a, p - 1>>], M[<<p + 1, i>>])
<1>0. \/ /\ p \in At(T, a, i, {"|"}, d) /\ At(T, p + 1, i, {"|"}, d) = {}
      \/ /\ p \in At(T, a, i, {"&", "!"}, d) /\ At(T, a, i, {"|"}, d) = {}
         /\ At(T, p + 1, i, Operators, d) = {}
  BY DEF LastAt
<1> DEFINE part == <<a, i>>
           k == Main(T, part)
<1>1. part \in Parts(T) /\ part[1] = a /\ part[2] = i /\ ~(part[1] > part[2])
  BY DEF Parts
<1>2. \A types : Outer(T, part, types) = At(T, a, i, types, d)
  BY OuterIsAt
<1>3. p \in Outer(T, part, Operators)
  BY <1>0, <1>2 DEF At, Operators
<1>4. /\ k \in Outer(T, part, Operators) /\ k \in a .. i
      /\ Outer(T, part, {"|"}) # {} => /\ k \in Outer(T, part, {"|"})
                                       /\ \A j \in Outer(T, part, {"|"}) : j <= k
      /\ Outer(T, part, {"|"}) = {} => \A j \in Outer(T, part, Operators) : j <= k
  <2>1. part \in (Nat \ {0}) \X Nat /\ Outer(T, part, Operators) # {}
    BY <1>3
  <2> QED  BY <1>1, <2>1, MainIsOuter
<1> HIDE DEF k, part
<1>5. k = p
  <2>1. CASE p \in At(T, a, i, {"|"}, d) /\ At(T, p + 1, i, {"|"}, d) = {}
    <3>1. k \in At(T, a, i, {"|"}, d) /\ p <= k
      BY <1>2, <1>4, <2>1
    <3>2. k \notin At(T, p + 1, i, {"|"}, d)
      BY <2>1
    <3>3. k \notin p + 1 .. i
      BY <3>1, <3>2 DEF At
    <3> QED  BY <1>4, <3>1, <3>3
  <2>2. CASE At(T, a, i, {"|"}, d) = {} /\ At(T, p + 1, i, Operators, d) = {}
    <3>1. k \in At(T, a, i, Operators, d) /\ p <= k
      BY <1>2, <1>3, <1>4, <2>2
    <3>2. k \notin At(T, p + 1, i, Operators, d)
      BY <2>2
    <3>3. k \notin p + 1 .. i
      BY <3>1, <3>2 DEF At
    <3> QED  BY <1>4, <3>1, <3>3
  <2> QED  BY <1>0, <2>1, <2>2
<1>6. M[part] = Joined(T[k].type, M[<<part[1], k - 1>>], M[<<k + 1, part[2]>>])
  <2>1. M[part] = OfPart(T, leaf, M, part)
    BY <1>1 DEF Means
  <2> QED  BY <1>1, <1>3, <2>1 DEF OfPart, k
<1> QED  BY <1>1, <1>5, <1>6 DEF part

LEMMA SplitsAtTerm ==
  ASSUME NEW T, Len(T) \in Nat, NEW leaf, NEW M, Means(T, leaf, M),
         NEW a \in 1 .. Len(T), NEW i \in a .. Len(T), NEW p \in a .. i, NEW d, Depth(T, a - 1) = d,
         p \in At(T, a, i, {"&", "!"}, d), At(T, a, i, {"|"}, d) = {},
         At(T, p + 1, i, Operators, d) = {}
  PROVE  M[<<a, i>>] = Joined(T[p].type, M[<<a, p - 1>>], M[<<p + 1, i>>])
<1>1. LastAt(T, a, i, p, d)
  BY DEF LastAt
<1> QED  BY <1>1, SplitsAt

LEMMA SplitsAtAlternative ==
  ASSUME NEW T, Len(T) \in Nat, NEW leaf, NEW M, Means(T, leaf, M),
         NEW a \in 1 .. Len(T), NEW i \in a .. Len(T), NEW p \in a .. i, NEW d, Depth(T, a - 1) = d,
         p \in At(T, a, i, {"|"}, d), At(T, p + 1, i, {"|"}, d) = {}
  PROVE  M[<<a, i>>] = Joined(T[p].type, M[<<a, p - 1>>], M[<<p + 1, i>>])
<1>1. LastAt(T, a, i, p, d)
  BY DEF LastAt
<1> QED  BY <1>1, SplitsAt

(* A part without an operator outside of its brackets. *)
LEMMA NotSplit ==
  ASSUME NEW T, Len(T) \in Nat, NEW leaf, NEW M, Means(T, leaf, M),
         NEW a \in 1 .. Len(T), NEW i \in a .. Len(T), At(T, a, i, Operators, Depth(T, a - 1)) = {}
  PROVE  M[<<a, i>>] = IF T[a].type = "(" THEN M[<<a + 1, i - 1>>] ELSE leaf[a]
<1> DEFINE part == <<a, i>>
<1>1. part \in Parts(T) /\ part[1] = a /\ part[2] = i /\ ~(part[1] > part[2])
  BY DEF Parts
<1>2. Outer(T, part, Operators) = {}
  BY OuterIsAt
<1>3. M[part] = OfPart(T, leaf, M, part)
  BY <1>1 DEF Means
<1> HIDE DEF part
<1>4. M[part] = IF T[part[1]].type = "(" THEN M[<<part[1] + 1, part[2] - 1>>] ELSE leaf[part[1]]
  BY <1>1, <1>2, <1>3 DEF OfPart
<1> QED  BY <1>1, <1>4 DEF part

LEMMA IsLeaf ==
  ASSUME NEW T, Len(T) \in Nat, NEW leaf, NEW M, Means(T, leaf, M),
         NEW a \in 1 .. Len(T), NEW i \in a .. Len(T), NEW d, d = Depth(T, a - 1),
         At(T, a, i, Operators, d) = {}, T[a].type # "("
  PROVE  M[<<a, i>>] = leaf[a]
<1> DEFINE part == <<a, i>>
<1>1. part \in Parts(T) /\ part[1] = a /\ part[2] = i /\ ~(part[1] > part[2])
  BY DEF Parts
<1>2. Outer(T, part, Operators) = {}
  BY OuterIsAt
<1>3. M[part] = OfPart(T, leaf, M, part)
  BY <1>1 DEF Means
<1> HIDE DEF part
<1>4. M[part] = leaf[part[1]]
  BY <1>1, <1>2, <1>3 DEF OfPart
<1> QED  BY <1>1, <1>4 DEF part

LEMMA IsBracket ==
  ASSUME NEW T, Len(T) \in Nat, NEW leaf, NEW M, Means(T, leaf, M),
         NEW a \in 1 .. Len(T), NEW i \in a .. Len(T), NEW d, d = Depth(T, a - 1),
         At(T, a, i, Operators, d) = {}, T[a].type = "("
  PROVE  M[<<a, i>>] = M[<<a + 1, i - 1>>]
<1> DEFINE part == <<a, i>>
<1>1. part \in Parts(T) /\ part[1] = a /\ part[2] = i /\ ~(part[1] > part[2])
  BY DEF Parts
<1>2. Outer(T, part, Operators) = {}
  BY OuterIsAt
<1>3. M[part] = OfPart(T, leaf, M, part)
  BY <1>1 DEF Means
<1> HIDE DEF part
<1>4. M[part] = M[<<part[1] + 1, part[2] - 1>>]
  BY <1>1, <1>2, <1>3 DEF OfPart
<1> QED  BY <1>1, <1>4 DEF part

(* Two results become one. *)
Popped(s, v) == Append(SubSeq(s, 1, Len(s) - 2), v)

LEMMA FirstOf ==
  ASSUME NEW S, NEW x \in Seq(S), NEW m \in 0 .. Len(x)
  PROVE  /\ SubSeq(x, 1, m) \in Seq(S) /\ Len(SubSeq(x, 1, m)) = m
         /\ \A l \in 1 .. m : SubSeq(x, 1, m)[l] = x[l]
<1>1. \A l \in 1 .. m : x[l] \in S
  OBVIOUS
<1> QED  BY <1>1, SubSeqProperties

LEMMA PoppedFacts ==
  ASSUME NEW s \in Seq(Operands), Len(s) >= 2, NEW v \in Operands
  PROVE  /\ Popped(s, v) \in Seq(Operands) /\ Len(Popped(s, v)) = Len(s) - 1
         /\ Popped(s, v)[Len(s) - 1] = v
         /\ \A i \in 1 .. Len(s) - 2 : Popped(s, v)[i] = s[i]
<1>1. PICK m \in Nat : m = Len(s) - 2
  OBVIOUS
<1> DEFINE b == SubSeq(s, 1, m)
<1>2. b \in Seq(Operands) /\ Len(b) = m /\ \A i \in 1 .. m : b[i] = s[i]
  <2>1. m \in 0 .. Len(s)
    BY <1>1
  <2> QED  BY <2>1, FirstOf
<1>3. Popped(s, v) = Append(b, v) /\ Len(s) - 1 = m + 1
  BY <1>1 DEF Popped
<1> HIDE DEF b
<1> DEFINE x == Append(b, v)
<1>4. x \in Seq(Operands) /\ Len(x) = m + 1 /\ x[m + 1] = v /\ \A i \in 1 .. m : x[i] = b[i]
  BY <1>1, <1>2
<1> HIDE DEF x
<1>5. Popped(s, v) = x
  BY <1>3 DEF x
<1> QED  BY <1>1, <1>2, <1>3, <1>4, <1>5

(* WithLast changes the last call only. *)
LEMMA WithLastFacts ==
  ASSUME NEW c \in Seq(Calls), c # <<>>, NEW e \in Calls
  PROVE  /\ WithLast(c, e) \in Seq(Calls) /\ Len(WithLast(c, e)) = Len(c) /\ WithLast(c, e) # <<>>
         /\ WithLast(c, e)[Len(c)] = e
         /\ \A l \in 1 .. Len(c) - 1 : WithLast(c, e)[l] = c[l]
<1>1. PICK n \in Nat : n = Len(c) /\ n >= 1
  BY CallsFacts
<1>2. PICK d : d = [c EXCEPT ![n] = e]
  OBVIOUS
<1>3. d \in Seq(Calls) /\ Len(d) = n /\ \A i \in 1 .. n : d[i] = IF i = n THEN e ELSE c[i]
  BY <1>1, <1>2, ExceptSeq
<1>4. WithLast(c, e) = d /\ d # <<>>
  BY <1>1, <1>2, <1>3, EmptySeq DEF WithLast
<1> QED  BY <1>1, <1>3, <1>4

(* TermCombines *)
LEMMA ReadsTerm ==
  ASSUME NEW T, Len(T) \in Nat, NEW leaf, NEW M, Means(T, leaf, M),
         NEW c \in Seq(Calls), c # <<>>, NEW s \in Seq(Operands), Len(s) >= 2, NEW i, Read(T, M, c, s, i),
         c[Len(c)].op # "none"
  PROVE  Read(T, M, WithLast(c, [c[Len(c)] EXCEPT !.op = "none"]),
              Popped(s, Combined(c[Len(c)].op, s[Len(s) - 1], s[Len(s)])), i)
<1>0. PICK n, e, d, op, v, t :
        /\ n = Len(c) /\ e = [c[n] EXCEPT !.op = "none"] /\ d = WithLast(c, e) /\ op = c[n].op
        /\ v = Combined(op, s[Len(s) - 1], s[Len(s)]) /\ t = Popped(s, v)
  OBVIOUS
<1>1. PICK F, p : /\ Frames(T, M, c, s, F, p) /\ Len(s) = Held(c, F) + 1
                  /\ Behind(T, M, c[n], s[Len(s)], n, p, i)
  BY <1>0 DEF Read
<1>2. /\ Frame(T, M, c[n], s, F[n], n, p) /\ p \in Nat /\ n \in Nat /\ n >= 1 /\ c[n] \in Calls
  BY <1>0, <1>1, LastFrame
<1>3. e \in Calls /\ e.op = "none" /\ (e.or <=> c[n].or) /\ op \in {"&", "!"}
  BY <1>0, <1>2 DEF Calls
<1>4. d \in Seq(Calls) /\ Len(d) = n /\ d # <<>> /\ d[n] = e /\ \A l \in 1 .. n - 1 : d[l] = c[l]
  <2>1. LET x == WithLast(c, e)
        IN  x \in Seq(Calls) /\ Len(x) = Len(c) /\ x # <<>> /\ x[Len(c)] = e
            /\ \A l \in 1 .. Len(c) - 1 : x[l] = c[l]
    BY <1>3, WithLastFacts
  <2> QED  BY <1>0, <2>1
<1>a. PICK f, a : f = F[n] /\ a = TermStart(c[n], f)
  OBVIOUS
<1>5. /\ a \in f.start .. p + 1 /\ f.start \in Nat /\ f.start >= 1 /\ f.base \in Nat /\ f.bar \in Nat
      /\ ~InPhrase(T, a - 1) /\ Depth(T, a - 1) = n - 1
  BY <1>2, <1>a, TermStartFacts
<1>6. PICK o \in Nat : /\ o = Count(c[n].or) /\ Waits(c[n]) = o + 1 /\ Waits(e) = o
                       /\ (c[n].or => o = 1)
  <2>1. PICK o \in Nat : o = Count(c[n].or)
    BY <1>2, WaitsFacts
  <2>2. Waits(c[n]) = o + 1 /\ (c[n].or => o = 1)
    BY <1>0, <1>2, <2>1, WaitsFacts
  <2>3. Waits(e) = o
    <3>1. Count(e.or) = o
      BY <1>3, <2>1, Zenon DEF Count
    <3>2. Waits(e) = Count(e.or) + 0
      BY <1>3, WaitsFacts
    <3> QED  BY <3>1, <3>2
  <2> QED  BY <2>1, <2>2, <2>3
<1>7. Len(s) = f.base + o + 2
  <2>1. Len(s) = F[n].base + Waits(c[n]) + 1
    BY <1>0, <1>1 DEF Held
  <2>2. Len(s) = f.base + (o + 1) + 1
    BY <1>6, <1>a, <2>1
  <2>3. f.base \in Nat
    BY <1>5
  <2> QED  BY <2>2, <2>3
<1>b. PICK m \in Nat, b \in Nat : m = Len(s) /\ b = f.base /\ m = b + o + 2
  BY <1>5, <1>7
<1>8. /\ p \in At(T, a, p, {op}, n - 1) /\ Denotes(s[f.base + o + 1], M[<<a, p - 1>>])
      /\ At(T, a, p, {"|"}, n - 1) = {}
  BY <1>0, <1>2, <1>6, <1>a DEF Frame
<1>9. /\ i \in p + 1 .. Len(T) /\ ~InPhrase(T, i) /\ OperandEnds(T, i) /\ Depth(T, i) = n - 1
      /\ \A k \in p .. i : Depth(T, k) >= n - 1
      /\ Val(T, M, s[Len(s)], p + 1, i, n) /\ At(T, p + 1, i, Operators, n - 1) = {}
  BY <1>0, <1>1 DEF Behind
<1>10. At(T, p + 1, i, {"|"}, n - 1) = {} /\ Denotes(s[Len(s)], M[<<p + 1, i>>])
  <2>1. At(T, p + 1, i, {"|"}, n - 1) = {}
    BY <1>9 DEF At, Operators
  <2>2. n = 1 => At(T, p + 1, i, {"|"}, 0) = {}
    BY <2>1
  <2> QED  BY <1>9, <2>1, <2>2 DEF Val
<1>11. At(T, a, i, {"|"}, n - 1) = {}
  <2>1. a \in Int /\ i \in Int /\ p \in Int /\ a <= p + 1 /\ p <= i
    BY <1>2, <1>5, <1>9
  <2>2. At(T, a, i, {"|"}, n - 1) = At(T, a, p, {"|"}, n - 1) \union At(T, p + 1, i, {"|"}, n - 1)
    BY <2>1, AtSplits
  <2> QED  BY <1>8, <1>10, <2>2
<1>12. /\ a \in 1 .. Len(T) /\ i \in a .. Len(T) /\ p \in a .. i /\ T[p].type = op
       /\ p \in At(T, a, i, {"&", "!"}, n - 1)
  <2>1. p \in a .. p /\ T[p].type = op /\ ~InPhrase(T, p) /\ Depth(T, p) = n - 1
    BY <1>8 DEF At
  <2>2. a \in 1 .. Len(T) /\ i \in a .. Len(T) /\ p \in a .. i
    BY <1>2, <1>5, <1>9, <2>1, SMTT(60)
  <2> QED  BY <1>3, <2>1, <2>2 DEF At
<1>13. M[<<a, i>>] = Joined(op, M[<<a, p - 1>>], M[<<p + 1, i>>])
  <2>1. /\ p \in At(T, a, i, {"&", "!"}, n - 1) /\ At(T, a, i, {"|"}, n - 1) = {}
        /\ At(T, p + 1, i, Operators, n - 1) = {} /\ Depth(T, a - 1) = n - 1
    BY <1>5, <1>9, <1>11, <1>12
  <2>2. M[<<a, i>>] = Joined(T[p].type, M[<<a, p - 1>>], M[<<p + 1, i>>])
    BY <1>12, <2>1, SplitsAtTerm, SMTT(60)
  <2> QED  BY <1>12, <2>2
<1>14. Denotes(v, M[<<a, i>>]) /\ v \in Operands
  <2>1. Len(s) - 1 = f.base + o + 1 /\ Len(s) \in 1 .. Len(s) /\ Len(s) - 1 \in 1 .. Len(s)
    BY <1>b, SMTT(60)
  <2>2. s[Len(s)] \in Operands /\ s[Len(s) - 1] \in Operands
    BY <2>1
  <2>3. v \in Operands
    BY <1>0, <1>3, <2>2, CombinedIsOperand
  <2>4. Denotes(s[Len(s) - 1], M[<<a, p - 1>>])
    BY <1>8, <2>1
  <2> QED  BY <1>3, <1>10, <1>13, <2>3, <2>4, <1>0, CombinedDenotes
<1>15. /\ t \in Seq(Operands) /\ Len(t) = Len(s) - 1 /\ t[Len(t)] = v
       /\ \A j \in 1 .. Len(s) - 2 : t[j] = s[j]
  <2>1. /\ t \in Seq(Operands) /\ Len(t) = Len(s) - 1 /\ t[Len(s) - 1] = v
        /\ \A j \in 1 .. Len(s) - 2 : t[j] = s[j]
    BY <1>0, <1>14, PoppedFacts
  <2> QED  BY <2>1
<1>16. PICK q \in Nat : q = a - 1
  BY <1>5
<1>17. Frame(T, M, e, t, f, n, q)
  <2>1. f.start \in 1 .. q + 1 /\ q <= p /\ q + 1 = a
    BY <1>2, <1>5, <1>12, <1>16, SMTT(60)
  <2>2. \A k \in f.start - 1 .. q : Depth(T, k) >= n - 1
    <3>1. \A k \in f.start - 1 .. p : Depth(T, k) >= n - 1
      BY <1>2, <1>a DEF Frame
    <3>2. \A k \in f.start - 1 .. q : k \in f.start - 1 .. p
      BY <1>2, <1>5, <2>1
    <3> QED  BY <3>1, <3>2
  <2>3. ASSUME e.or
        PROVE  /\ f.bar \in f.start + 1 .. q /\ f.bar \in At(T, f.start, q, {"|"}, n - 1)
               /\ Val(T, M, t[f.base + 1], f.start, f.bar - 1, n)
    <3>1. /\ f.bar \in f.start + 1 .. p /\ f.bar \in At(T, f.start, p, {"|"}, n - 1)
          /\ Val(T, M, s[f.base + 1], f.start, f.bar - 1, n)
      BY <1>2, <1>3, <1>a, <2>3 DEF Frame
    <3>2. q = f.bar
      BY <1>3, <1>5, <1>16, <1>a, <2>3 DEF TermStart
    <3>3. f.bar \in At(T, f.start, q, {"|"}, n - 1) /\ f.bar \in f.start + 1 .. q
      BY <1>5, <3>1, <3>2 DEF At
    <3>4. t[f.base + 1] = s[f.base + 1]
      <4>1. f.base + 1 \in 1 .. Len(s) - 2
        BY <1>3, <1>6, <1>b, <2>3
      <4> QED  BY <1>15, <4>1
    <3> QED  BY <3>1, <3>3, <3>4
  <2>4. TermStart(e, f) = a /\ At(T, a, q, {"|"}, n - 1) = {}
    <3>1. TermStart(e, f) = a
      BY <1>3, <1>a DEF TermStart
    <3> QED  BY <1>5, <1>16, <3>1 DEF At
  <2>5. /\ f.bar \in Nat /\ f.base \in Nat
        /\ IF n = 1 THEN f.start = 1 ELSE f.start > 1 /\ T[f.start - 1].type = "("
        /\ ~InPhrase(T, f.start - 1) /\ Depth(T, f.start - 1) = n - 1
    BY <1>2, <1>a DEF Frame
  <2>6. ~InPhrase(T, q) /\ Depth(T, q) = n - 1
    BY <1>5, <1>16
  <2> QED  BY <1>3, <2>1, <2>2, <2>3, <2>4, <2>5, <2>6 DEF Frame
<1>18. Frames(T, M, d, t, F, q)
  <2>1. \A j \in 1 .. F[n].base : t[j] = s[j]
    <3>1. \A j \in 1 .. F[n].base : j \in 1 .. Len(s) - 2
      BY SMTT(30), <1>5, <1>6, <1>7, <1>a
    <3> QED  BY <1>15, <3>1
  <2>2. q \in 0 .. Len(T)
    BY <1>5, <1>12, <1>16
  <2>3. Frame(T, M, d[n], t, F[n], n, q)
    BY <1>4, <1>17, <1>a
  <2>4. Frames(T, M, c, s, F, p)
    BY <1>1
  <2>5. d \in Seq(Calls) /\ Len(d) = Len(c) /\ \A l \in 1 .. Len(c) - 1 : d[l] = c[l]
    BY <1>0, <1>4
  <2>6. Frame(T, M, d[Len(c)], t, F[Len(c)], Len(c), q) /\ \A j \in 1 .. F[Len(c)].base : t[j] = s[j]
    BY <1>0, <2>1, <2>3
  <2> QED  BY <2>2, <2>4, <2>5, <2>6, FramesLast
<1>19. Len(t) = Held(d, F) + 1
  <2>1. Held(d, F) = F[n].base + Waits(e)
    BY <1>4 DEF Held
  <2>2. Held(d, F) = f.base + o
    BY <1>6, <1>a, <2>1
  <2> QED  BY SMTT(30), <1>5, <1>7, <1>15, <2>2
<1>20. Behind(T, M, e, v, n, q, i)
  <2>1. i \in q + 1 .. Len(T) /\ q + 1 = a
    BY SMTT(30), <1>5, <1>12, <1>16
  <2>2. \A k \in q .. i : Depth(T, k) >= n - 1
    <3>1. \A k \in f.start - 1 .. p : Depth(T, k) >= n - 1
      BY <1>2, <1>a DEF Frame
    <3>2. \A k \in q .. i : k \in f.start - 1 .. p \/ k \in p .. i
      BY SMTT(30), <1>2, <1>5, <1>16
    <3> QED  BY <1>9, <3>1, <3>2
  <2>3. Val(T, M, v, q + 1, i, n)
    <3>1. n = 1 => At(T, q + 1, i, {"|"}, 0) = {}
      BY <1>11, <2>1
    <3> QED  BY <1>14, <2>1, <3>1 DEF Val
  <2>4. At(T, q + 1, i, {"|"}, n - 1) = {}
    BY <1>11, <2>1
  <2> QED  BY <1>3, <1>9, <2>1, <2>2, <2>3, <2>4 DEF Behind
<1>21. Behind(T, M, d[Len(d)], t[Len(t)], Len(d), q, i)
  BY <1>4, <1>15, <1>20
<1>22. Read(T, M, d, t, i)
  BY <1>18, <1>19, <1>21 DEF Read
<1> QED  BY <1>0, <1>22

(* What a step changes of the last call. *)
LEMMA LastChanges ==
  ASSUME NEW T, NEW M, NEW c \in Seq(Calls), c # <<>>, NEW e \in Calls, NEW s, NEW t, NEW F,
         NEW p, NEW q \in 0 .. Len(T), Frames(T, M, c, s, F, p),
         NEW f, f.start = F[Len(c)].start, f.base = F[Len(c)].base,
         \A i \in 1 .. f.base : t[i] = s[i], Frame(T, M, e, t, f, Len(c), q)
  PROVE  \E G : /\ Frames(T, M, WithLast(c, e), t, G, q) /\ G[Len(c)] = f
                /\ Held(WithLast(c, e), G) = f.base + Waits(e)
<1>1. PICK n, d, G : /\ n \in Nat /\ n = Len(c) /\ d = WithLast(c, e) /\ n >= 1
                     /\ G = [l \in 1 .. n |-> IF l = n THEN f ELSE F[l]]
  BY CallsFacts
<1>2. G[n] = f /\ \A l \in 1 .. n - 1 : G[l] = F[l]
  BY <1>1
<1>3. d \in Seq(Calls) /\ Len(d) = n /\ d[n] = e /\ \A l \in 1 .. n - 1 : d[l] = c[l]
  BY <1>1, WithLastFacts
<1>4. Frames(T, M, d, t, G, q)
  <2>1. Len(d) = Len(c) /\ \A l \in 1 .. Len(c) - 1 : d[l] = c[l] /\ G[l] = F[l]
    BY <1>1, <1>2, <1>3
  <2>2. G[Len(c)].base = F[Len(c)].base /\ G[Len(c)].start = F[Len(c)].start
    BY <1>1, <1>2
  <2>3. \A i \in 1 .. F[Len(c)].base : t[i] = s[i]
    OBVIOUS
  <2>4. Frame(T, M, d[Len(c)], t, G[Len(c)], Len(c), q)
    BY <1>1, <1>2, <1>3
  <2> QED  BY <1>3, <2>1, <2>2, <2>3, <2>4, FramesLast
<1>5. Held(d, G) = f.base + Waits(e)
  BY <1>2, <1>3 DEF Held
<1> QED  BY <1>1, <1>2, <1>4, <1>5

(* What Read says of the last call. *)
LastRead(T, M, c, s, F, p, i, n, e, f) ==
  /\ n = Len(c) /\ n \in Nat /\ n >= 1 /\ e = c[n] /\ e \in Calls /\ f = F[n]
  /\ Frames(T, M, c, s, F, p) /\ p \in Nat /\ i \in Nat /\ p < i /\ i <= Len(T)
  /\ Frame(T, M, e, s, f, n, p) /\ Behind(T, M, e, s[Len(s)], n, p, i)
  /\ f.start \in Nat /\ f.start >= 1 /\ f.base \in Nat /\ f.bar \in Nat
  /\ Len(s) = f.base + Waits(e) + 1

LEMMA ReadIs ==
  ASSUME NEW T, Len(T) \in Nat, NEW M, NEW c \in Seq(Calls), c # <<>>, NEW s, NEW i, Read(T, M, c, s, i)
  PROVE  \E F, p, n, e, f : LastRead(T, M, c, s, F, p, i, n, e, f)
<1>1. PICK F, p : /\ Frames(T, M, c, s, F, p) /\ Len(s) = Held(c, F) + 1
                  /\ Behind(T, M, c[Len(c)], s[Len(s)], Len(c), p, i)
  BY DEF Read
<1>2. PICK n, e, f : n = Len(c) /\ e = c[n] /\ f = F[n]
  OBVIOUS
<1>3. /\ Frame(T, M, e, s, f, n, p) /\ p \in Nat /\ n \in Nat /\ n >= 1 /\ e \in Calls
  BY <1>1, <1>2, LastFrame
<1>4. f.start \in Nat /\ f.start >= 1 /\ f.base \in Nat /\ f.bar \in Nat
  BY <1>3, TermStartFacts
<1>5. Behind(T, M, e, s[Len(s)], n, p, i)
  BY <1>1, <1>2
<1>6. i \in Nat /\ p < i /\ i <= Len(T)
  <2>1. i \in p + 1 .. Len(T)
    BY <1>5 DEF Behind
  <2> QED  BY <1>3, <2>1
<1>7. Len(s) = f.base + Waits(e) + 1
  BY <1>1, <1>2 DEF Held
<1> QED  BY <1>1, <1>2, <1>3, <1>4, <1>5, <1>6, <1>7, Zenon DEF LastRead

LEMMA ResultsRead ==
  ASSUME NEW T, Len(T) \in Nat, NEW M, NEW c \in Seq(Calls), c # <<>>, NEW s, NEW i, Read(T, M, c, s, i)
  PROVE  Len(s) >= 1 + Waits(c[Len(c)]) /\ i \in 1 .. Len(T)
<1>1. PICK F, p, n, e, f : LastRead(T, M, c, s, F, p, i, n, e, f)
  BY ReadIs
<1>2. Waits(e) \in Nat
  BY <1>1, WaitsFacts DEF LastRead
<1> QED  BY SMTT(30), <1>1, <1>2 DEF LastRead

(* TermGoesOn *)
LEMMA ReadsTermOn ==
  ASSUME NEW T, Len(T) \in Nat, NEW M, NEW c \in Seq(Calls), c # <<>>, NEW s, NEW i,
         Read(T, M, c, s, i), c[Len(c)].op = "none", i < Len(T), NEW op \in {"&", "!"}, T[i + 1].type = op
  PROVE  Reading(T, M, WithLast(c, [c[Len(c)] EXCEPT !.op = op]), s, i + 1)
<1>1. PICK F, p, n, e, f : LastRead(T, M, c, s, F, p, i, n, e, f)
  BY ReadIs
<1>2. PICK a : a = TermStart(e, f)
  OBVIOUS
<1>3. PICK o \in Nat : o = Count(e.or) /\ Waits(e) = o /\ Len(s) = f.base + o + 1
  <2>1. e \in Calls /\ e.op = "none"
    BY <1>1 DEF LastRead
  <2>2. Count(e.or) \in Nat /\ Waits(e) = Count(e.or)
    BY <2>1, WaitsFacts
  <2> QED  BY <1>1, <2>2 DEF LastRead
<1>4. /\ p + 1 = a /\ At(T, a, p, {"|"}, n - 1) = {} /\ e.op = "none" /\ n = Len(c)
      /\ f.start <= a /\ Depth(T, i) = n - 1 /\ ~InPhrase(T, i)
  <2>1. e.op = "none" /\ n = Len(c)
    BY <1>1 DEF LastRead
  <2>2. p + 1 = a /\ At(T, a, p, {"|"}, n - 1) = {} /\ f.start \in 1 .. p + 1
    BY <1>1, <1>2, <2>1 DEF LastRead, Frame
  <2>3. Depth(T, i) = n - 1 /\ ~InPhrase(T, i)
    BY <1>1 DEF LastRead, Behind
  <2>4. f.start <= a
    BY <1>1, <2>2 DEF LastRead
  <2> QED  BY <2>1, <2>2, <2>3, <2>4
<1>5. At(T, a, i, {"|"}, n - 1) = {}
  <2>1. \/ At(T, p + 1, i, {"|"}, n - 1) = {}
        \/ i < Len(T) => T[i + 1].type \notin {"&", "!"}
    BY <1>1 DEF LastRead, Behind
  <2> QED  BY <1>4, <2>1
<1>6. Denotes(s[f.base + o + 1], M[<<a, i>>])
  <2>1. Val(T, M, s[Len(s)], a, i, n)
    BY <1>1, <1>4 DEF LastRead, Behind
  <2>2. n = 1 => At(T, a, i, {"|"}, 0) = {}
    BY <1>5
  <2> QED  BY <1>3, <2>1, <2>2 DEF Val
<1>7. ~InPhrase(T, i + 1) /\ Depth(T, i + 1) = n - 1
  <2>1. i \in Nat /\ T[i + 1].type \notin {"(", ")", "quote"}
    BY <1>1 DEF LastRead
  <2> QED  BY <1>4, <2>1, NextWord
<1>8. PICK g : g = [e EXCEPT !.op = op]
  OBVIOUS
<1>9. g \in Calls /\ g.op = op /\ (g.or <=> e.or)
  BY <1>1, <1>8 DEF Calls, LastRead
<1>10. a \in Nat /\ a <= i /\ i \in Nat /\ n \in Nat
  BY <1>1, <1>4 DEF LastRead
<1>11. Frame(T, M, g, s, f, n, i + 1)
  <2>1. f.start \in 1 .. (i + 1) + 1
    BY <1>1, <1>4, <1>10 DEF LastRead
  <2>2. \A k \in f.start - 1 .. i + 1 : Depth(T, k) >= n - 1
    <3>1. \A k \in f.start - 1 .. p : Depth(T, k) >= n - 1
      BY <1>1 DEF LastRead, Frame
    <3>2. \A k \in p .. i : Depth(T, k) >= n - 1
      BY <1>1 DEF LastRead, Behind
    <3>3. p \in Nat /\ f.start \in Nat
      BY <1>1 DEF LastRead
    <3>4. \A k \in f.start - 1 .. i + 1 : k \in f.start - 1 .. p \/ k \in p .. i \/ k = i + 1
      BY <1>10, <3>3
    <3> QED  BY <1>7, <1>10, <3>1, <3>2, <3>4
  <2>3. ASSUME g.or
        PROVE  /\ f.bar \in f.start + 1 .. i + 1 /\ f.bar \in At(T, f.start, i + 1, {"|"}, n - 1)
               /\ Val(T, M, s[f.base + 1], f.start, f.bar - 1, n)
    <3>1. /\ f.bar \in f.start + 1 .. p /\ f.bar \in At(T, f.start, p, {"|"}, n - 1)
          /\ Val(T, M, s[f.base + 1], f.start, f.bar - 1, n)
      BY <1>1, <1>9, <2>3 DEF LastRead, Frame
    <3>2. f.bar \in f.start .. i + 1 /\ f.bar \in f.start + 1 .. i + 1
      BY SMTT(30), <1>1, <1>10, <3>1 DEF LastRead
    <3> QED  BY <3>1, <3>2 DEF At
  <2>4. TermStart(g, f) = a
    BY <1>2, <1>9 DEF TermStart
  <2>5. At(T, a, i + 1, {"|"}, n - 1) = {}
    <3>1. At(T, a, i + 1, {"|"}, n - 1) \subseteq At(T, a, i, {"|"}, n - 1) \union {i + 1}
      BY <1>10 DEF At
    <3>2. i + 1 \notin At(T, a, i + 1, {"|"}, n - 1)
      BY DEF At
    <3> QED  BY <1>5, <3>1, <3>2
  <2>6. i + 1 \in At(T, a, i + 1, {op}, n - 1)
    BY <1>7, <1>10 DEF At
  <2>7. Denotes(s[f.base + Count(g.or) + 1], M[<<a, (i + 1) - 1>>])
    <3>1. Count(g.or) = o /\ (i + 1) - 1 = i
      <4>1. Count(g.or) = o
        BY <1>3, <1>9, Zenon DEF Count
      <4> QED  BY <1>10, <4>1
    <3> QED  BY <1>6, <3>1
  <2>8. /\ f.bar \in Nat /\ f.base \in Nat
        /\ IF n = 1 THEN f.start = 1 ELSE f.start > 1 /\ T[f.start - 1].type = "("
        /\ ~InPhrase(T, f.start - 1) /\ Depth(T, f.start - 1) = n - 1
    BY <1>1 DEF LastRead, Frame
  <2>9. /\ At(T, TermStart(g, f), i + 1, {"|"}, n - 1) = {} /\ g.op # "none"
        /\ i + 1 \in At(T, TermStart(g, f), i + 1, {g.op}, n - 1)
        /\ Denotes(s[f.base + Count(g.or) + 1], M[<<TermStart(g, f), (i + 1) - 1>>])
    BY <1>9, <2>4, <2>5, <2>6, <2>7
  <2> QED  BY <1>7, <2>1, <2>2, <2>3, <2>8, <2>9 DEF Frame
<1>12. PICK G : /\ Frames(T, M, WithLast(c, g), s, G, i + 1)
                /\ Held(WithLast(c, g), G) = f.base + Waits(g)
  <2>1. i + 1 \in 0 .. Len(T)
    BY <1>10
  <2>2. /\ Frames(T, M, c, s, F, p) /\ f.start = F[Len(c)].start /\ f.base = F[Len(c)].base
    BY <1>1 DEF LastRead
  <2>3. Frame(T, M, g, s, f, Len(c), i + 1) /\ \A j \in 1 .. f.base : s[j] = s[j]
    BY <1>4, <1>11
  <2> QED  BY <1>9, <2>1, <2>2, <2>3, LastChanges
<1>13. Waits(g) = o + 1
  <2>1. Count(g.or) = o
    BY <1>3, <1>9, Zenon DEF Count
  <2>2. Waits(g) = Count(g.or) + 1
    BY <1>9, WaitsFacts
  <2> QED  BY <2>1, <2>2
<1>14. Len(s) = Held(WithLast(c, g), G)
  <2>1. PICK b \in Nat : b = f.base
    BY <1>1 DEF LastRead
  <2>2. Held(WithLast(c, g), G) = b + Waits(g)
    BY <1>12, <2>1
  <2>3. Held(WithLast(c, g), G) = b + (o + 1)
    BY <1>13, <2>2
  <2>4. Len(s) = b + o + 1
    BY <1>3, <2>1
  <2>5. b + o + 1 = b + (o + 1)
    OBVIOUS
  <2> QED  BY <2>3, <2>4, <2>5, Zenon
<1>15. g = [c[Len(c)] EXCEPT !.op = op]
  BY <1>1, <1>8 DEF LastRead
<1> QED  BY <1>12, <1>14, <1>15 DEF Reading

(* An alternative in brackets: it ends before an operator "|" or a bracket, *)
(* and one of the two is "|".                                               *)
Alternative(T, i, j) ==
  /\ i \in 2 .. Len(T) /\ j \in 2 .. Len(T) - 1
  /\ i <= j /\ ~InPhrase(T, i - 1) /\ ~InPhrase(T, j)
  /\ Depth(T, j) = Depth(T, i - 1)
  /\ \A k \in i .. j : Depth(T, k) >= Depth(T, i - 1)
  /\ T[i - 1].type \in {"(", "|"} /\ T[j + 1].type \in {")", "|"}
  /\ "|" \in {T[i - 1].type, T[j + 1].type} /\ Depth(T, j) > 0

NoneIgnored(T, M) == \A i, j : Alternative(T, i, j) => M[<<i, j>>] # Ignored

(* ExprCombines *)
LEMMA ReadsExpr ==
  ASSUME NEW T, Len(T) \in Nat, NEW leaf, NEW M, Means(T, leaf, M), NoneIgnored(T, M),
         Grammatical(T),
         NEW c \in Seq(Calls), c # <<>>, NEW s \in Seq(Operands), Len(s) >= 2, NEW i, Read(T, M, c, s, i),
         c[Len(c)].op = "none", c[Len(c)].or, i < Len(T) => T[i + 1].type \notin {"&", "!"}
  PROVE  Read(T, M, WithLast(c, [c[Len(c)] EXCEPT !.or = FALSE]),
              Popped(s, Combined("|", s[Len(s) - 1], s[Len(s)])), i)
<1>1. PICK F, p, n, e, f : LastRead(T, M, c, s, F, p, i, n, e, f)
  BY ReadIs
<1>2. PICK g, v, t, a, b, m :
        /\ g = [e EXCEPT !.or = FALSE] /\ v = Combined("|", s[Len(s) - 1], s[Len(s)])
        /\ t = Popped(s, v) /\ a = f.start /\ b = f.base /\ m = Len(s)
  OBVIOUS
<1>3. /\ n = Len(c) /\ n \in Nat /\ n >= 1 /\ e \in Calls /\ e.op = "none" /\ e.or
      /\ p \in Nat /\ i \in Nat /\ p < i /\ i <= Len(T) /\ a \in Nat /\ a >= 1 /\ b \in Nat /\ m \in Nat
  BY <1>1, <1>2 DEF LastRead
<1>4. g \in Calls /\ g.op = "none" /\ ~g.or /\ Waits(g) = 0
  <2>1. g \in Calls /\ g.op = "none" /\ ~g.or
    BY <1>2, <1>3 DEF Calls
  <2> QED  BY <2>1 DEF Waits, Count
<1>5. m = b + 2
  <2>1. Waits(e) = 1
    BY <1>3 DEF Waits, Count
  <2> QED  BY <1>1, <1>2, <1>3, <2>1 DEF LastRead
<1>6. /\ a + 1 <= p /\ p \in At(T, a, p, {"|"}, n - 1) /\ Val(T, M, s[b + 1], a, p - 1, n)
      /\ IF n = 1 THEN a = 1 ELSE a > 1 /\ T[a - 1].type = "("
      /\ ~InPhrase(T, a - 1) /\ Depth(T, a - 1) = n - 1 /\ ~InPhrase(T, p) /\ Depth(T, p) = n - 1
      /\ \A k \in a - 1 .. p : Depth(T, k) >= n - 1
  <2>1. /\ f.bar \in a + 1 .. p /\ f.bar \in At(T, a, p, {"|"}, n - 1)
        /\ Val(T, M, s[b + 1], a, f.bar - 1, n) /\ p + 1 = f.bar + 1
    BY <1>1, <1>2, <1>3 DEF LastRead, Frame, TermStart
  <2>2. f.bar = p /\ a + 1 <= p
    BY <1>3, <2>1
  <2>3. /\ IF n = 1 THEN a = 1 ELSE a > 1 /\ T[a - 1].type = "("
        /\ ~InPhrase(T, a - 1) /\ Depth(T, a - 1) = n - 1 /\ ~InPhrase(T, p) /\ Depth(T, p) = n - 1
        /\ \A k \in a - 1 .. p : Depth(T, k) >= n - 1
    BY <1>1, <1>2 DEF LastRead, Frame
  <2> QED  BY <2>1, <2>2, <2>3
<1>7. /\ ~InPhrase(T, i) /\ OperandEnds(T, i) /\ Depth(T, i) = n - 1
      /\ \A k \in p .. i : Depth(T, k) >= n - 1
      /\ At(T, p + 1, i, {"|"}, n - 1) = {}
      /\ Val(T, M, s[m], p + 1, i, n)
  BY <1>1, <1>2, <1>3 DEF LastRead, Behind
<1>8. Denotes(s[m], M[<<p + 1, i>>])
  <2>1. n = 1 => At(T, p + 1, i, {"|"}, 0) = {}
    BY <1>7
  <2> QED  BY <1>7, <2>1 DEF Val
<1>9. /\ a \in 1 .. Len(T) /\ i \in a .. Len(T) /\ p \in a .. i /\ T[p].type = "|"
      /\ p \in At(T, a, i, {"|"}, n - 1)
  <2>1. a \in 1 .. Len(T) /\ i \in a .. Len(T) /\ p \in a .. i
    BY <1>3, <1>6
  <2>2. T[p].type = "|" /\ ~InPhrase(T, p) /\ Depth(T, p) = n - 1
    BY <1>6 DEF At
  <2> QED  BY <2>1, <2>2 DEF At
<1>10. M[<<a, i>>] = Joined("|", M[<<a, p - 1>>], M[<<p + 1, i>>])
  <2>1. M[<<a, i>>] = Joined(T[p].type, M[<<a, p - 1>>], M[<<p + 1, i>>])
    BY <1>6, <1>7, <1>9, SplitsAtAlternative, SMTT(60)
  <2> QED  BY <1>9, <2>1
<1>11. /\ v \in Operands /\ v = Combined("|", s[b + 1], s[m])
  <2>1. m - 1 = b + 1 /\ m \in 1 .. Len(s) /\ b + 1 \in 1 .. Len(s)
    BY SMTT(30), <1>2, <1>3, <1>5
  <2>2. s[m] \in Operands /\ s[b + 1] \in Operands
    BY <2>1
  <2>3. v = Combined("|", s[b + 1], s[m])
    BY <1>2, <2>1
  <2> QED  BY <2>2, <2>3, CombinedIsOperand
<1>12. Stands(v, M[<<a, i>>])
  <2>1. Stands(s[b + 1], M[<<a, p - 1>>])
    BY <1>6 DEF Val, Denotes
  <2> QED  BY <1>8, <1>10, <1>11, <2>1, AlternativesStand DEF Denotes
<1>13. ASSUME n # 1 PROVE Denotes(v, M[<<a, i>>])
  <2>1. Denotes(s[b + 1], M[<<a, p - 1>>])
    BY <1>6, <1>13 DEF Val
  <2>2. i < Len(T) /\ T[i + 1].type \in {")", "|"}
    <3>1. Depth(T, Len(T)) = 0
      BY DEF Grammatical
    <3>2. i < Len(T)
      BY <1>3, <1>7, <1>13, <3>1
    <3>3. i \in 0 .. Len(T) /\ ~(i = Len(T))
      BY <1>3, <3>2
    <3>4. T[i + 1].type \in Operators \union {")"}
      BY <1>7, <3>3 DEF Grammatical
    <3> QED  BY <3>2, <3>4 DEF Operators
  <2>3. ~InPhrase(T, p - 1) /\ Depth(T, p - 1) = n - 1
    <3>1. T[p].type = "|" /\ p - 1 \in Nat /\ p # 0 /\ p \in Nat
      BY <1>3, <1>6, <1>9
    <3>2. ~InPhrase(T, p - 1)
      BY <1>6, <3>1, InPhraseStep DEF IsQuote
    <3>3. Depth(T, p) = Depth(T, p - 1) + 0 /\ Depth(T, p - 1) \in Int
      BY <3>1, DepthStep DEF IsOpening, IsClosing
    <3> QED  BY <1>6, <3>2, <3>3
  <2>4. Alternative(T, a, p - 1)
    <3>1. /\ a \in 2 .. Len(T) /\ p - 1 \in 2 .. Len(T) - 1 /\ a <= p - 1 /\ (p - 1) + 1 = p
      BY SMTT(30), <1>3, <1>6, <1>13
    <3>2. \A k \in a .. p - 1 : Depth(T, k) >= n - 1
      BY <1>3, <1>6
    <3>3. Depth(T, p - 1) > 0 /\ T[a - 1].type = "("
      BY <1>3, <1>6, <1>13, <2>3
    <3> QED  BY <1>6, <1>9, <2>3, <3>1, <3>2, <3>3 DEF Alternative
  <2>5. Alternative(T, p + 1, i)
    <3>1. /\ p + 1 \in 2 .. Len(T) /\ i \in 2 .. Len(T) - 1 /\ p + 1 <= i /\ (p + 1) - 1 = p
      <4>1. p \in Nat /\ i \in Nat /\ p + 1 <= i /\ p >= 1
        BY <1>3, <1>6, SMTT(30)
      <4> QED  BY <2>2, <4>1, SMTT(30)
    <3>2. \A k \in p + 1 .. i : Depth(T, k) >= n - 1
      BY <1>3, <1>7
    <3>3. Depth(T, i) > 0
      BY <1>3, <1>7, <1>13
    <3> QED  BY <1>6, <1>7, <1>9, <2>2, <3>1, <3>2, <3>3 DEF Alternative
  <2>6. M[<<a, p - 1>>] # Ignored /\ M[<<p + 1, i>>] # Ignored
    BY <2>4, <2>5 DEF NoneIgnored
  <2>7. M[<<a, i>>] # Ignored
    <3>1. IsMeaning(M[<<a, p - 1>>]) /\ IsMeaning(M[<<p + 1, i>>])
      BY <1>8, <2>1 DEF Denotes, Stands
    <3> QED  BY <1>10, <2>6, <3>1, JoinedIsMeaning
  <2>8. v # Ignored
    <3>1. s[b + 1] # Ignored /\ s[m] # Ignored /\ Stands(s[b + 1], M[<<a, p - 1>>]) /\ Stands(s[m], M[<<p + 1, i>>])
      BY <1>8, <2>1, <2>6 DEF Denotes
    <3> QED  BY <1>11, <3>1, AlternativesStand
  <2> QED  BY <1>12, <2>7, <2>8 DEF Denotes
<1>14. Val(T, M, v, a, i, n)
  <2>1. CASE n = 1
    <3>1. p \in At(T, a, i, {"|"}, 0)
      BY <1>9, <2>1
    <3> QED  BY <1>12, <2>1, <3>1 DEF Val
  <2> QED  BY <1>13, <2>1 DEF Val
<1>15. /\ t \in Seq(Operands) /\ Len(t) = b + 1 /\ t[Len(t)] = v /\ \A j \in 1 .. b : t[j] = s[j]
  <2>1. m - 1 = b + 1 /\ m - 2 = b
    BY <1>3, <1>5
  <2>2. /\ t \in Seq(Operands) /\ Len(t) = m - 1 /\ t[m - 1] = v
        /\ \A j \in 1 .. m - 2 : t[j] = s[j]
    BY <1>2, <1>11, PoppedFacts
  <2> QED  BY <2>1, <2>2
<1>16. PICK q \in Nat : q = a - 1
  BY <1>3
<1>17. q + 1 = a /\ q \in 0 .. Len(T)
  BY <1>3, <1>9, <1>16
<1>18. Frame(T, M, g, t, f, n, q)
  <2>1. f.start \in 1 .. q + 1 /\ f.bar \in Nat /\ f.base \in Nat
    BY <1>1, <1>2, <1>3, <1>17 DEF LastRead
  <2>2. TermStart(g, f) = a
    BY <1>2, <1>4 DEF TermStart
  <2>3. At(T, a, q, {"|"}, n - 1) = {}
    BY <1>3, <1>17 DEF At
  <2>4. ~InPhrase(T, q) /\ Depth(T, q) = n - 1 /\ \A k \in a - 1 .. q : Depth(T, k) >= n - 1
    <3>1. \A k \in a - 1 .. q : k = q
      BY <1>3, <1>16
    <3>2. ~InPhrase(T, q) /\ Depth(T, q) = n - 1
      BY <1>6, <1>16
    <3> QED  BY <1>3, <3>1, <3>2
  <2>5. IF n = 1 THEN f.start = 1 ELSE f.start > 1 /\ T[f.start - 1].type = "("
    BY <1>2, <1>6
  <2>6. ~InPhrase(T, f.start - 1) /\ Depth(T, f.start - 1) = n - 1
    BY <1>2, <1>6
  <2>7. f.start = a
    BY <1>2
  <2> QED  BY <1>4, <1>17, <2>1, <2>2, <2>3, <2>4, <2>5, <2>6, <2>7 DEF Frame
<1>19. PICK G : /\ Frames(T, M, WithLast(c, g), t, G, q)
                /\ Held(WithLast(c, g), G) = f.base + Waits(g)
  <2>1. /\ Frames(T, M, c, s, F, p) /\ f.start = F[Len(c)].start /\ f.base = F[Len(c)].base
    BY <1>1 DEF LastRead
  <2>2. Frame(T, M, g, t, f, Len(c), q) /\ \A j \in 1 .. f.base : t[j] = s[j]
    BY <1>2, <1>3, <1>15, <1>18
  <2> QED  BY <1>4, <1>17, <2>1, <2>2, LastChanges
<1>20. Len(t) = Held(WithLast(c, g), G) + 1
  <2>1. Held(WithLast(c, g), G) = b
    BY <1>2, <1>3, <1>4, <1>19
  <2> QED  BY <1>15, <2>1
<1>21. Behind(T, M, g, v, n, q, i)
  <2>1. i \in q + 1 .. Len(T)
    BY <1>9, <1>17
  <2>2. \A k \in q .. i : Depth(T, k) >= n - 1
    <3>1. \A k \in q .. i : k \in a - 1 .. p \/ k \in p .. i
      BY <1>3, <1>16
    <3> QED  BY <1>6, <1>7, <3>1
  <2>3. Val(T, M, v, q + 1, i, n)
    BY <1>14, <1>17
  <2> QED  BY <1>4, <1>7, <2>1, <2>2, <2>3 DEF Behind
<1>22. Len(WithLast(c, g)) = n /\ WithLast(c, g)[n] = g
  BY <1>3, <1>4, WithLastFacts
<1>23. Behind(T, M, WithLast(c, g)[Len(WithLast(c, g))], t[Len(t)], Len(WithLast(c, g)), q, i)
  BY <1>15, <1>21, <1>22
<1>24. Read(T, M, WithLast(c, g), t, i)
  BY <1>19, <1>20, <1>23 DEF Read
<1>25. g = [c[Len(c)] EXCEPT !.or = FALSE]
  BY <1>1, <1>2 DEF LastRead
<1> QED  BY <1>2, <1>24, <1>25

(* ExprGoesOn *)
LEMMA ReadsExprOn ==
  ASSUME NEW T, Len(T) \in Nat, NEW M, NEW c \in Seq(Calls), c # <<>>, NEW s, NEW i,
         Read(T, M, c, s, i), c[Len(c)].op = "none", ~c[Len(c)].or,
         i < Len(T), T[i + 1].type = "|"
  PROVE  Reading(T, M, WithLast(c, [c[Len(c)] EXCEPT !.or = TRUE]), s, i + 1)
<1>1. PICK F, p, n, e, f : LastRead(T, M, c, s, F, p, i, n, e, f)
  BY ReadIs
<1>2. PICK g, h, a, b : /\ g = [e EXCEPT !.or = TRUE] /\ a = f.start /\ b = f.base
                        /\ h = [start |-> a, bar |-> i + 1, base |-> b]
  OBVIOUS
<1>3. /\ n = Len(c) /\ n \in Nat /\ n >= 1 /\ e \in Calls /\ e.op = "none" /\ ~e.or
      /\ p \in Nat /\ i \in Nat /\ p < i /\ i < Len(T) /\ a \in Nat /\ a >= 1 /\ b \in Nat
  BY <1>1, <1>2 DEF LastRead
<1>4. g \in Calls /\ g.op = "none" /\ g.or /\ Waits(g) = 1 /\ Count(g.or) = 1
  <2>1. g \in Calls /\ g.op = "none" /\ g.or
    BY <1>2, <1>3 DEF Calls
  <2> QED  BY <2>1 DEF Waits, Count
<1>5. Len(s) = b + 1
  <2>1. Waits(e) = 0
    BY <1>3 DEF Waits, Count
  <2> QED  BY <1>1, <1>2, <1>3, <2>1 DEF LastRead
<1>6. /\ p + 1 = a
      /\ IF n = 1 THEN a = 1 ELSE a > 1 /\ T[a - 1].type = "("
      /\ ~InPhrase(T, a - 1) /\ Depth(T, a - 1) = n - 1
  BY <1>1, <1>2, <1>3 DEF LastRead, Frame, TermStart
<1>7. /\ ~InPhrase(T, i) /\ Depth(T, i) = n - 1 /\ \A k \in p .. i : Depth(T, k) >= n - 1
      /\ Val(T, M, s[b + 1], a, i, n)
  BY <1>1, <1>5, <1>6 DEF LastRead, Behind
<1>8. ~InPhrase(T, i + 1) /\ Depth(T, i + 1) = n - 1
  BY <1>3, <1>7, NextWord
<1>9. PICK q \in Nat : q = i + 1
  BY <1>3
<1>10. h.start = a /\ h.bar = q /\ h.base = b
  BY <1>2, <1>9
<1>11. Frame(T, M, g, s, h, n, q)
  <2>1. h.start \in 1 .. q + 1 /\ h.bar \in Nat /\ h.base \in Nat
    BY <1>3, <1>6, <1>9, <1>10
  <2>2. \A k \in a - 1 .. q : Depth(T, k) >= n - 1
    <3>1. \A k \in a - 1 .. q : k \in p .. i \/ k = i + 1
      BY <1>3, <1>6, <1>9
    <3>2. n - 1 >= n - 1
      BY <1>3
    <3> QED  BY <1>7, <1>8, <3>1, <3>2
  <2>3. /\ h.bar \in h.start + 1 .. q /\ h.bar \in At(T, h.start, q, {"|"}, n - 1)
        /\ Val(T, M, s[h.base + 1], h.start, h.bar - 1, n)
    <3>1. q \in a + 1 .. q /\ q \in a .. q /\ q - 1 = i
      BY <1>3, <1>6, <1>9
    <3>2. q \in At(T, a, q, {"|"}, n - 1)
      BY <1>8, <1>9, <3>1 DEF At
    <3> QED  BY <1>7, <1>10, <3>1, <3>2
  <2>4. TermStart(g, h) = q + 1
    BY <1>4, <1>10 DEF TermStart
  <2>5. At(T, q + 1, q, {"|"}, n - 1) = {}
    BY <1>9 DEF At
  <2>6. ~InPhrase(T, q) /\ Depth(T, q) = n - 1
    BY <1>8, <1>9
  <2> QED  BY <1>4, <1>6, <1>10, <2>1, <2>2, <2>3, <2>4, <2>5, <2>6 DEF Frame
<1>12. PICK G : /\ Frames(T, M, WithLast(c, g), s, G, q)
                /\ Held(WithLast(c, g), G) = h.base + Waits(g)
  <2>1. /\ Frames(T, M, c, s, F, p) /\ h.start = F[Len(c)].start /\ h.base = F[Len(c)].base
    BY <1>1, <1>2, <1>10 DEF LastRead
  <2>2. Frame(T, M, g, s, h, Len(c), q) /\ \A j \in 1 .. h.base : s[j] = s[j]
    BY <1>3, <1>11
  <2>3. q \in 0 .. Len(T)
    BY <1>3, <1>9
  <2> QED  BY <1>4, <2>1, <2>2, <2>3, LastChanges
<1>13. Len(s) = Held(WithLast(c, g), G)
  BY <1>4, <1>5, <1>10, <1>12
<1>14. g = [c[Len(c)] EXCEPT !.or = TRUE]
  BY <1>1, <1>2 DEF LastRead
<1> QED  BY <1>9, <1>12, <1>13, <1>14 DEF Reading

(* ExprReturns *)
LEMMA ReadsExprBack ==
  ASSUME NEW T, Len(T) \in Nat, NEW leaf, NEW M, Means(T, leaf, M),
         NEW c \in Seq(Calls), Len(c) > 1, NEW s, NEW i,
         Read(T, M, c, s, i), c[Len(c)].op = "none", ~c[Len(c)].or,
         i < Len(T), T[i + 1].type = ")", NEW d, d = Seqs!Front(c)
  PROVE  Read(T, M, d, s, i + 1)
<1>0. c # <<>>
  BY EmptySeq
<1>1. PICK F, p, n, e, f : LastRead(T, M, c, s, F, p, i, n, e, f)
  BY <1>0, ReadIs
<1>2. PICK a, b, v : a = f.start /\ b = f.base /\ v = s[Len(s)]
  OBVIOUS
<1>3. /\ n = Len(c) /\ n \in Nat /\ n > 1 /\ e \in Calls /\ e.op = "none" /\ ~e.or
      /\ p \in Nat /\ i \in Nat /\ p < i /\ i < Len(T) /\ a \in Nat /\ a > 1 /\ b \in Nat
      /\ p + 1 = a /\ T[a - 1].type = "(" /\ ~InPhrase(T, a - 1) /\ Depth(T, a - 1) = n - 1
  <2>1. /\ n = Len(c) /\ n \in Nat /\ n > 1 /\ e \in Calls /\ e.op = "none" /\ ~e.or
        /\ p \in Nat /\ i \in Nat /\ p < i /\ i < Len(T) /\ a \in Nat /\ b \in Nat
    BY <1>1, <1>2 DEF LastRead
  <2>2. /\ p + 1 = a /\ a > 1 /\ T[a - 1].type = "(" /\ ~InPhrase(T, a - 1) /\ Depth(T, a - 1) = n - 1
    BY <1>1, <1>2, <2>1 DEF LastRead, Frame, TermStart
  <2> QED  BY <2>1, <2>2
<1>4. Len(s) = b + 1
  <2>1. Waits(e) = 0
    BY <1>3 DEF Waits, Count
  <2> QED  BY <1>1, <1>2, <1>3, <2>1 DEF LastRead
<1>5. /\ ~InPhrase(T, i) /\ Depth(T, i) = n - 1 /\ \A k \in p .. i : Depth(T, k) >= n - 1
      /\ Denotes(v, M[<<a, i>>])
  <2>1. /\ ~InPhrase(T, i) /\ Depth(T, i) = n - 1 /\ \A k \in p .. i : Depth(T, k) >= n - 1
        /\ Val(T, M, v, p + 1, i, n)
    BY <1>1, <1>2 DEF LastRead, Behind
  <2> QED  BY SMTT(30), <1>3, <2>1 DEF Val
<1>6. ~InPhrase(T, i + 1) /\ Depth(T, i + 1) = n - 2
  BY <1>3, <1>5, NextWord
<1>7. PICK m \in Nat, q \in Nat : m = n - 1 /\ q = a - 2 /\ m >= 1
  <2>1. n - 1 \in Nat /\ a - 2 \in Nat /\ n - 1 >= 1
    BY <1>3
  <2> QED  BY <2>1
<1>8. /\ d \in Seq(Calls) /\ Len(d) = m /\ \A l \in 1 .. m : d[l] = c[l]
  <2>1. Seqs!Front(c) = SubSeq(c, 1, Len(c) - 1)
    BY DEF Seqs!Front
  <2>2. d = SubSeq(c, 1, m)
    BY <1>3, <1>7, <2>1
  <2>3. m \in 0 .. Len(c)
    BY <1>3, <1>7
  <2> QED  BY <2>2, <2>3, FirstOf
<1>9. /\ \A l \in 1 .. m : Frame(T, M, c[l], s, F[l], l, IF l = m THEN q ELSE F[l + 1].start - 2)
      /\ \A l \in 1 .. m : F[l + 1].base = F[l].base + Waits(c[l])
      /\ F[1].base = 0
  <2>1. /\ \A l \in 1 .. n : Frame(T, M, c[l], s, F[l], l, IF l = n THEN p ELSE F[l + 1].start - 2)
        /\ \A l \in 1 .. n - 1 : F[l + 1].base = F[l].base + Waits(c[l])
        /\ F[1].base = 0
    BY <1>1, <1>3 DEF LastRead, Frames
  <2>2. F[n].start - 2 = q /\ m + 1 = n
    BY <1>1, <1>2, <1>3, <1>7 DEF LastRead
  <2>3. ASSUME NEW l \in 1 .. m
        PROVE  Frame(T, M, c[l], s, F[l], l, IF l = m THEN q ELSE F[l + 1].start - 2)
    <3>1. l \in 1 .. n /\ l # n
      BY <1>3, <1>7
    <3>2. Frame(T, M, c[l], s, F[l], l, F[l + 1].start - 2)
      BY <2>1, <3>1
    <3> QED  BY <2>2, <3>2
  <2> QED  BY <1>7, <2>1, <2>3
<1>10. Frames(T, M, d, s, F, q)
  <2>1. q \in 0 .. Len(T)
    BY <1>3, <1>7
  <2>2. \A l \in 1 .. m - 1 : l \in 1 .. m
    BY <1>7
  <2> QED  BY <1>8, <1>9, <2>1, <2>2 DEF Frames
<1>11. Len(s) = Held(d, F) + 1
  <2>1. F[m + 1].base = F[m].base + Waits(c[m]) /\ d[m] = c[m] /\ m + 1 = n
    BY <1>3, <1>7, <1>8, <1>9
  <2>2. F[n] = f
    BY <1>1 DEF LastRead
  <2>3. Held(d, F) = b
    BY <1>2, <1>8, <2>1, <2>2 DEF Held
  <2> QED  BY <1>4, <2>3
<1>12. /\ ~InPhrase(T, q) /\ Depth(T, q) = m - 1
  <2>1. Frame(T, M, c[m], s, F[m], m, q)
    BY <1>7, <1>9
  <2> QED  BY <2>1 DEF Frame
<1>13. At(T, q + 1, i + 1, Operators, m - 1) = {} /\ At(T, q + 1, i + 1, {"|"}, m - 1) = {}
  <2>1. ASSUME NEW k \in q + 1 .. i + 1, T[k].type \in Operators \union {"|"}, Depth(T, k) = m - 1
        PROVE  FALSE
    <3>1. k = a - 1 \/ k \in p .. i \/ k = i + 1
      BY <1>3, <1>7
    <3>2. k # a - 1 /\ k # i + 1
      BY <1>3, <2>1 DEF Operators
    <3>3. Depth(T, k) >= n - 1
      BY <1>5, <3>1, <3>2
    <3> QED  BY <1>3, <1>7, <2>1, <3>3
  <2> QED  BY <2>1 DEF At
<1>14. M[<<q + 1, i + 1>>] = M[<<a, i>>]
  <2>1. q + 1 \in 1 .. Len(T) /\ i + 1 \in q + 1 .. Len(T) /\ (q + 1) - 1 = q /\ q + 1 = a - 1
        /\ (q + 1) + 1 = a /\ (i + 1) - 1 = i
    BY <1>3, <1>7
  <2>2. At(T, q + 1, i + 1, Operators, Depth(T, (q + 1) - 1)) = {}
    BY <1>12, <1>13, <2>1
  <2>3. M[<<q + 1, i + 1>>] = IF T[q + 1].type = "(" THEN M[<<(q + 1) + 1, (i + 1) - 1>>] ELSE leaf[q + 1]
    BY <2>1, <2>2, NotSplit
  <2> QED  BY <1>3, <2>1, <2>3
<1>15. Behind(T, M, c[m], v, m, q, i + 1)
  <2>1. i + 1 \in q + 1 .. Len(T) /\ n - 2 = m - 1
    BY SMTT(30), <1>3, <1>7
  <2>2. OperandEnds(T, i + 1)
    BY <1>3 DEF OperandEnds
  <2>3. \A k \in q .. i + 1 : Depth(T, k) >= m - 1
    <3>1. \A k \in q .. i + 1 : k = q \/ k \in p .. i \/ k = i + 1
      BY <1>3, <1>7
    <3>2. \A k \in p .. i : Depth(T, k) \in Int
      <4>1. \A k \in p .. i : k \in Nat
        BY <1>3
      <4> QED  BY <4>1, DepthStep
    <3>3. \A k \in p .. i : Depth(T, k) >= m - 1
      BY <1>3, <1>5, <1>7, <3>2
    <3> QED  BY <1>6, <1>7, <1>12, <2>1, <3>1, <3>3
  <2>4. Val(T, M, v, q + 1, i + 1, m)
    <3>1. m = 1 => At(T, q + 1, i + 1, {"|"}, 0) = {}
      BY <1>13
    <3> QED  BY <1>5, <1>14, <3>1 DEF Val
  <2> QED  BY <1>6, <1>13, <2>1, <2>2, <2>3, <2>4 DEF Behind
<1>16. Behind(T, M, d[Len(d)], s[Len(s)], Len(d), q, i + 1)
  <2>1. d[m] = c[m]
    BY <1>7, <1>8
  <2> QED  BY <1>2, <1>8, <1>15, <2>1
<1> QED  BY <1>10, <1>11, <1>16 DEF Read

(* Parsed *)
LEMMA ReadsEnd ==
  ASSUME NEW T, Len(T) \in Nat, NEW M, NEW c \in Seq(Calls), Len(c) = 1, NEW s,
         Read(T, M, c, s, Len(T)), c[Len(c)].op = "none", ~c[Len(c)].or
  PROVE  Len(s) = 1 /\ Stands(s[1], M[<<1, Len(T)>>])
<1>0. c # <<>>
  BY EmptySeq
<1>1. PICK F, p, n, e, f : LastRead(T, M, c, s, F, p, Len(T), n, e, f)
  BY <1>0, ReadIs
<1>2. n = 1 /\ e.op = "none" /\ ~e.or /\ p \in Nat /\ f.start \in Nat
  BY <1>1 DEF LastRead
<1>3. f.base = 0 /\ Waits(e) = 0
  <2>1. F[1].base = 0
    BY <1>1 DEF LastRead, Frames
  <2>2. f = F[1]
    BY <1>1, <1>2 DEF LastRead
  <2> QED  BY <1>2, <2>1, <2>2 DEF Waits, Count
<1>4. Len(s) = 1
  BY <1>1, <1>3 DEF LastRead
<1>5. p + 1 = 1
  BY <1>1, <1>2 DEF LastRead, Frame, TermStart
<1>6. Val(T, M, s[1], 1, Len(T), 1)
  BY <1>1, <1>2, <1>4, <1>5 DEF LastRead, Behind
<1> QED  BY <1>4, <1>6 DEF Val, Denotes

----------------------------------------------------------------------------
(* Phrases *)

(* The words left to read are those behind place p. *)
Rest(T, p) == SubSeq(T, p + 1, Len(T))

LEMMA RestFacts ==
  ASSUME NEW S, NEW T \in Seq(S), NEW p \in 0 .. Len(T)
  PROVE  /\ Rest(T, 0) = T
         /\ Rest(T, p) = <<>> <=> p = Len(T)
         /\ p < Len(T) => Head(Rest(T, p)) = T[p + 1] /\ Tail(Rest(T, p)) = Rest(T, p + 1)
<1>0. PICK n \in Nat : n = Len(T)
  OBVIOUS
<1>1. ASSUME NEW i \in 0 .. n
      PROVE  /\ Rest(T, i) \in Seq(S) /\ Len(Rest(T, i)) = n - i
             /\ \A j \in 1 .. n - i : Rest(T, i)[j] = T[i + j]
  <2>1. \A j \in i + 1 .. n : T[j] \in S
    BY <1>0
  <2>2. i + 1 \in Int /\ n \in Int
    OBVIOUS
  <2>3. /\ SubSeq(T, i + 1, n) \in Seq(S)
        /\ Len(SubSeq(T, i + 1, n)) = (IF i + 1 <= n THEN n - (i + 1) + 1 ELSE 0)
        /\ \A j \in 1 .. n - (i + 1) + 1 : SubSeq(T, i + 1, n)[j] = T[(i + 1) + j - 1]
    BY <2>1, <2>2, SubSeqProperties
  <2>4. Rest(T, i) = SubSeq(T, i + 1, n)
    BY <1>0 DEF Rest
  <2> HIDE DEF Rest
  <2>5. Len(Rest(T, i)) = n - i
    BY <2>3, <2>4
  <2>6. ASSUME NEW j \in 1 .. n - i PROVE Rest(T, i)[j] = T[i + j]
    <3>1. n - (i + 1) + 1 = n - i /\ (i + 1) + j - 1 = i + j
      OBVIOUS
    <3> QED  BY <2>3, <2>4, <3>1
  <2> QED  BY <2>3, <2>4, <2>5, <2>6
<1>2. Rest(T, 0) = T
  <2>1. /\ Rest(T, 0) \in Seq(S) /\ Len(Rest(T, 0)) = n /\ \A j \in 1 .. n : Rest(T, 0)[j] = T[j]
    BY <1>1
  <2> HIDE DEF Rest
  <2> QED  BY <1>0, <2>1
<1>3. Rest(T, p) = <<>> <=> p = n
  <2>1. Rest(T, p) \in Seq(S) /\ Len(Rest(T, p)) = n - p
    BY <1>0, <1>1
  <2> HIDE DEF Rest
  <2> QED  BY <1>0, <2>1, EmptySeq
<1>4. ASSUME p < n PROVE Head(Rest(T, p)) = T[p + 1] /\ Tail(Rest(T, p)) = Rest(T, p + 1)
  <2>1. PICK x, y : x = Rest(T, p) /\ y = Rest(T, p + 1)
    OBVIOUS
  <2>2. /\ x \in Seq(S) /\ Len(x) = n - p /\ \A j \in 1 .. n - p : x[j] = T[p + j]
        /\ y \in Seq(S) /\ Len(y) = n - p - 1 /\ \A j \in 1 .. n - p - 1 : y[j] = T[p + 1 + j]
    <3>1. p \in 0 .. n /\ p + 1 \in 0 .. n /\ n - (p + 1) = n - p - 1
      BY <1>0, <1>4
    <3> QED  BY <1>1, <2>1, <3>1
  <2>3. n - p \in Nat /\ n - p >= 1 /\ p \in Nat
    BY <1>0, <1>4
  <2>4. Head(x) = T[p + 1]
    <3>1. Head(x) = x[1]
      BY <2>2, <2>3
    <3> QED  BY <2>2, <2>3, <3>1
  <2>5. Tail(x) = y
    <3>1. Tail(x) \in Seq(S) /\ Len(Tail(x)) = n - p - 1 /\ \A j \in 1 .. n - p - 1 : Tail(x)[j] = x[j + 1]
      <4>1. x # <<>>
        BY <2>2, <2>3, EmptySeq
      <4> QED  BY <2>2, <2>3, <4>1, HeadTailProperties
    <3>2. \A j \in 1 .. n - p - 1 : x[j + 1] = y[j]
      BY <2>2, <2>3
    <3>3. \A j \in 1 .. n - p - 1 : Tail(x)[j] = y[j]
      BY <3>1, <3>2
    <3> QED  BY <2>2, <3>1, <3>3
  <2> QED  BY <2>1, <2>4, <2>5
<1> QED  BY <1>0, <1>2, <1>3, <1>4

(* A phrase was read from its quote at u up to place p. *)
Quoting(T, u, p) ==
  /\ u \in 1 .. Len(T) /\ p \in u .. Len(T) /\ T[u].type = "quote" /\ ~InPhrase(T, u - 1)
  /\ \A k \in u .. p : InPhrase(T, k) /\ Depth(T, k) = Depth(T, u - 1)
  /\ \A k \in u + 1 .. p : T[k].type # "quote"

LEMMA QuoteOpens ==
  ASSUME NEW T, Len(T) \in Nat, NEW p \in Nat, p < Len(T), ~InPhrase(T, p), T[p + 1].type = "quote"
  PROVE  Quoting(T, p + 1, p + 1)
<1>1. p + 1 \in Nat /\ p + 1 # 0 /\ (p + 1) - 1 = p /\ p + 1 \in 1 .. Len(T) /\ p + 1 \in p + 1 .. Len(T)
  OBVIOUS
<1>2. InPhrase(T, p + 1)
  BY <1>1, InPhraseStep DEF IsQuote
<1>3. Depth(T, p + 1) = Depth(T, p)
  <2>1. Depth(T, p) \in Int /\ Depth(T, p + 1) = Depth(T, p) + 0
    BY <1>1, DepthStep DEF IsOpening, IsClosing
  <2> QED  BY <2>1
<1>4. \A k \in p + 1 .. p + 1 : k = p + 1
  OBVIOUS
<1>5. \A k \in (p + 1) + 1 .. p + 1 : FALSE
  OBVIOUS
<1> QED  BY <1>1, <1>2, <1>3, <1>4, <1>5 DEF Quoting

LEMMA QuoteGoesOn ==
  ASSUME NEW T, Len(T) \in Nat, NEW u, NEW p, Quoting(T, u, p), p < Len(T), T[p + 1].type # "quote"
  PROVE  Quoting(T, u, p + 1)
<1>1. p \in Nat /\ u \in Nat /\ p + 1 # 0 /\ (p + 1) - 1 = p /\ p + 1 \in u .. Len(T) /\ u <= p
      /\ InPhrase(T, p) /\ Depth(T, p) = Depth(T, u - 1)
  BY DEF Quoting
<1>2. InPhrase(T, p + 1)
  BY <1>1, InPhraseStep DEF IsQuote
<1>3. Depth(T, p + 1) = Depth(T, p)
  <2>1. Depth(T, p) \in Int /\ Depth(T, p + 1) = Depth(T, p) + 0
    BY <1>1, <1>2, DepthStep DEF IsOpening, IsClosing
  <2> QED  BY <2>1
<1>4. \A k \in u .. p + 1 : k \in u .. p \/ k = p + 1
  BY <1>1
<1>5. \A k \in u + 1 .. p + 1 : k \in u + 1 .. p \/ k = p + 1
  BY <1>1
<1>6. /\ u \in 1 .. Len(T) /\ T[u].type = "quote" /\ ~InPhrase(T, u - 1)
      /\ \A k \in u .. p : InPhrase(T, k) /\ Depth(T, k) = Depth(T, u - 1)
      /\ \A k \in u + 1 .. p : T[k].type # "quote"
  BY DEF Quoting
<1>7. \A k \in u .. p + 1 : InPhrase(T, k) /\ Depth(T, k) = Depth(T, u - 1)
  BY <1>1, <1>2, <1>3, <1>4, <1>6
<1>8. \A k \in u + 1 .. p + 1 : T[k].type # "quote"
  BY <1>5, <1>6
<1> QED  BY <1>1, <1>6, <1>7, <1>8 DEF Quoting

LEMMA QuoteEnds ==
  ASSUME NEW T, Len(T) \in Nat, NEW u, NEW p, Quoting(T, u, p), p < Len(T), T[p + 1].type = "quote"
  PROVE  /\ ~InPhrase(T, p + 1) /\ \A k \in u .. p + 1 : Depth(T, k) = Depth(T, u - 1)
         /\ \A d : At(T, u, p + 1, Operators, d) = {}
         /\ Phrase(T, u) = u + 1 .. p
<1>1. p \in Nat /\ u \in Nat /\ p + 1 # 0 /\ (p + 1) - 1 = p /\ p + 1 \in u .. Len(T) /\ u <= p
      /\ InPhrase(T, p) /\ Depth(T, p) = Depth(T, u - 1)
  BY DEF Quoting
<1>2. ~InPhrase(T, p + 1)
  BY <1>1, InPhraseStep DEF IsQuote
<1>3. Depth(T, p + 1) = Depth(T, p)
  <2>1. Depth(T, p) \in Int /\ Depth(T, p + 1) = Depth(T, p) + 0
    BY <1>1, DepthStep DEF IsOpening, IsClosing
  <2> QED  BY <2>1
<1>4. \A k \in u .. p + 1 : k \in u .. p \/ k = p + 1
  BY <1>1
<1>5. /\ \A k \in u .. p : InPhrase(T, k) /\ Depth(T, k) = Depth(T, u - 1)
      /\ \A k \in u + 1 .. p : T[k].type # "quote"
  BY DEF Quoting
<1>6. \A k \in u .. p + 1 : Depth(T, k) = Depth(T, u - 1)
  BY <1>1, <1>3, <1>4, <1>5
<1>7. \A d : At(T, u, p + 1, Operators, d) = {}
  <2>1. \A k \in u .. p + 1 : InPhrase(T, k) \/ T[k].type \notin Operators
    BY <1>4, <1>5 DEF Operators
  <2> QED  BY <2>1 DEF At
<1>8. Phrase(T, u) = u + 1 .. p
  <2>1. ASSUME NEW i \in Phrase(T, u) PROVE i \in u + 1 .. p
    <3>1. i \in u + 1 .. Len(T) /\ \A j \in u + 1 .. i : T[j].type # "quote"
      BY DEF Phrase
    <3>2. ~(p + 1 \in u + 1 .. i)
      BY <3>1
    <3> QED  BY <1>1, <3>1, <3>2
  <2>2. ASSUME NEW i \in u + 1 .. p PROVE i \in Phrase(T, u)
    <3>1. i \in u + 1 .. Len(T) /\ \A j \in u + 1 .. i : j \in u + 1 .. p
      BY <1>1
    <3> QED  BY <1>5, <3>1 DEF Phrase
  <2> QED  BY <2>1, <2>2
<1> QED  BY <1>2, <1>6, <1>7, <1>8

(* The words of a phrase that are looked up, and how many words with a      *)
(* place in the text are between the first of them and another word.        *)
Asked(T, u, p) == {i \in u + 1 .. p : T[i].type = "word"}

Placed(T, a) == {j \in Nat : j >= a /\ T[j].type \in {"word", "bad"}}

Passed(T, a, i) == Cardinality({j \in 1 .. i - 1 : j \in Placed(T, a)})

(* Where the phrase so far occurs: its words from a to m, found at m. *)
FoundFrom(T, L, a, d, start) ==
  \A i \in L : \E o \in Occurrences(T[i].word) : DocID(o) = d /\ Location(o) = start + Passed(T, a, i)

Spots(T, L, a, m) ==
  {k \in Occurrences(T[m].word) :
     \E start \in 0 .. MaxValue[3] :
       FoundFrom(T, L, a, DocID(k), start) /\ Location(k) = start + Passed(T, a, m)}

IsSpots(T, u, p, w, ig, a, m) ==
  /\ a \in Asked(T, u, p) /\ m \in Asked(T, u, p)
  /\ \A i \in Asked(T, u, p) : a <= i /\ i <= m
  /\ w = ResultList(Spots(T, Asked(T, u, p), a, m))
  /\ IF w.of = {} THEN ig = 0 ELSE Passed(T, a, p + 1) = Passed(T, a, m) + 1 + ig

PhraseRead(T, u, p, w, ig) ==
  /\ ig \in Nat
  /\ \/ Asked(T, u, p) = {} /\ w = Null /\ ig = 0
     \/ \E a, m : IsSpots(T, u, p, w, ig, a, m)

LEMMA PassedStep ==
  ASSUME NEW T, NEW a \in Nat \ {0}, NEW i \in Nat \ {0}
  PROVE  /\ Passed(T, a, i) \in Nat
         /\ i <= a => Passed(T, a, i) = 0
         /\ Passed(T, a, i + 1) = Passed(T, a, i) + Count(i \in Placed(T, a))
<1> DEFINE S == Placed(T, a)
           C(n) == Cardinality({j \in 1 .. n : j \in S})
<1>1. Passed(T, a, i) = C(i - 1) /\ Passed(T, a, i + 1) = C(i)
  <2>1. (i + 1) - 1 = i
    OBVIOUS
  <2> QED  BY <2>1 DEF Passed
<1>2. i <= a => {j \in 1 .. i - 1 : j \in S} = {}
  BY DEF Placed
<1> HIDE DEF S
<1>3. C(i - 1) \in Nat /\ C(i) = C(i - 1) + Count(i \in S)
  <2>1. i - 1 \in Nat /\ i \in Nat /\ i # 0
    OBVIOUS
  <2>2. C(i - 1) \in Nat
    BY <2>1, CountUpTo
  <2>3. C(i) = C(i - 1) + Count(i \in S)
    BY <2>1, CountUpTo
  <2> QED  BY <2>2, <2>3
<1>4. i <= a => C(i - 1) = 0
  BY <1>2, FS_EmptySet
<1> HIDE DEF C
<1> QED  BY <1>1, <1>3, <1>4 DEF S

LEMMA FoundHere ==
  ASSUME TypeOK, NEW w, NEW k \in Occurrences(w)
  PROVE  k \in WordRecords /\ Location(k) \in 0 .. MaxValue[3] /\ Flags(k) \in AllFields
<1>1. k \in WordRecords
  BY FoundDocs
<1>2. 2 \in 1 .. N /\ 3 \in 1 .. N /\ 2 \in Fields /\ 3 \in Fields
  BY FieldsAssumption, KeyAssumption DEF Fields, FieldsAssumption, KeyAssumption
<1>3. k[2] \in Nat /\ k[3] \in Nat /\ k[2] <= MaxValue[2] /\ k[3] <= MaxValue[3]
  BY <1>1, <1>2, RecordFacts DEF Keys
<1>4. MaxValue[2] \in Nat /\ MaxValue[3] \in Nat
  BY <1>2, FieldsAssumption DEF FieldsAssumption
<1> QED  BY <1>1, <1>3, <1>4 DEF Location, Flags, AllFields

(* The first word that is looked up. *)
LEMMA FirstSpots ==
  ASSUME TypeOK, NEW T, NEW p \in Nat, T[p + 1].type = "word"
  PROVE  Spots(T, {p + 1}, p + 1, p + 1) = Occurrences(T[p + 1].word)
<1> DEFINE i == p + 1
<1>1. Passed(T, i, i) = 0
  <2>1. i \in Nat \ {0} /\ i <= i
    OBVIOUS
  <2> HIDE DEF i
  <2> QED  BY <2>1, PassedStep
<1>2. ASSUME NEW k \in Occurrences(T[i].word) PROVE k \in Spots(T, {i}, i, i)
  <2>1. Location(k) \in 0 .. MaxValue[3] /\ Location(k) = Location(k) + 0
    BY <1>2, FoundHere
  <2>2. FoundFrom(T, {i}, i, DocID(k), Location(k))
    BY <1>1, <1>2, <2>1 DEF FoundFrom
  <2> QED  BY <1>1, <1>2, <2>1, <2>2 DEF Spots
<1> HIDE DEF i
<1>3. Spots(T, {i}, i, i) \subseteq Occurrences(T[i].word)
  BY DEF Spots
<1> QED  BY <1>2, <1>3 DEF i

(* The next one: it is behind a spot. *)
LEMMA NextSpots ==
  ASSUME TypeOK, NEW T, NEW L \in SUBSET Nat, NEW a \in L, NEW m \in L, NEW q \in Nat, m < q, a # 0,
         NEW ig \in Nat, Passed(T, a, q) = Passed(T, a, m) + 1 + ig
  PROVE  Spots(T, L \union {q}, a, q) =
           {k \in Occurrences(T[q].word) : \E old \in Spots(T, L, a, m) :
              DocID(old) = DocID(k) /\ Location(k) = Location(old) + ig + 1}
<1>0. m # 0 => Passed(T, a, m) \in Nat
  BY PassedStep
<1>1. ASSUME NEW k \in Spots(T, L \union {q}, a, q)
      PROVE  /\ k \in Occurrences(T[q].word)
             /\ \E old \in Spots(T, L, a, m) :
                  DocID(old) = DocID(k) /\ Location(k) = Location(old) + ig + 1
  <2>1. PICK start \in 0 .. MaxValue[3] :
          /\ FoundFrom(T, L \union {q}, a, DocID(k), start) /\ Location(k) = start + Passed(T, a, q)
    BY <1>1 DEF Spots
  <2>2. FoundFrom(T, L, a, DocID(k), start)
    BY <2>1 DEF FoundFrom
  <2>3. PICK o \in Occurrences(T[m].word) :
          DocID(o) = DocID(k) /\ Location(o) = start + Passed(T, a, m)
    BY <2>2 DEF FoundFrom
  <2>4. o \in Spots(T, L, a, m)
    BY <2>2, <2>3 DEF Spots
  <2>5. Location(k) = Location(o) + ig + 1
    <3>1. Location(o) \in Nat /\ start \in Nat
      BY FoundHere
    <3>2. CASE m # 0
      BY <1>0, <2>1, <2>3, <3>1, <3>2
    <3>3. CASE m = 0
      <4>1. Passed(T, a, m) = 0
        <5>1. {j \in 1 .. m - 1 : j \in Placed(T, a)} = {}
          BY <3>3
        <5> QED  BY <5>1, FS_EmptySet DEF Passed
      <4> QED  BY <2>1, <2>3, <3>1, <4>1
    <3> QED  BY <3>2, <3>3
  <2>6. k \in Occurrences(T[q].word)
    BY <1>1 DEF Spots
  <2> QED  BY <2>3, <2>4, <2>5, <2>6
<1>2. ASSUME NEW k \in Occurrences(T[q].word), NEW old \in Spots(T, L, a, m),
             DocID(old) = DocID(k), Location(k) = Location(old) + ig + 1
      PROVE  k \in Spots(T, L \union {q}, a, q)
  <2>1. PICK start \in 0 .. MaxValue[3] :
          /\ FoundFrom(T, L, a, DocID(old), start) /\ Location(old) = start + Passed(T, a, m)
    BY <1>2 DEF Spots
  <2>2. Location(k) = start + Passed(T, a, q)
    <3>1. start \in Nat /\ m \in Nat
      OBVIOUS
    <3>2. Passed(T, a, m) \in Nat
      <4>1. CASE m = 0
        <5>1. {j \in 1 .. m - 1 : j \in Placed(T, a)} = {}
          BY <4>1
        <5> QED  BY <5>1, FS_EmptySet DEF Passed
      <4> QED  BY <1>0, <4>1
    <3> QED  BY <1>2, <2>1, <3>1, <3>2
  <2>3. FoundFrom(T, L \union {q}, a, DocID(k), start)
    <3>1. \E o \in Occurrences(T[q].word) : DocID(o) = DocID(k) /\ Location(o) = start + Passed(T, a, q)
      BY <1>2, <2>2
    <3> QED  BY <1>2, <2>1, <3>1 DEF FoundFrom
  <2> QED  BY <1>2, <2>2, <2>3 DEF Spots
<1>3. Spots(T, L \union {q}, a, q) \subseteq Occurrences(T[q].word)
  BY DEF Spots
<1> QED  BY <1>1, <1>2, <1>3

(* Nothing is found where there was no spot. *)
LEMMA NoSpots ==
  ASSUME NEW T, NEW L, NEW a, NEW m \in L, NEW q, Spots(T, L, a, m) = {}
  PROVE  Spots(T, L \union {q}, a, q) = {}
<1> SUFFICES ASSUME NEW k \in Spots(T, L \union {q}, a, q) PROVE FALSE
  OBVIOUS
<1>1. PICK start \in 0 .. MaxValue[3] : FoundFrom(T, L \union {q}, a, DocID(k), start)
  BY DEF Spots
<1>2. FoundFrom(T, L, a, DocID(k), start)
  BY <1>1 DEF FoundFrom
<1>3. PICK o \in Occurrences(T[m].word) : DocID(o) = DocID(k) /\ Location(o) = start + Passed(T, a, m)
  BY <1>2 DEF FoundFrom
<1>4. o \in Spots(T, L, a, m)
  BY <1>2, <1>3 DEF Spots
<1> QED  BY <1>4

LEMMA AskedStep ==
  ASSUME NEW T, NEW u \in Nat, NEW p \in Nat, u <= p
  PROVE  /\ Asked(T, u, p) \in SUBSET Nat /\ \A i \in Asked(T, u, p) : i > u /\ i <= p
         /\ Asked(T, u, p + 1) = IF T[p + 1].type = "word" THEN Asked(T, u, p) \union {p + 1}
                                 ELSE Asked(T, u, p)
         /\ Asked(T, u, u) = {}
<1>1. \A i : i \in u + 1 .. p + 1 <=> i \in u + 1 .. p \/ i = p + 1
  OBVIOUS
<1>2. Asked(T, u, u) = {}
  BY DEF Asked
<1>3. Asked(T, u, p) \in SUBSET Nat /\ \A i \in Asked(T, u, p) : i > u /\ i <= p
  BY DEF Asked
<1> QED  BY <1>1, <1>2, <1>3 DEF Asked

(* perform_phrase, a word: what its new wordList and ignoredWords say. *)
Passes(t, w, ig, w2, ig2) ==
  t.type # "word" /\ w2 = w /\ ig2 = IF t.type = "bad" /\ w # Null THEN ig + 1 ELSE ig
Begins(t, w, ig, w2, ig2) ==
  t.type = "word" /\ w = Null /\ w2 = ResultList(Occurrences(t.word)) /\ ig2 = ig
GoesOn(t, w, ig, w2, ig2) ==
  /\ t.type = "word" /\ w # Null /\ ig2 = 0
  /\ w2 = ResultList({k \in Occurrences(t.word) : \E old \in w.of :
                        DocID(old) = DocID(k) /\ Location(k) = Location(old) + ig + 1})

LEMMA PhrasePassesRead ==
  ASSUME TypeOK, NEW T, NEW u \in Nat, NEW p \in Nat, u <= p, NEW w, NEW ig, PhraseRead(T, u, p, w, ig),
         T[p + 1].type # "word",
         NEW ig2, ig2 = IF ~(w.kind = "list" /\ w.of = {}) /\ T[p + 1].type = "bad" /\ w # Null
                        THEN ig + 1 ELSE ig
  PROVE  PhraseRead(T, u, p + 1, w, ig2)
<1>1. Asked(T, u, p + 1) = Asked(T, u, p) /\ Asked(T, u, p) \in SUBSET Nat
      /\ \A i \in Asked(T, u, p) : i > u /\ i <= p
  BY AskedStep
<1>2. ig \in Nat /\ ig2 \in Nat
  BY DEF PhraseRead
<1>3. CASE Asked(T, u, p) = {} /\ w = Null /\ ig = 0
  BY <1>1, <1>2, <1>3 DEF PhraseRead
<1>4. CASE \E a, m : IsSpots(T, u, p, w, ig, a, m)
  <2>1. PICK a, m : IsSpots(T, u, p, w, ig, a, m)
    BY <1>4
  <2>2. /\ a \in Asked(T, u, p) /\ m \in Asked(T, u, p) /\ \A i \in Asked(T, u, p) : a <= i /\ i <= m
        /\ w = ResultList(Spots(T, Asked(T, u, p), a, m))
        /\ IF w.of = {} THEN ig = 0 ELSE Passed(T, a, p + 1) = Passed(T, a, m) + 1 + ig
    BY <2>1 DEF IsSpots
  <2>3. w # Null /\ w.kind = "list"
    BY <2>2, ListIsNotIgnored DEF ResultList
  <2>4. IF w.of = {} THEN ig2 = 0 ELSE Passed(T, a, (p + 1) + 1) = Passed(T, a, m) + 1 + ig2
    <3>1. CASE w.of = {}
      BY <2>2, <2>3, <3>1
    <3>2. CASE w.of # {}
      <4>1. a \in Nat \ {0} /\ m \in Nat \ {0} /\ p + 1 \in Nat \ {0} /\ a <= p
        BY <1>1, <2>2
      <4>2. Passed(T, a, m) \in Nat /\ Passed(T, a, p + 1) \in Nat
            /\ Passed(T, a, (p + 1) + 1) = Passed(T, a, p + 1) + Count(p + 1 \in Placed(T, a))
        BY <4>1, PassedStep
      <4>3. p + 1 \in Placed(T, a) <=> T[p + 1].type = "bad"
        BY <4>1 DEF Placed
      <4>4. Count(p + 1 \in Placed(T, a)) = IF T[p + 1].type = "bad" THEN 1 ELSE 0
        BY <4>3, Zenon DEF Count
      <4>5. ig2 = IF T[p + 1].type = "bad" THEN ig + 1 ELSE ig
        BY <2>3, <3>2
      <4> QED  BY <1>2, <2>2, <3>2, <4>2, <4>4, <4>5
    <3> QED  BY <3>1, <3>2
  <2>5. IsSpots(T, u, p + 1, w, ig2, a, m)
    BY <1>1, <2>2, <2>4 DEF IsSpots
  <2> QED  BY <1>2, <2>5 DEF PhraseRead
<1> QED  BY <1>3, <1>4 DEF PhraseRead

LEMMA PhraseWordRead ==
  ASSUME TypeOK, NEW T, NEW u \in Nat, NEW p \in Nat, u <= p, NEW w, NEW ig, PhraseRead(T, u, p, w, ig),
         T[p + 1].type = "word", NEW w2, NEW ig2,
         IF w.kind = "list" /\ w.of = {} THEN w2 = w /\ ig2 = ig
         ELSE Begins(T[p + 1], w, ig, w2, ig2) \/ GoesOn(T[p + 1], w, ig, w2, ig2)
  PROVE  PhraseRead(T, u, p + 1, w2, ig2)
<1> DEFINE q == p + 1
           L == Asked(T, u, p)
<1>1. Asked(T, u, q) = L \union {q} /\ L \in SUBSET Nat /\ \A i \in L : i > u /\ i <= p
  BY AskedStep
<1>2. ig \in Nat /\ q \in Nat \ {0} /\ q \in Asked(T, u, q) /\ q > p
  BY <1>1 DEF PhraseRead
<1>3. ASSUME NEW a \in Nat \ {0}, a <= q
      PROVE  Passed(T, a, q) \in Nat /\ Passed(T, a, q + 1) = Passed(T, a, q) + 1
  <2>1. q \in Placed(T, a)
    BY <1>2, <1>3 DEF Placed
  <2>2. Count(q \in Placed(T, a)) = 1
    BY <2>1, Zenon DEF Count
  <2> HIDE DEF q
  <2> QED  BY <1>2, <2>2, PassedStep
<1> HIDE DEF q, L
<1>4. CASE L = {} /\ w = Null /\ ig = 0
  <2>1. w2 = ResultList(Occurrences(T[q].word)) /\ ig2 = 0
    BY <1>4, ListIsNotIgnored DEF Begins, GoesOn, q, Null
  <2>2. Asked(T, u, q) = {q}
    BY <1>1, <1>4
  <2>3. Spots(T, {q}, q, q) = Occurrences(T[q].word)
    BY FirstSpots DEF q
  <2>4. Passed(T, q, q) \in Nat /\ Passed(T, q, q + 1) = Passed(T, q, q) + 1 + 0
    BY <1>2, <1>3
  <2>5. IsSpots(T, u, q, w2, ig2, q, q)
    BY <1>2, <2>1, <2>2, <2>3, <2>4 DEF IsSpots
  <2> QED  BY <2>1, <2>5 DEF PhraseRead, q
<1>5. CASE \E a, m : IsSpots(T, u, p, w, ig, a, m)
  <2>1. PICK a, m : IsSpots(T, u, p, w, ig, a, m)
    BY <1>5
  <2>2. /\ a \in L /\ m \in L /\ \A i \in L : a <= i /\ i <= m
        /\ w = ResultList(Spots(T, L, a, m))
        /\ IF w.of = {} THEN ig = 0 ELSE Passed(T, a, p + 1) = Passed(T, a, m) + 1 + ig
    BY <2>1 DEF IsSpots, L
  <2>3. w # Null /\ w.kind = "list" /\ w.of = Spots(T, L, a, m)
    BY <2>2, ListIsNotIgnored DEF ResultList
  <2>4. a \in Nat \ {0} /\ m \in Nat \ {0} /\ a <= q /\ m < q
    BY <1>1, <1>2, <2>2 DEF q
  <2>5. w2 = ResultList(Spots(T, L \union {q}, a, q)) /\ ig2 = 0
    <3>1. CASE w.of = {}
      <4>1. w2 = w /\ ig2 = 0
        BY <2>2, <2>3, <3>1
      <4>2. Spots(T, L \union {q}, a, q) = {}
        BY <2>2, <2>3, <3>1, NoSpots
      <4> QED  BY <2>2, <2>3, <3>1, <4>1, <4>2
    <3>2. CASE w.of # {}
      <4>1. GoesOn(T[q], w, ig, w2, ig2)
        BY <2>3, <3>2 DEF Begins, q
      <4>2. Passed(T, a, q) = Passed(T, a, m) + 1 + ig
        BY <2>2, <3>2 DEF q
      <4>3. Spots(T, L \union {q}, a, q) =
              {k \in Occurrences(T[q].word) : \E old \in Spots(T, L, a, m) :
                 DocID(old) = DocID(k) /\ Location(k) = Location(old) + ig + 1}
        BY <1>1, <1>2, <2>2, <2>4, <4>2, NextSpots
      <4> QED  BY <2>3, <4>1, <4>3 DEF GoesOn
    <3> QED  BY <3>1, <3>2
  <2>6. Passed(T, a, q) \in Nat /\ Passed(T, a, q + 1) = Passed(T, a, q) + 1 + 0
    BY <1>3, <2>4
  <2>7. \A i \in L \union {q} : a <= i /\ i <= q
    BY <1>1, <1>2, <2>2, <2>4
  <2>8. IsSpots(T, u, q, w2, ig2, a, q)
    BY <1>1, <1>2, <2>2, <2>5, <2>6, <2>7 DEF IsSpots
  <2> QED  BY <2>5, <2>8 DEF PhraseRead, q
<1> QED  BY <1>4, <1>5 DEF PhraseRead, L

(* PhraseEnds *)
LEMMA PhraseIsRead ==
  ASSUME TypeOK, NEW T, Len(T) \in Nat, NEW u, NEW p, Quoting(T, u, p), p < Len(T), T[p + 1].type = "quote",
         NEW w, NEW ig, PhraseRead(T, u, p, w, ig), PhrasesEnd(T), DOMAIN T = 1 .. Len(T)
  PROVE  ig = 0 /\ Denotes(score(w.of, AllFields), ResultList(PhraseMeaning(T, u)))
<1> DEFINE L == Asked(T, u, p)
<1>1. Phrase(T, u) = u + 1 .. p
  BY QuoteEnds
<1>2. LookedUp(T, u) = L
  BY <1>1 DEF LookedUp, Asked
<1>3. u \in Nat \ {0} /\ p \in Nat /\ u <= p /\ L \in SUBSET Nat /\ \A i \in L : i > u /\ i <= p
  <2>1. u \in Nat \ {0} /\ p \in Nat /\ u <= p
    BY DEF Quoting
  <2> QED  BY <2>1, AskedStep
<1> HIDE DEF L
<1>4. CASE L = {} /\ w = Null /\ ig = 0
  <2>1. PhraseMeaning(T, u) = {}
    BY <1>2, <1>4 DEF PhraseMeaning
  <2>2. score(w.of, AllFields) = Null
    BY <1>4, ListIsNotIgnored DEF score
  <2> QED  BY <1>4, <2>1, <2>2, ListIsNotIgnored DEF Denotes, Stands, IsResult, IsMeaning
<1>5. CASE \E a, m : IsSpots(T, u, p, w, ig, a, m)
  <2>1. PICK a, m : IsSpots(T, u, p, w, ig, a, m)
    BY <1>5
  <2>2. /\ a \in L /\ m \in L /\ \A i \in L : a <= i /\ i <= m
        /\ w.of = Spots(T, L, a, m)
        /\ IF w.of = {} THEN ig = 0 ELSE Passed(T, a, p + 1) = Passed(T, a, m) + 1 + ig
    BY <2>1, ListIsNotIgnored DEF IsSpots, L
  <2>3. a \in Nat \ {0} /\ m \in Nat \ {0} /\ a <= m /\ m <= p /\ m > u
    BY <1>3, <2>2
  <2>4. ig = 0
    <3>1. ASSUME NEW i \in m + 1 .. p PROVE T[i].type \notin {"word", "bad"}
      <4>1. i \in Nat /\ i \in Phrase(T, u) /\ ~(i <= m)
        BY <1>1, <1>3, <2>3
      <4>2. T[i].type # "word"
        <5>1. i \notin L
          BY <2>2, <4>1
        <5>2. i \in u + 1 .. p
          BY <1>3, <2>3
        <5> QED  BY <5>1, <5>2 DEF Asked, L
      <4>3. T[i].type # "bad"
        <5>1. u \in DOMAIN T /\ T[u].type = "quote" /\ InPhrase(T, u)
          <6>1. u \in u .. p
            BY <1>3
          <6> QED  BY <6>1 DEF Quoting
        <5>2. T[i].type = "bad" => (\A j \in L : j > i) \/ \E j \in L : j > i
          BY <1>2, <4>1, <5>1 DEF PhrasesEnd
        <5>3. \A j \in L : ~(j > i)
          BY <1>3, <2>2, <4>1
        <5> QED  BY <2>2, <5>2, <5>3
      <4> QED  BY <4>2, <4>3
    <3>2. Passed(T, a, p + 1) = Passed(T, a, m + 1)
      <4>1. {j \in 1 .. (p + 1) - 1 : j \in Placed(T, a)} = {j \in 1 .. (m + 1) - 1 : j \in Placed(T, a)}
        <5>1. \A j \in 1 .. p : j \in 1 .. m \/ j \in m + 1 .. p
          BY <1>3, <2>3
        <5>2. \A j \in m + 1 .. p : j \notin Placed(T, a)
          BY <3>1 DEF Placed
        <5>3. \A j \in 1 .. m : j \in 1 .. p
          BY <1>3, <2>3
        <5>4. (p + 1) - 1 = p /\ (m + 1) - 1 = m
          BY <1>3, <2>3
        <5> QED  BY <5>1, <5>2, <5>3, <5>4
      <4> QED  BY <4>1 DEF Passed
    <3>3. Passed(T, a, m) \in Nat /\ Passed(T, a, m + 1) = Passed(T, a, m) + 1
      <4>1. m \in Placed(T, a)
        BY <2>2, <2>3 DEF Placed, Asked, L
      <4>2. Count(m \in Placed(T, a)) = 1
        BY <4>1, Zenon DEF Count
      <4> QED  BY <2>3, <4>2, PassedStep
    <3>4. ig \in Nat
      BY DEF PhraseRead
    <3> QED  BY <2>2, <3>2, <3>3, <3>4
  <2>5. ASSUME NEW i \in L PROVE Place(T, u, i) = Passed(T, a, i)
    <3>1. Least(LookedUp(T, u)) = a
      <4>1. L # {}
        BY <2>2
      <4>2. Least(L) \in L /\ \A j \in L : Least(L) <= j
        BY <1>3, <4>1, LeastExists
      <4>3. PICK x : x = Least(L)
        OBVIOUS
      <4>4. x <= a /\ a <= x /\ x \in Nat /\ a \in Nat
        BY <1>3, <2>2, <4>2, <4>3
      <4>5. x = a
        BY <4>4
      <4> QED  BY <1>2, <4>3, <4>5
    <3>2. {j \in a .. i - 1 : T[j].type \in {"word", "bad"}} = {j \in 1 .. i - 1 : j \in Placed(T, a)}
      <4>1. i \in Nat
        BY <1>3
      <4> QED  BY <2>3, <4>1 DEF Placed
    <3> QED  BY <3>1, <3>2 DEF Place, Passed
  <2>6. PhraseMeaning(T, u) = {DocID(k) : k \in Spots(T, L, a, m)}
    <3>1. ASSUME NEW d \in PhraseMeaning(T, u) PROVE d \in {DocID(k) : k \in Spots(T, L, a, m)}
      <4>1. PICK start \in 0 .. MaxValue[3] : \A i \in L :
              \E k \in Occurrences(T[i].word) : DocID(k) = d /\ Location(k) = start + Place(T, u, i)
        BY <1>2, <3>1 DEF PhraseMeaning
      <4>2. FoundFrom(T, L, a, d, start)
        BY <2>5, <4>1 DEF FoundFrom
      <4>3. PICK k \in Occurrences(T[m].word) : DocID(k) = d /\ Location(k) = start + Passed(T, a, m)
        BY <2>2, <4>2 DEF FoundFrom
      <4>4. k \in Spots(T, L, a, m)
        BY <4>2, <4>3 DEF Spots
      <4> QED  BY <4>3, <4>4
    <3>2. ASSUME NEW k \in Spots(T, L, a, m) PROVE DocID(k) \in PhraseMeaning(T, u)
      <4>1. PICK start \in 0 .. MaxValue[3] : FoundFrom(T, L, a, DocID(k), start)
        BY <3>2 DEF Spots
      <4>2. \A i \in L : \E o \in Occurrences(T[i].word) :
              DocID(o) = DocID(k) /\ Location(o) = start + Place(T, u, i)
        BY <2>5, <4>1 DEF FoundFrom
      <4>3. DocID(k) \in {DocID(o) : o \in index \ StatRecords}
        BY <3>2 DEF Spots, Occurrences
      <4>4. LookedUp(T, u) # {}
        BY <1>2, <2>2
      <4> QED  BY <1>2, <4>2, <4>3, <4>4 DEF PhraseMeaning
    <3> QED  BY <3>1, <3>2
  <2>7. score(w.of, AllFields).of = {DocID(k) : k \in w.of} /\ IsResult(score(w.of, AllFields))
        /\ score(w.of, AllFields) # Ignored
    <3>1. \A k \in w.of : Flags(k) \in AllFields
      <4>1. \A k \in w.of : k \in Occurrences(T[m].word)
        BY <2>2 DEF Spots
      <4> QED  BY <4>1, FoundHere
    <3>2. {o \in w.of : Flags(o) \in AllFields} = w.of
      BY <3>1
    <3>3. w.of = {} => {DocID(k) : k \in w.of} = {}
      OBVIOUS
    <3> QED  BY <3>2, <3>3, ListIsNotIgnored DEF score, IsResult, IsMeaning
  <2>8. Denotes(score(w.of, AllFields), ResultList(PhraseMeaning(T, u)))
    BY <2>2, <2>6, <2>7, ListIsNotIgnored DEF Denotes, Stands, IsMeaning
  <2> QED  BY <2>4, <2>8
<1> QED  BY <1>4, <1>5 DEF PhraseRead, L

----------------------------------------------------------------------------
(* Reading a text *)

Text == addRequiredWords(setupWords(Queries[query]), Queries[query].keywords)

(* What the words and phrases of a text mean that was set up. *)
FoundWith(t) == {DocID(k) : k \in {o \in Occurrences(t.word) : Flags(o) \in t.fields}}

ReadLeaf(T) ==
  [i \in DOMAIN T |->
     CASE T[i].type = "quote" -> ResultList(PhraseMeaning(T, i))
       [] T[i].type = "word" -> ResultList(FoundWith(T[i]))
       [] T[i].type = "*" -> ResultList(Recorded)
       [] OTHER -> Ignored]

TextMeaning == Meaning(Text, ReadLeaf(Text))

AllReadable == \A i \in DOMAIN Queries :
                 Readable(addRequiredWords(setupWords(Queries[i]), Queries[i].keywords))

InPhraseAt(T, M, c, s, w, ig, p) ==
  \E u : Quoting(T, u, p) /\ Reading(T, M, c, s, u - 1) /\ PhraseRead(T, u, p, w, ig)

ReadUpTo(T, M, p) ==
  /\ p \in 0 .. Len(T) /\ tokens = Rest(T, p)
  /\ step = "factor" => Reading(T, M, calls, stack, p)
  /\ step = "term" => Read(T, M, calls, stack, p)
  /\ step = "phrase" => InPhraseAt(T, M, calls, stack, wordList, ignoredWords, p)

ReadInv ==
  /\ step # "phrase" => ignoredWords = 0
  /\ step # "idle" => query \in DOMAIN Queries
  /\ step \notin {"idle", "parsed"} =>
       \E T, M, p : T = Text /\ M = TextMeaning /\ ReadUpTo(T, M, p)
  /\ step = "parsed" => matches = TextMeaning[<<1, Len(Text)>>].of \intersect Normal

LEMMA ReadableFacts ==
  ASSUME NEW T, Readable(T)
  PROVE  /\ Len(T) \in Nat /\ DOMAIN T = 1 .. Len(T)
         /\ \A i \in 1 .. Len(T) : T[i] \in Tokens
         /\ Means(T, ReadLeaf(T), Meaning(T, ReadLeaf(T)))
         /\ NoneIgnored(T, Meaning(T, ReadLeaf(T)))
<1>1. T \in Seq(Tokens)
  BY DEF Readable
<1>2. Len(T) \in Nat /\ DOMAIN T = 1 .. Len(T) /\ \A i \in 1 .. Len(T) : T[i] \in Tokens
  BY <1>1
<1>3. Means(T, ReadLeaf(T), Meaning(T, ReadLeaf(T)))
  BY <1>2, MeaningIs DEF Means
<1>4. NoneIgnored(T, Meaning(T, ReadLeaf(T)))
  <2> DEFINE kind == [i \in DOMAIN T |->
               IF T[i].type \in {"quote", "word", "*"} THEN ResultList({}) ELSE Ignored]
  <2>1. ASSUME NEW i \in 1 .. Len(T)
        PROVE  /\ IsMeaning(ReadLeaf(T)[i]) /\ IsMeaning(kind[i])
               /\ ReadLeaf(T)[i] = Ignored <=> kind[i] = Ignored
    BY <1>2, ListIsNotIgnored DEF ReadLeaf, IsMeaning
  <2> HIDE DEF kind
  <2>2. \A part \in Parts(T) :
          Meaning(T, ReadLeaf(T))[part] = Ignored <=> Meaning(T, kind)[part] = Ignored
    BY <1>2, <2>1, MeaningKinds
  <2>3. ASSUME NEW i, NEW j, Alternative(T, i, j) PROVE Meaning(T, kind)[<<i, j>>] # Ignored
    <3>1. /\ i \in 2 .. Len(T) /\ j \in 2 .. Len(T) - 1
          /\ i <= j /\ ~InPhrase(T, i - 1) /\ ~InPhrase(T, j)
          /\ Depth(T, j) = Depth(T, i - 1)
          /\ \A k \in i .. j : Depth(T, k) >= Depth(T, i - 1)
          /\ T[i - 1].type \in {"(", "|"} /\ T[j + 1].type \in {")", "|"}
          /\ "|" \in {T[i - 1].type, T[j + 1].type} /\ Depth(T, j) > 0
      BY <2>3 DEF Alternative
    <3>2. PICK part : part = <<i, j>>
      OBVIOUS
    <3>3. part \in (2 .. Len(T)) \X (2 .. Len(T) - 1) /\ part[1] = i /\ part[2] = j
      BY <3>1, <3>2
    <3>4. Meaning(T, kind)[part] # Ignored
      BY <3>1, <3>3, Zenon DEF Readable, AlternativesFound, kind
    <3> QED  BY <3>2, <3>4
  <2>4. ASSUME NEW i, NEW j, Alternative(T, i, j) PROVE <<i, j>> \in Parts(T)
    <3>1. i \in 2 .. Len(T) /\ j \in 2 .. Len(T) - 1
      BY <2>4 DEF Alternative
    <3> QED  BY <1>2, <3>1 DEF Parts
  <2> QED  BY <2>2, <2>3, <2>4 DEF NoneIgnored
<1> QED  BY <1>2, <1>3, <1>4

LEMMA ReadingFacts ==
  ASSUME NEW T, NEW M, NEW c \in Seq(Calls), c # <<>>, NEW s, NEW p, Reading(T, M, c, s, p)
  PROVE  ~InPhrase(T, p)
<1>1. PICK F : Frames(T, M, c, s, F, p)
  BY DEF Reading
<1> QED  BY <1>1, LastFrame DEF Frame

LEMMA ReadFacts ==
  ASSUME NEW T, Len(T) \in Nat, NEW M, NEW c \in Seq(Calls), c # <<>>, NEW s, NEW i, Read(T, M, c, s, i)
  PROVE  ~InPhrase(T, i) /\ OperandEnds(T, i)
<1>1. PICK F, p, n, e, f : LastRead(T, M, c, s, F, p, i, n, e, f)
  BY ReadIs
<1> QED  BY <1>1 DEF LastRead, Behind

(* factor, at a word *)
LEMMA WordIsRead ==
  ASSUME TypeOK, NEW T, Readable(T), NEW M, M = Meaning(T, ReadLeaf(T)),
         NEW c \in Seq(Calls), c # <<>>, NEW s \in Seq(Operands),
         NEW p \in 0 .. Len(T) - 1, Reading(T, M, c, s, p), IsWord(T[p + 1])
  PROVE  Read(T, M, c, Append(s, perform_push(T[p + 1])), p + 1)
<1>1. Len(T) \in Nat /\ DOMAIN T = 1 .. Len(T) /\ Means(T, ReadLeaf(T), M) /\ p \in Nat
  BY ReadableFacts
<1>2. ~InPhrase(T, p)
  BY ReadingFacts
<1>3. PICK q, v : q = p + 1 /\ v = perform_push(T[q])
  OBVIOUS
<1>4. q \in Nat /\ q \in p + 1 .. Len(T) /\ q \in 1 .. Len(T) /\ q \in q .. Len(T) /\ q - 1 = p
  BY <1>1, <1>3
<1>5. T[q].type \in {"word", "bad", "short", "*"}
  BY <1>3 DEF IsWord
<1>6. ~InPhrase(T, q) /\ Depth(T, q) = Depth(T, p)
  BY <1>1, <1>2, <1>3, <1>5, NextWord
<1>7. OperandEnds(T, q)
  BY <1>3, <1>4 DEF OperandEnds
<1>8. At(T, q, q, Operators, Depth(T, p)) = {}
  <2>1. \A k \in q .. q : k = q
    BY <1>4
  <2> QED  BY <1>5, <2>1 DEF At, Operators
<1>9. M[<<q, q>>] = ReadLeaf(T)[q]
  <2>1. Depth(T, p) = Depth(T, q - 1) /\ T[q].type # "("
    BY <1>4, <1>5
  <2>2. PICK leaf : leaf = ReadLeaf(T)
    OBVIOUS
  <2>3. Len(T) \in Nat /\ Means(T, leaf, M) /\ q \in 1 .. Len(T) /\ q \in q .. Len(T)
    BY <1>1, <1>4, <2>2
  <2>4. M[<<q, q>>] = leaf[q]
    BY <1>8, <2>1, <2>3, IsLeaf
  <2> QED  BY <2>2, <2>4
<1>10. v \in Operands
  BY <1>3, PushIsOperand
<1>11. Denotes(v, ReadLeaf(T)[q])
  <2>1. ReadLeaf(T)[q] = CASE T[q].type = "quote" -> ResultList(PhraseMeaning(T, q))
                           [] T[q].type = "word" -> ResultList(FoundWith(T[q]))
                           [] T[q].type = "*" -> ResultList(Recorded)
                           [] OTHER -> Ignored
    BY <1>1, <1>4 DEF ReadLeaf
  <2>2. CASE T[q].type = "*"
    BY <1>3, <2>1, <2>2, ListIsNotIgnored DEF perform_push, Denotes, Stands, IsResult, IsMeaning
  <2>3. CASE T[q].type \in {"bad", "short"}
    BY <1>3, <2>1, <2>3, ListIsNotIgnored DEF perform_push, Denotes, Stands, IsResult, IsMeaning
  <2>4. CASE T[q].type = "word"
    <3>1. v = score(Occurrences(T[q].word), T[q].fields) /\ ReadLeaf(T)[q] = ResultList(FoundWith(T[q]))
      BY <1>3, <2>1, <2>4 DEF perform_push
    <3>2. Occurrences(T[q].word) = {} => FoundWith(T[q]) = {}
      BY DEF FoundWith
    <3>3. Occurrences(T[q].word) # {} => v = ResultList(FoundWith(T[q]))
      BY <3>1 DEF score, FoundWith
    <3>4. Occurrences(T[q].word) = {} => v = Null
      BY <3>1 DEF score
    <3> QED  BY <3>1, <3>2, <3>3, <3>4, ListIsNotIgnored DEF Denotes, Stands, IsResult, IsMeaning
  <2> QED  BY <1>5, <2>2, <2>3, <2>4
<1>12. \A k \in p + 1 .. q : Depth(T, k) = Depth(T, p)
  <2>1. \A k \in p + 1 .. q : k = q
    BY <1>3, <1>4
  <2> QED  BY <1>6, <2>1
<1>13. At(T, p + 1, q, Operators, Depth(T, p)) = {} /\ Denotes(v, M[<<p + 1, q>>])
  BY <1>3, <1>8, <1>9, <1>11
<1>14. Read(T, M, c, Append(s, v), q)
  BY <1>1, <1>4, <1>6, <1>7, <1>10, <1>12, <1>13, ReadsFactor, SMTT(60)
<1> QED  BY <1>3, <1>14

(* factor, behind a phrase *)
LEMMA PhraseOperandRead ==
  ASSUME TypeOK, NEW T, Readable(T), NEW M, M = Meaning(T, ReadLeaf(T)),
         NEW c \in Seq(Calls), c # <<>>, NEW s \in Seq(Operands),
         NEW w, w.of \subseteq WordRecords, NEW ig,
         NEW p \in 0 .. Len(T) - 1, InPhraseAt(T, M, c, s, w, ig, p), T[p + 1].type = "quote"
  PROVE  ig = 0 /\ Read(T, M, c, Append(s, score(w.of, AllFields)), p + 1)
<1>1. Len(T) \in Nat /\ DOMAIN T = 1 .. Len(T) /\ Means(T, ReadLeaf(T), M) /\ p \in Nat /\ p < Len(T)
  BY ReadableFacts
<1>2. PICK u : Quoting(T, u, p) /\ Reading(T, M, c, s, u - 1) /\ PhraseRead(T, u, p, w, ig)
  BY DEF InPhraseAt
<1>3. PICK q, o, v : q = p + 1 /\ o = u - 1 /\ v = score(w.of, AllFields)
  OBVIOUS
<1>4. /\ q \in Nat /\ o \in Nat /\ o + 1 = u /\ q \in o + 1 .. Len(T) /\ u \in 1 .. Len(T)
      /\ q \in u .. Len(T) /\ T[u].type = "quote"
  <2>1. u \in 1 .. Len(T) /\ p \in u .. Len(T) /\ T[u].type = "quote"
    BY <1>2 DEF Quoting
  <2> QED  BY <1>1, <1>3, <2>1
<1>5. /\ ~InPhrase(T, q) /\ \A k \in u .. q : Depth(T, k) = Depth(T, o)
      /\ \A d : At(T, u, q, Operators, d) = {}
  BY <1>1, <1>2, <1>3, QuoteEnds
<1>6. ig = 0 /\ Denotes(v, ResultList(PhraseMeaning(T, u)))
  BY <1>1, <1>2, <1>3, PhraseIsRead DEF Readable
<1>7. v \in Operands
  BY <1>3, ScoreIsOperand
<1>8. M[<<u, q>>] = ResultList(PhraseMeaning(T, u))
  <2>1. M[<<u, q>>] = ReadLeaf(T)[u]
    <3>1. /\ Depth(T, o) = Depth(T, u - 1) /\ T[u].type # "("
          /\ At(T, u, q, Operators, Depth(T, o)) = {}
      BY <1>3, <1>4, <1>5
    <3>2. PICK leaf : leaf = ReadLeaf(T)
      OBVIOUS
    <3>3. Len(T) \in Nat /\ Means(T, leaf, M) /\ u \in 1 .. Len(T) /\ q \in u .. Len(T)
      BY <1>1, <1>4, <3>2
    <3>4. M[<<u, q>>] = leaf[u]
      BY SMTT(30), <3>1, <3>3, IsLeaf
    <3> QED  BY <3>2, <3>4
  <2>2. ReadLeaf(T)[u] = ResultList(PhraseMeaning(T, u))
    BY <1>1, <1>4 DEF ReadLeaf
  <2> QED  BY <2>1, <2>2
<1>9. OperandEnds(T, q)
  BY <1>1, <1>3 DEF OperandEnds
<1>10. /\ Reading(T, M, c, s, o) /\ \A k \in o + 1 .. q : Depth(T, k) = Depth(T, o)
       /\ At(T, o + 1, q, Operators, Depth(T, o)) = {} /\ Denotes(v, M[<<o + 1, q>>])
  BY <1>2, <1>3, <1>4, <1>5, <1>6, <1>8
<1>11. Read(T, M, c, Append(s, v), q)
  BY <1>1, <1>4, <1>5, <1>7, <1>9, <1>10, ReadsFactor, SMTT(60)
<1> QED  BY <1>3, <1>6, <1>11

(* Nothing of what a text means changes while it is read. *)
LEMMA MeaningStays ==
  ASSUME UNCHANGED vars, NEW T
  PROVE  /\ \A L, a, m : Spots(T, L, a, m)' = Spots(T, L, a, m)
         /\ ReadLeaf(T)' = ReadLeaf(T)
<1>1. index' = index
  BY DEF vars
<1>2. \A w : Occurrences(w)' = Occurrences(w)
  BY <1>1 DEF Occurrences
<1>3. ASSUME NEW L, NEW a, NEW m PROVE Spots(T, L, a, m)' = Spots(T, L, a, m)
  BY <1>2 DEF Spots, FoundFrom
<1>4. ASSUME NEW i PROVE PhraseMeaning(T, i)' = PhraseMeaning(T, i)
  BY <1>1, <1>2 DEF PhraseMeaning
<1>5. ASSUME NEW t PROVE FoundWith(t)' = FoundWith(t)
  BY <1>2 DEF FoundWith
<1>6. ReadLeaf(T)' = ReadLeaf(T)
  BY <1>4, <1>5 DEF ReadLeaf
<1> QED  BY <1>3, <1>6

LEMMA TextStays ==
  ASSUME query' = query, UNCHANGED vars
  PROVE  Text' = Text /\ TextMeaning' = TextMeaning
<1>1. Text' = Text
  BY Zenon DEF Text
<1>2. PICK T : T = Text
  OBVIOUS
<1>3. ReadLeaf(T)' = ReadLeaf(T)
  BY MeaningStays
<1>4. Meaning(T, ReadLeaf(T)') = Meaning(T, ReadLeaf(T))
  BY <1>3
<1>5. TextMeaning = Meaning(T, ReadLeaf(T))
  BY <1>2 DEF TextMeaning
<1>6. TextMeaning' = Meaning(T, ReadLeaf(T)')
  BY <1>1, <1>2 DEF TextMeaning
<1> QED  BY <1>1, <1>4, <1>5, <1>6

LEMMA PhraseStays ==
  ASSUME UNCHANGED vars, NEW T, NEW M, NEW c, NEW s, NEW w, NEW ig, NEW p, InPhraseAt(T, M, c, s, w, ig, p)
  PROVE  InPhraseAt(T, M, c, s, w, ig, p)'
<1>1. PICK u : Quoting(T, u, p) /\ Reading(T, M, c, s, u - 1) /\ PhraseRead(T, u, p, w, ig)
  BY DEF InPhraseAt
<1>2. \A L, a, m : Spots(T, L, a, m)' = Spots(T, L, a, m)
  BY MeaningStays
<1>3. PhraseRead(T, u, p, w, ig)'
  <2>1. \A a, m : IsSpots(T, u, p, w, ig, a, m) => IsSpots(T, u, p, w, ig, a, m)'
    BY <1>2 DEF IsSpots
  <2> QED  BY <1>1, <2>1 DEF PhraseRead
<1> QED  BY <1>1, <1>3 DEF InPhraseAt

(* A step that goes on reading. *)
LEMMA GoesOnReading ==
  ASSUME query \in DOMAIN Queries, query' = query, UNCHANGED vars,
         step' \in {"factor", "term", "phrase"}, step' # "phrase" => ignoredWords' = 0,
         NEW q, q \in 0 .. Len(Text), tokens' = Rest(Text, q),
         step' = "factor" => Reading(Text, TextMeaning, calls', stack', q),
         step' = "term" => Read(Text, TextMeaning, calls', stack', q),
         step' = "phrase" => InPhraseAt(Text, TextMeaning, calls', stack', wordList', ignoredWords', q)
  PROVE  ReadInv'
<1>1. Text' = Text /\ TextMeaning' = TextMeaning
  BY TextStays
<1>2. PICK T, M : T = Text /\ M = TextMeaning
  OBVIOUS
<1>3. ReadUpTo(T, M, q)'
  <2>1. PICK c, s, w, ig : c = calls' /\ s = stack' /\ w = wordList' /\ ig = ignoredWords'
    OBVIOUS
  <2>2. step' = "phrase" => InPhraseAt(T, M, c, s, w, ig, q)
    BY <1>2, <2>1
  <2>3. step' = "phrase" => InPhraseAt(T, M, c, s, w, ig, q)'
    BY <2>2, PhraseStays
  <2>4. step' = "phrase" => InPhraseAt(T, M, calls, stack, wordList, ignoredWords, q)'
    BY <2>1, <2>3 DEF InPhraseAt, PhraseRead, IsSpots
  <2> QED  BY <1>2, <2>4 DEF ReadUpTo
<1>4. T = Text' /\ M = TextMeaning'
  BY <1>1, <1>2
<1>5. query' \in DOMAIN Queries /\ step' \notin {"idle", "parsed"}
  OBVIOUS
<1> QED  BY <1>3, <1>4, <1>5 DEF ReadInv

LEMMA LookaheadIs ==
  ASSUME NEW T \in Seq(Tokens), NEW p \in 0 .. Len(T), tokens = Rest(T, p)
  PROVE  /\ tokens = <<>> <=> p = Len(T)
         /\ \A type : Lookahead(type) <=> p < Len(T) /\ T[p + 1].type = type
         /\ p < Len(T) => Head(tokens) = T[p + 1] /\ Tail(tokens) = Rest(T, p + 1)
                          /\ p + 1 \in 0 .. Len(T) /\ p \in 0 .. Len(T) - 1
<1>1. /\ tokens = <<>> <=> p = Len(T)
      /\ p < Len(T) => Head(tokens) = T[p + 1] /\ Tail(tokens) = Rest(T, p + 1)
  BY RestFacts
<1>2. p < Len(T) <=> p # Len(T)
  OBVIOUS
<1> QED  BY <1>1, <1>2 DEF Lookahead

LEMMA ReadStep ==
  ASSUME AllReadable, TypeOK, StackInv, ReadInv, [NextSearch]_searchVars
  PROVE  ReadInv'
<1>1. CASE UNCHANGED parserVars /\ (step = "idle" \/ UNCHANGED vars)
  <2>1. CASE step = "idle"
    BY <1>1, <2>1 DEF ReadInv, parserVars
  <2>2. CASE UNCHANGED vars
    <3>1. Text' = Text /\ TextMeaning' = TextMeaning
      BY <1>1, <2>2, TextStays DEF parserVars
    <3>2. CASE step \in {"idle", "parsed"}
      BY <1>1, <3>1, <3>2 DEF ReadInv, parserVars
    <3>3. CASE step \notin {"idle", "parsed"}
      <4>1. PICK T, M, p : T = Text /\ M = TextMeaning /\ ReadUpTo(T, M, p) /\ query \in DOMAIN Queries
        BY <3>3 DEF ReadInv
      <4>3. ReadUpTo(Text, TextMeaning, p)
        BY <4>1
      <4>2. step \in {"factor", "term", "phrase"} /\ (step # "phrase" => ignoredWords = 0)
        BY <3>3 DEF ReadInv, StackInv
      <4> QED  BY <1>1, <2>2, <4>1, <4>2, <4>3, GoesOnReading DEF ReadUpTo, parserVars
    <3> QED  BY <3>2, <3>3
  <2> QED  BY <1>1, <2>1, <2>2
<1>2. CASE Ask /\ UNCHANGED vars
  <2>1. /\ query' \in DOMAIN Queries /\ calls' = <<NewCall>> /\ stack' = stack /\ step' = "factor"
        /\ ignoredWords' = ignoredWords /\ step = "idle" /\ tokens' = Text'
    BY <1>2 DEF Ask, Text
  <2>2. stack = <<>>
    <3>1. Len(stack) = 0 /\ stack \in Seq(Operands)
      BY <2>1, PendingNone DEF StackInv
    <3> QED  BY <3>1, EmptySeq
  <2>3. PICK T, M : T = Text' /\ M = TextMeaning'
    OBVIOUS
  <2>4. T \in Seq(Tokens)
    BY <2>1, <2>3 DEF AllReadable, Readable, Text
  <2>5. Len(T) \in Nat /\ 0 \in 0 .. Len(T) /\ Rest(T, 0) = T
    BY <2>4, RestFacts
  <2>6. ReadUpTo(T, M, 0)'
    BY <2>1, <2>2, <2>3, <2>5, ReadsFirst DEF ReadUpTo
  <2> QED  BY <2>1, <2>3, <2>6 DEF ReadInv
<1>3. CASE Shown /\ UNCHANGED vars
  BY <1>3 DEF Shown, ReadInv
<1>4. ASSUME Parse, UNCHANGED vars PROVE ReadInv'
  <2>1. step \in {"factor", "term", "phrase"} /\ query' = query /\ query \in DOMAIN Queries
    BY <1>4 DEF Parse, FactorPhrase, FactorBracket, FactorWord, PhraseWord, PhraseEnds, TermCombines,
       TermGoesOn, ExprCombines, ExprGoesOn, ExprReturns, Parsed, TermEnds, ReadInv
  <2>2. PICK T, M, p : T = Text /\ M = TextMeaning /\ ReadUpTo(T, M, p)
    BY <2>1 DEF ReadInv
  <2>3. Readable(T) /\ M = Meaning(T, ReadLeaf(T))
    BY <2>1, <2>2 DEF AllReadable, Text, TextMeaning
  <2>4. /\ Len(T) \in Nat /\ Means(T, ReadLeaf(T), M) /\ NoneIgnored(T, M)
        /\ T \in Seq(Tokens) /\ Grammatical(T)
    BY <2>3, ReadableFacts DEF Readable
  <2>5. /\ p \in 0 .. Len(T) /\ tokens = Rest(T, p)
        /\ step = "factor" => Reading(T, M, calls, stack, p)
        /\ step = "term" => Read(T, M, calls, stack, p)
        /\ step = "phrase" => InPhraseAt(T, M, calls, stack, wordList, ignoredWords, p)
    BY <2>2 DEF ReadUpTo
  <2>6. /\ tokens = <<>> <=> p = Len(T)
        /\ \A type : Lookahead(type) <=> p < Len(T) /\ T[p + 1].type = type
        /\ p < Len(T) => Head(tokens) = T[p + 1] /\ Tail(tokens) = Rest(T, p + 1)
                         /\ p + 1 \in 0 .. Len(T) /\ p \in 0 .. Len(T) - 1
    BY <2>4, <2>5, LookaheadIs
  <2>7. /\ calls \in Seq(Calls) /\ calls # <<>> /\ stack \in Seq(Operands) /\ wordList.of \subseteq WordRecords
        /\ step # "phrase" => ignoredWords = 0
    BY <2>1 DEF StackInv, ReadInv
  <2>8. p \in Nat /\ p <= Len(T) /\ (p # Len(T) => p < Len(T))
    BY <2>4, <2>5
  <2>9. Current = calls[Len(calls)]
    BY DEF Current
  <2> DEFINE GoesOnAt(q) ==
        /\ step' \in {"factor", "term", "phrase"} /\ (step' # "phrase" => ignoredWords' = 0)
        /\ q \in 0 .. Len(T) /\ tokens' = Rest(T, q)
        /\ step' = "factor" => Reading(T, M, calls', stack', q)
        /\ step' = "term" => Read(T, M, calls', stack', q)
        /\ step' = "phrase" => InPhraseAt(T, M, calls', stack', wordList', ignoredWords', q)
  <2>10. ASSUME NEW q, GoesOnAt(q) PROVE ReadInv'
    BY <1>4, <2>1, <2>2, <2>10, GoesOnReading
  <2>11. CASE FactorPhrase
    <3>1. /\ step = "factor" /\ Lookahead("quote") /\ step' = "phrase" /\ tokens' = Tail(tokens)
          /\ wordList' = Null /\ calls' = calls /\ stack' = stack /\ ignoredWords' = ignoredWords
      BY <2>11 DEF FactorPhrase
    <3>2. p < Len(T) /\ T[p + 1].type = "quote" /\ Reading(T, M, calls, stack, p) /\ ~InPhrase(T, p)
      BY <2>5, <2>6, <2>7, <3>1, ReadingFacts
    <3>3. Quoting(T, p + 1, p + 1)
      BY <2>4, <2>8, <3>2, QuoteOpens
    <3>4. PhraseRead(T, p + 1, p + 1, Null, 0)
      <4>1. Asked(T, p + 1, p + 1) = {}
        BY <2>8 DEF Asked
      <4> QED  BY <4>1 DEF PhraseRead
    <3>5. (p + 1) - 1 = p
      BY <2>8
    <3>6. InPhraseAt(T, M, calls', stack', wordList', ignoredWords', p + 1)
      BY <2>7, <3>1, <3>2, <3>3, <3>4, <3>5 DEF InPhraseAt
    <3>7. GoesOnAt(p + 1)
      BY <2>6, <3>1, <3>2, <3>6
    <3> QED  BY <2>10, <3>7
  <2>12. CASE FactorBracket
    <3>1. /\ step = "factor" /\ Lookahead("(") /\ step' = step /\ tokens' = Tail(tokens)
          /\ calls' = Append(calls, NewCall) /\ stack' = stack /\ ignoredWords' = ignoredWords
      BY <2>12 DEF FactorBracket
    <3>2. p < Len(T) /\ T[p + 1].type = "(" /\ Reading(T, M, calls, stack, p)
      BY <2>5, <2>6, <3>1
    <3>3. Reading(T, M, calls', stack', p + 1)
      BY <2>4, <2>7, <3>1, <3>2, ReadsBracket
    <3>4. GoesOnAt(p + 1)
      BY <2>6, <2>7, <3>1, <3>2, <3>3
    <3> QED  BY <2>10, <3>4
  <2>13. CASE FactorWord
    <3>1. /\ step = "factor" /\ tokens # <<>> /\ IsWord(Head(tokens)) /\ step' = "term"
          /\ stack' = Append(stack, perform_push(Head(tokens))) /\ tokens' = Tail(tokens)
          /\ calls' = calls /\ ignoredWords' = ignoredWords
      BY <2>13 DEF FactorWord
    <3>2. p < Len(T) /\ IsWord(T[p + 1]) /\ Reading(T, M, calls, stack, p)
      BY <2>5, <2>6, <2>8, <3>1
    <3>3. Read(T, M, calls', stack', p + 1)
      BY <2>3, <2>6, <2>7, <3>1, <3>2, WordIsRead
    <3>4. GoesOnAt(p + 1)
      BY <2>6, <2>7, <3>1, <3>2, <3>3
    <3> QED  BY <2>10, <3>4
  <2>14. CASE PhraseWord
    <3>1. /\ step = "phrase" /\ tokens # <<>> /\ ~Lookahead("quote") /\ step' = step
          /\ tokens' = Tail(tokens) /\ calls' = calls /\ stack' = stack
          /\ IF wordList.kind = "list" /\ wordList.of = {}
             THEN UNCHANGED <<wordList, ignoredWords>>
             ELSE LET t == Head(tokens) IN PhrasePasses(t) \/ PhraseBegins(t) \/ PhraseGoesOn(t)
      BY <2>14 DEF PhraseWord
    <3>2. p < Len(T) /\ T[p + 1].type # "quote" /\ Head(tokens) = T[p + 1]
      BY <2>6, <2>8, <3>1
    <3>3. PICK u : /\ Quoting(T, u, p) /\ Reading(T, M, calls, stack, u - 1)
                   /\ PhraseRead(T, u, p, wordList, ignoredWords)
      BY <2>5, <3>1 DEF InPhraseAt
    <3>4. Quoting(T, u, p + 1)
      BY <2>4, <3>2, <3>3, QuoteGoesOn
    <3>5. u \in Nat /\ u <= p
      BY <2>4, <3>3 DEF Quoting
    <3>6. PhraseRead(T, u, p + 1, wordList', ignoredWords')
      <4>1. CASE T[p + 1].type # "word"
        <5>1. /\ wordList' = wordList
              /\ ignoredWords' = IF ~(wordList.kind = "list" /\ wordList.of = {})
                                    /\ T[p + 1].type = "bad" /\ wordList # Null
                                 THEN ignoredWords + 1 ELSE ignoredWords
          BY <3>1, <3>2, <4>1 DEF PhrasePasses, PhraseBegins, PhraseGoesOn
        <5> QED  BY <2>8, <3>3, <3>5, <4>1, <5>1, PhrasePassesRead
      <4>2. CASE T[p + 1].type = "word"
        <5>1. IF wordList.kind = "list" /\ wordList.of = {}
              THEN wordList' = wordList /\ ignoredWords' = ignoredWords
              ELSE \/ Begins(T[p + 1], wordList, ignoredWords, wordList', ignoredWords')
                   \/ GoesOn(T[p + 1], wordList, ignoredWords, wordList', ignoredWords')
          BY <3>1, <3>2, <4>2 DEF PhrasePasses, PhraseBegins, PhraseGoesOn, Begins, GoesOn
        <5> QED  BY <2>8, <3>3, <3>5, <4>2, <5>1, PhraseWordRead
      <4> QED  BY <4>1, <4>2
    <3>7. InPhraseAt(T, M, calls', stack', wordList', ignoredWords', p + 1)
      BY <3>1, <3>3, <3>4, <3>6 DEF InPhraseAt
    <3>8. GoesOnAt(p + 1)
      BY <2>6, <3>1, <3>2, <3>7
    <3> QED  BY <2>10, <3>8
  <2>15. CASE PhraseEnds
    <3>1. /\ step = "phrase" /\ Lookahead("quote") /\ step' = "term" /\ tokens' = Tail(tokens)
          /\ stack' = Append(stack, score(wordList.of, AllFields))
          /\ calls' = calls /\ ignoredWords' = ignoredWords
      BY <2>15 DEF PhraseEnds
    <3>2. p < Len(T) /\ T[p + 1].type = "quote" /\ p \in 0 .. Len(T) - 1
      BY <2>6, <3>1
    <3>3. ignoredWords = 0 /\ Read(T, M, calls, Append(stack, score(wordList.of, AllFields)), p + 1)
      BY SMTT(30), <2>3, <2>5, <2>7, <3>1, <3>2, PhraseOperandRead
    <3>4. GoesOnAt(p + 1)
      BY <2>6, <3>1, <3>2, <3>3
    <3> QED  BY <2>10, <3>4
  <2>16. CASE TermCombines
    <3>1. /\ step = "term" /\ Current.op # "none" /\ Perform(Current.op) /\ step' = step
          /\ calls' = [calls EXCEPT ![Len(calls)].op = "none"]
          /\ tokens' = tokens /\ ignoredWords' = ignoredWords
      BY <2>16 DEF TermCombines
    <3>2. Read(T, M, calls, stack, p) /\ Len(stack) >= 2
      <4>1. Read(T, M, calls, stack, p)
        BY <2>5, <3>1
      <4>2. Current \in Calls
        BY <2>7, CurrentCall
      <4>3. Len(stack) >= 1 + Waits(Current)
        BY <2>4, <2>7, <2>9, <4>1, ResultsRead
      <4>4. Waits(Current) \in Nat /\ Waits(Current) >= 1
        BY <3>1, <4>2, WaitsFacts
      <4> QED  BY <2>7, <4>1, <4>3, <4>4
    <3>3. stack' = Popped(stack, Combined(calls[Len(calls)].op, stack[Len(stack) - 1], stack[Len(stack)]))
      BY <2>9, <3>1 DEF Perform, Popped
    <3>4. calls' = WithLast(calls, [calls[Len(calls)] EXCEPT !.op = "none"])
      BY <3>1 DEF WithLast
    <3>5. Read(T, M, calls', stack', p)
      <4>1. calls[Len(calls)].op # "none"
        BY <2>9, <3>1
      <4>2. Read(T, M, WithLast(calls, [calls[Len(calls)] EXCEPT !.op = "none"]),
              Popped(stack, Combined(calls[Len(calls)].op, stack[Len(stack) - 1], stack[Len(stack)])), p)
        BY <2>4, <2>7, <3>2, <4>1, ReadsTerm
      <4> QED  BY <3>3, <3>4, <4>2
    <3>6. GoesOnAt(p)
      BY <2>5, <2>7, <3>1, <3>5
    <3> QED  BY <2>10, <3>6
  <2>17. CASE TermGoesOn
    <3>1. /\ step = "term" /\ Current.op = "none" /\ (Lookahead("&") \/ Lookahead("!")) /\ step' = "factor"
          /\ calls' = [calls EXCEPT ![Len(calls)].op = Head(tokens).type]
          /\ tokens' = Tail(tokens) /\ stack' = stack /\ ignoredWords' = ignoredWords
      BY <2>17 DEF TermGoesOn
    <3>2. PICK op \in {"&", "!"} : p < Len(T) /\ T[p + 1].type = op
      BY <2>6, <3>1
    <3>3. calls' = WithLast(calls, [calls[Len(calls)] EXCEPT !.op = op])
      BY <2>6, <3>1, <3>2 DEF WithLast
    <3>4. Reading(T, M, calls', stack', p + 1)
      <4>1. calls[Len(calls)].op = "none" /\ Read(T, M, calls, stack, p)
        BY <2>5, <2>9, <3>1
      <4>2. Reading(T, M, WithLast(calls, [calls[Len(calls)] EXCEPT !.op = op]), stack, p + 1)
        BY <2>4, <2>7, <3>2, <4>1, ReadsTermOn
      <4> QED  BY <3>1, <3>3, <4>2
    <3>5. GoesOnAt(p + 1)
      BY <2>6, <2>7, <3>1, <3>2, <3>4
    <3> QED  BY <2>10, <3>5
  <2>18. CASE ExprCombines
    <3>1. /\ step = "term" /\ Current.op = "none" /\ ~Lookahead("&") /\ ~Lookahead("!") /\ Current.or
          /\ Perform("|") /\ step' = step /\ calls' = [calls EXCEPT ![Len(calls)].or = FALSE]
          /\ tokens' = tokens /\ ignoredWords' = ignoredWords
      BY <2>18 DEF ExprCombines, TermEnds
    <3>2. Read(T, M, calls, stack, p) /\ Len(stack) >= 2
      <4>1. Read(T, M, calls, stack, p)
        BY <2>5, <3>1
      <4>2. Current \in Calls
        BY <2>7, CurrentCall
      <4>3. Len(stack) >= 1 + Waits(Current)
        BY <2>4, <2>7, <2>9, <4>1, ResultsRead
      <4>4. Waits(Current) \in Nat /\ Waits(Current) >= 1
        BY <3>1, <4>2, WaitsFacts
      <4> QED  BY <2>7, <4>1, <4>3, <4>4
    <3>3. stack' = Popped(stack, Combined("|", stack[Len(stack) - 1], stack[Len(stack)]))
      BY <3>1 DEF Perform, Popped
    <3>4. calls' = WithLast(calls, [calls[Len(calls)] EXCEPT !.or = FALSE])
      BY <3>1 DEF WithLast
    <3>5. p < Len(T) => T[p + 1].type \notin {"&", "!"}
      BY <2>6, <3>1
    <3>6. Read(T, M, calls', stack', p)
      <4>1. calls[Len(calls)].op = "none" /\ calls[Len(calls)].or
        BY <2>9, <3>1
      <4>2. Read(T, M, WithLast(calls, [calls[Len(calls)] EXCEPT !.or = FALSE]),
              Popped(stack, Combined("|", stack[Len(stack) - 1], stack[Len(stack)])), p)
        BY <2>4, <2>7, <3>2, <3>5, <4>1, ReadsExpr
      <4> QED  BY <3>3, <3>4, <4>2
    <3>7. GoesOnAt(p)
      BY <2>5, <2>7, <3>1, <3>6
    <3> QED  BY <2>10, <3>7
  <2>19. CASE ExprGoesOn
    <3>1. /\ step = "term" /\ Current.op = "none" /\ ~Current.or /\ Lookahead("|") /\ step' = "factor"
          /\ calls' = [calls EXCEPT ![Len(calls)].or = TRUE]
          /\ tokens' = Tail(tokens) /\ stack' = stack /\ ignoredWords' = ignoredWords
      BY <2>19 DEF ExprGoesOn, TermEnds
    <3>2. p < Len(T) /\ T[p + 1].type = "|"
      BY <2>6, <3>1
    <3>3. calls' = WithLast(calls, [calls[Len(calls)] EXCEPT !.or = TRUE])
      BY <3>1 DEF WithLast
    <3>4. Reading(T, M, calls', stack', p + 1)
      <4>1. calls[Len(calls)].op = "none" /\ ~calls[Len(calls)].or /\ Read(T, M, calls, stack, p)
        BY <2>5, <2>9, <3>1
      <4>2. Reading(T, M, WithLast(calls, [calls[Len(calls)] EXCEPT !.or = TRUE]), stack, p + 1)
        BY <2>4, <2>7, <3>2, <4>1, ReadsExprOn
      <4> QED  BY <3>1, <3>3, <4>2
    <3>5. GoesOnAt(p + 1)
      BY <2>6, <2>7, <3>1, <3>2, <3>4
    <3> QED  BY <2>10, <3>5
  <2>20. CASE ExprReturns
    <3>1. /\ step = "term" /\ Current.op = "none" /\ ~Current.or /\ Lookahead(")") /\ Len(calls) > 1
          /\ step' = step /\ calls' = Seqs!Front(calls)
          /\ tokens' = Tail(tokens) /\ stack' = stack /\ ignoredWords' = ignoredWords
      BY <2>20 DEF ExprReturns, TermEnds
    <3>2. p < Len(T) /\ T[p + 1].type = ")" /\ Read(T, M, calls, stack, p)
      BY <2>5, <2>6, <3>1
    <3>3. Read(T, M, calls', stack', p + 1)
      BY <2>4, <2>7, <2>9, <3>1, <3>2, ReadsExprBack
    <3>4. GoesOnAt(p + 1)
      BY <2>6, <2>7, <3>1, <3>2, <3>3
    <3> QED  BY <2>10, <3>4
  <2>21. CASE Parsed
    <3>1. /\ step = "term" /\ Current.op = "none" /\ ~Current.or /\ Len(calls) = 1 /\ tokens = <<>>
          /\ step' = "parsed" /\ matches' = Seqs!Last(stack).of \intersect Normal
          /\ ignoredWords' = ignoredWords
      BY <2>21 DEF Parsed, TermEnds
    <3>2. p = Len(T) /\ Read(T, M, calls, stack, p)
      BY <2>5, <2>6, <3>1
    <3>3. Len(stack) = 1 /\ Stands(stack[1], M[<<1, Len(T)>>])
      BY <2>4, <2>7, <2>9, <3>1, <3>2, ReadsEnd
    <3>4. Seqs!Last(stack) = stack[1]
      BY <3>3 DEF Seqs!Last
    <3>5. matches' = TextMeaning[<<1, Len(Text)>>].of \intersect Normal
      BY <2>2, <3>1, <3>3, <3>4 DEF Stands
    <3>6. Text' = Text /\ TextMeaning' = TextMeaning
      BY <1>4, <2>1, TextStays
    <3> QED  BY <2>1, <2>7, <3>1, <3>5, <3>6 DEF ReadInv
  <2> QED  BY <1>4, <2>11, <2>12, <2>13, <2>14, <2>15, <2>16, <2>17, <2>18, <2>19, <2>20, <2>21 DEF Parse
<1> QED  BY <1>1, <1>2, <1>3, <1>4 DEF NextSearch, searchVars

(* The parser finds what the text it reads means. *)
LEMMA ReadHolds == AllReadable => (SearchSpec => []ReadInv)
<1> SUFFICES ASSUME AllReadable PROVE SearchSpec => []ReadInv
  OBVIOUS
<1>1. InitSearch => ReadInv
  BY DEF InitSearch, ReadInv
<1>2. TypeOK /\ StackInv /\ ReadInv /\ [NextSearch]_searchVars => ReadInv'
  BY ReadStep
<1>3. SearchSpec => []TypeOK
  BY SearchesAreWalks, TypeCorrect, PTL
<1>4. SearchSpec => []StackInv
  BY StackHolds
<1> QED  BY <1>1, <1>2, <1>3, <1>4, PTL DEF SearchSpec
================================================================================
