------------------------------- MODULE QueryProofs -----------------------------
(****************************************************************************)
(* The documents a query finds are those it means, for any index, any       *)
(* words, any substitutes and queries of any length.  What the parser finds *)
(* is what the text it reads means (ReadHolds); here, that text means what  *)
(* the query does.  The words of the query keep their order in it, and each *)
(* word that was to be looked up has become an operand of its own, so a     *)
(* part of the query splits where its words do in the text (SpanMeans), and *)
(* a list of words is a chain of them (ListMeans).                          *)
(****************************************************************************)
EXTENDS WordCursorProofs

----------------------------------------------------------------------------
(* From the user's words to the text that is read *)

(* The first n sequences of B stand one behind the other in x, behind place *)
(* s; number i ends at o[i].                                                *)
LaidAt(x, C, b, e) ==
  /\ b \in Nat /\ Len(C) \in Nat /\ e = b + Len(C) /\ e <= Len(x)
  /\ \A j \in 1 .. Len(C) : x[b + j] = C[j]

Laid(x, B, n, s, o) ==
  /\ o[0] = s /\ s \in Nat
  /\ \A i \in 1 .. n : LaidAt(x, B[i], o[i - 1], o[i])

LaysUpTo(x, B, n) == \E o : Laid(x, B, n, 0, o) /\ o[n] = Len(x)

LEMMA LaidOneMore ==
  ASSUME NEW S, NEW x \in Seq(S), NEW B, NEW n \in Nat \ {0}, B[n] \in Seq(S),
         LaysUpTo(x, B, n - 1), NEW y, y = x \o B[n]
  PROVE  LaysUpTo(y, B, n)
<1>a. PICK o : Laid(x, B, n - 1, 0, o) /\ o[n - 1] = Len(x)
  BY DEF LaysUpTo
<1> DEFINE p == [i \in 0 .. n |-> IF i = n THEN Len(x) + Len(B[n]) ELSE o[i]]
<1>0. PICK m : m = Len(x)
  OBVIOUS
<1>1. m \in Nat /\ Len(B[n]) \in Nat /\ n - 1 \in Nat
  BY <1>0
<1>2. /\ Len(y) = m + Len(B[n])
      /\ \A k \in 1 .. m : y[k] = x[k]
      /\ \A j \in 1 .. Len(B[n]) : y[m + j] = B[n][j]
  BY <1>0, <1>1
<1>3. \A i \in 0 .. n : p[i] = IF i = n THEN m + Len(B[n]) ELSE o[i]
  BY <1>0
<1>4. p[n] = Len(y) /\ p[n - 1] = m /\ p[0] = 0
  <2>1. n - 1 \in 0 .. n /\ n - 1 # n /\ n \in 0 .. n /\ 0 \in 0 .. n /\ 0 # n
    OBVIOUS
  <2> QED  BY <1>0, <1>2, <1>3, <1>a, <2>1 DEF Laid
<1>5. ASSUME NEW i \in 1 .. n - 1 PROVE LaidAt(y, B[i], p[i - 1], p[i])
  <2>1. i - 1 \in 0 .. n /\ i - 1 # n /\ i \in 0 .. n /\ i # n
    OBVIOUS
  <2>2. p[i - 1] = o[i - 1] /\ p[i] = o[i]
    BY <1>3, <2>1
  <2>3. LaidAt(x, B[i], o[i - 1], o[i])
    BY <1>a DEF Laid
  <2>4. PICK C, b, e : C = B[i] /\ b = o[i - 1] /\ e = o[i]
    OBVIOUS
  <2>5. /\ b \in Nat /\ Len(C) \in Nat /\ e = b + Len(C) /\ e <= m
        /\ \A j \in 1 .. Len(C) : x[b + j] = C[j]
    BY <1>0, <2>3, <2>4 DEF LaidAt
  <2>6. \A j \in 1 .. Len(C) : y[b + j] = C[j]
    <3>1. \A j \in 1 .. Len(C) : b + j \in 1 .. m
      BY <1>1, <2>5
    <3> QED  BY <1>2, <2>5, <3>1
  <2>7. e <= Len(y)
    BY <1>1, <1>2, <2>5
  <2> QED  BY <2>2, <2>4, <2>5, <2>6, <2>7 DEF LaidAt
<1>6. LaidAt(y, B[n], p[n - 1], p[n])
  <2>1. Len(y) <= Len(y) /\ Len(y) = m + Len(B[n])
    BY <1>1, <1>2
  <2> QED  BY <1>1, <1>2, <1>4, <2>1 DEF LaidAt
<1>7. \A i \in 1 .. n : LaidAt(y, B[i], p[i - 1], p[i])
  <2>1. \A i \in 1 .. n : i = n \/ i \in 1 .. n - 1
    OBVIOUS
  <2> QED  BY <1>5, <1>6, <2>1
<1>8. Laid(y, B, n, 0, p)
  BY <1>4, <1>7 DEF Laid
<1> QED  BY <1>4, <1>8 DEF LaysUpTo

FlatUpTo(f, B, n) == f = [i \in 1 .. n |-> IF i = 1 THEN B[i] ELSE f[i - 1] \o B[i]]

(* FlattenSeq lays them out. *)
LEMMA FlattenLays ==
  ASSUME NEW S, NEW B \in Seq(Seq(S)), NEW n \in Nat, n = Len(B), NEW x, x = Seqs!FlattenSeq(B)
  PROVE  x \in Seq(S) /\ LaysUpTo(x, B, n)
<1>1. CASE n = 0
  <2>1. x = <<>> /\ B = <<>>
    BY <1>1, EmptySeq DEF Seqs!FlattenSeq
  <2>2. x \in Seq(S) /\ Len(x) = 0
    BY <2>1
  <2> DEFINE o == [i \in {0} |-> 0]
  <2>3. o[0] = 0 /\ \A i \in 1 .. 0 : FALSE
    OBVIOUS
  <2> HIDE DEF o
  <2> QED  BY <1>1, <2>2, <2>3 DEF Laid, LaysUpTo
<1>2. CASE n # 0
  <2>1. \A i \in 1 .. n : B[i] \in Seq(S)
    OBVIOUS
  <2> DEFINE Goal(y, i) == y \in Seq(S) /\ LaysUpTo(y, B, i)
             Good == {k \in Nat : \E f : /\ FlatUpTo(f, B, k)
                                         /\ \A i \in 1 .. k : Goal(f[i], i)}
  <2>2. 0 \in Good
    <3>1. FlatUpTo([i \in 1 .. 0 |-> B], B, 0)
      BY DEF FlatUpTo
    <3> QED  BY <3>1
  <2>3. ASSUME NEW k \in 1 .. n, k - 1 \in Good PROVE k \in Good
    <3>1. PICK h : FlatUpTo(h, B, k - 1) /\ \A i \in 1 .. k - 1 : Goal(h[i], i)
      BY <2>3
    <3> DEFINE f == [i \in 1 .. k |-> IF i = 1 THEN B[i] ELSE h[i - 1] \o B[i]]
    <3> HIDE DEF Goal
    <3>2. \A i \in 1 .. k - 1 : h[i] = f[i]
      <4>1. h = [i \in 1 .. k - 1 |-> IF i = 1 THEN B[i] ELSE h[i - 1] \o B[i]]
        BY <3>1 DEF FlatUpTo
      <4>2. \A i \in 1 .. k - 1 : i \in 1 .. k
        OBVIOUS
      <4> QED  BY <4>1, <4>2, Zenon
    <3>3. \A i \in 1 .. k : i # 1 => i - 1 \in 1 .. k - 1
      OBVIOUS
    <3>4. f = [i \in 1 .. k |-> IF i = 1 THEN B[i] ELSE f[i - 1] \o B[i]]
      BY <3>2, <3>3
    <3>5. FlatUpTo(f, B, k)
      BY <3>4 DEF FlatUpTo
    <3>6. f[k] = IF k = 1 THEN B[k] ELSE h[k - 1] \o B[k]
      OBVIOUS
    <3> HIDE DEF f
    <3>7. Goal(f[k], k)
      <4>1. CASE k = 1
        <5>1. LaysUpTo(<<>>, B, k - 1)
          <6> DEFINE o == [i \in {0} |-> 0]
          <6>1. o[0] = 0 /\ \A i \in 1 .. 0 : FALSE
            OBVIOUS
          <6> HIDE DEF o
          <6> QED  BY <4>1, <6>1 DEF Laid, LaysUpTo
        <5>2. B[k] \in Seq(S) /\ k \in Nat \ {0} /\ <<>> \in Seq(S)
          BY <2>1
        <5>3. B[k] = <<>> \o B[k]
          BY <5>2
        <5>4. LaysUpTo(B[k], B, k)
          BY <5>1, <5>2, <5>3, LaidOneMore
        <5> QED  BY <3>6, <4>1, <5>2, <5>4 DEF Goal
      <4>2. CASE k # 1
        <5>1. Goal(h[k - 1], k - 1)
          BY <3>1, <4>2
        <5>2. PICK y, z : y = h[k - 1] /\ z = y \o B[k]
          OBVIOUS
        <5>3. B[k] \in Seq(S) /\ k \in Nat \ {0} /\ y \in Seq(S) /\ LaysUpTo(y, B, k - 1)
          BY <2>1, <5>1, <5>2 DEF Goal
        <5>4. LaysUpTo(z, B, k)
          BY <5>2, <5>3, LaidOneMore
        <5>5. z \in Seq(S)
          BY <5>2, <5>3
        <5> QED  BY <3>6, <4>2, <5>2, <5>4, <5>5 DEF Goal
      <4> QED  BY <4>1, <4>2
    <3>8. \A i \in 1 .. k : i = k \/ i \in 1 .. k - 1
      OBVIOUS
    <3>9. \A i \in 1 .. k : Goal(f[i], i)
      BY <3>1, <3>2, <3>7, <3>8
    <3> QED  BY <3>5, <3>9
  <2> HIDE DEF Good
  <2>4. n \in Good
    <3>1. n \in 0 .. n
      OBVIOUS
    <3> QED  BY <2>2, <2>3, <3>1, UpTo
  <2>5. \E f : FlatUpTo(f, B, n) /\ \A i \in 1 .. n : Goal(f[i], i)
    BY <2>4 DEF Good
  <2> DEFINE g == CHOOSE f : FlatUpTo(f, B, n)
  <2>6. x = g[n]
    BY <1>2, Zenon DEF Seqs!FlattenSeq, FlatUpTo
  <2>7. FlatUpTo(g, B, n)
    BY <2>5
  <2> HIDE DEF g, Goal
  <2>8. PICK f : FlatUpTo(f, B, n) /\ \A i \in 1 .. n : Goal(f[i], i)
    BY <2>5
  <2>9. \A i \in 1 .. n : f[i] = g[i]
    <3> DEFINE Same == {i \in Nat : i = 0 \/ f[i] = g[i]}
    <3>1. 0 \in Same
      OBVIOUS
    <3>2. ASSUME NEW i \in 1 .. n, i - 1 \in Same PROVE i \in Same
      <4>1. /\ f[i] = IF i = 1 THEN B[i] ELSE f[i - 1] \o B[i]
            /\ g[i] = IF i = 1 THEN B[i] ELSE g[i - 1] \o B[i]
        BY <2>7, <2>8 DEF FlatUpTo
      <4> QED  BY <3>2, <4>1
    <3> HIDE DEF Same
    <3>3. \A i \in 0 .. n : i \in Same
      BY <3>1, <3>2, UpTo
    <3> QED  BY <3>3 DEF Same
  <2>10. n \in 1 .. n
    BY <1>2
  <2>11. Goal(x, n)
    BY <2>6, <2>8, <2>9, <2>10
  <2> QED  BY <2>11 DEF Goal
<1> QED  BY <1>1, <1>2

(* Words with an operator between each two of them, and brackets. *)
Alternate(x, op, w, n) ==
  /\ Len(x) = 2 * n - 1
  /\ \A i \in 1 .. n : x[2 * i - 1] = w[i]
  /\ \A i \in 1 .. n - 1 : x[2 * i] = Token(op)

Encloses(x, w, m) ==
  /\ Len(x) = m + 2 /\ x[1] = Token("(") /\ x[m + 2] = Token(")")
  /\ \A k \in 1 .. m : x[k + 1] = w[k]

LEMMA BetweenIs ==
  ASSUME NEW S, NEW w \in Seq(S), NEW n \in Nat, n = Len(w), n >= 1, NEW op, Token(op) \in S,
         NEW x, x = Between(op, w)
  PROVE  x \in Seq(S) /\ Alternate(x, op, w, n)
<1> DEFINE B == [i \in DOMAIN w |-> IF i = 1 THEN <<w[i]>> ELSE <<Token(op), w[i]>>]
<1>1. DOMAIN w = 1 .. n /\ \A i \in 1 .. n : w[i] \in S
  OBVIOUS
<1>2. \A i \in 1 .. n : <<w[i]>> \in Seq(S) /\ <<Token(op), w[i]>> \in Seq(S)
  BY <1>1
<1>3. B \in [1 .. n -> Seq(S)]
  BY <1>1, <1>2
<1>4. \A i \in 1 .. n : B[i] = IF i = 1 THEN <<w[i]>> ELSE <<Token(op), w[i]>>
  BY <1>1
<1>5. x = Seqs!FlattenSeq(B)
  BY DEF Between
<1> HIDE DEF B
<1>6. B \in Seq(Seq(S)) /\ Len(B) = n
  <2>1. B \in Seq(Seq(S))
    BY <1>3
  <2> QED  BY <1>3, <2>1
<1>7. x \in Seq(S) /\ LaysUpTo(x, B, n)
  BY <1>5, <1>6, FlattenLays
<1>8. PICK o : Laid(x, B, n, 0, o) /\ o[n] = Len(x)
  BY <1>7 DEF LaysUpTo
<1>9. \A i \in 1 .. n : LaidAt(x, B[i], o[i - 1], o[i])
  BY <1>8 DEF Laid
<1>10. ASSUME NEW i \in 1 .. n
       PROVE  /\ i = 1 => o[i] = o[i - 1] + 1 /\ x[o[i - 1] + 1] = w[i]
              /\ i # 1 => o[i] = o[i - 1] + 2 /\ x[o[i - 1] + 1] = Token(op) /\ x[o[i - 1] + 2] = w[i]
              /\ o[i - 1] \in Nat
  <2>1. PICK C, b, e : C = B[i] /\ b = o[i - 1] /\ e = o[i]
    OBVIOUS
  <2>2. b \in Nat /\ e = b + Len(C) /\ \A j \in 1 .. Len(C) : x[b + j] = C[j]
    BY <1>9, <2>1 DEF LaidAt
  <2>3. CASE i = 1
    <3>1. C = <<w[i]>>
      BY <1>4, <2>1, <2>3
    <3>2. Len(C) = 1 /\ C[1] = w[i]
      BY <3>1
    <3> QED  BY <2>1, <2>2, <2>3, <3>2
  <2>4. CASE i # 1
    <3>1. C = <<Token(op), w[i]>>
      BY <1>4, <2>1, <2>4
    <3>2. Len(C) = 2 /\ C[1] = Token(op) /\ C[2] = w[i]
      BY <3>1
    <3> QED  BY <2>1, <2>2, <2>4, <3>2
  <2> QED  BY <2>3, <2>4
<1>11. \A i \in 1 .. n : o[i] = 2 * i - 1
  <2> DEFINE Good == {i \in Nat : i = 0 \/ o[i] = 2 * i - 1}
  <2>1. 0 \in Good
    OBVIOUS
  <2>2. ASSUME NEW i \in 1 .. n, i - 1 \in Good PROVE i \in Good
    <3>1. CASE i = 1
      <4>1. o[0] = 0
        BY <1>8 DEF Laid
      <4> QED  BY <1>10, <3>1, <4>1
    <3>2. CASE i # 1
      <4>1. o[i - 1] = 2 * (i - 1) - 1
        BY <2>2, <3>2
      <4>2. o[i] = o[i - 1] + 2
        BY <1>10, <3>2
      <4> QED  BY <4>1, <4>2
    <3> QED  BY <3>1, <3>2
  <2> HIDE DEF Good
  <2>3. \A i \in 0 .. n : i \in Good
    BY <2>1, <2>2, UpTo
  <2> QED  BY <2>3 DEF Good
<1>12. \A i \in 1 .. n : x[2 * i - 1] = w[i]
  <2> TAKE i \in 1 .. n
  <2>1. CASE i = 1
    <3>1. o[0] = 0
      BY <1>8 DEF Laid
    <3> QED  BY <1>10, <2>1, <3>1
  <2>2. CASE i # 1
    <3>1. o[i - 1] = 2 * (i - 1) - 1
      BY <1>11, <2>2
    <3>2. x[o[i - 1] + 2] = w[i]
      BY <1>10, <2>2
    <3> QED  BY <3>1, <3>2
  <2> QED  BY <2>1, <2>2
<1>13. \A i \in 1 .. n - 1 : x[2 * i] = Token(op)
  <2> TAKE i \in 1 .. n - 1
  <2>1. i + 1 \in 1 .. n /\ (i + 1) - 1 = i /\ i + 1 # 1
    OBVIOUS
  <2>2. x[o[i] + 1] = Token(op)
    BY <1>10, <2>1
  <2>3. o[i] = 2 * i - 1
    BY <1>11
  <2> QED  BY <2>2, <2>3
<1>14. Len(x) = 2 * n - 1
  BY <1>8, <1>11
<1> QED  BY <1>7, <1>12, <1>13, <1>14 DEF Alternate

Follows(z, y, q) ==
  /\ Len(z) = Len(y) + Len(q)
  /\ \A i \in 1 .. Len(y) : z[i] = y[i]
  /\ \A j \in 1 .. Len(q) : z[Len(y) + j] = q[j]

LEMMA ConcatFollows ==
  ASSUME NEW S, NEW y \in Seq(S), NEW q \in Seq(S)
  PROVE  y \o q \in Seq(S) /\ Follows(y \o q, y, q)
BY DEF Follows

LEMMA BracketedIs ==
  ASSUME NEW S, NEW w \in Seq(S), NEW m \in Nat, m = Len(w), Token("(") \in S, Token(")") \in S,
         NEW x, x = Bracketed(w)
  PROVE  x \in Seq(S) /\ Encloses(x, w, m)
<1>1. PICK p, q : p = <<Token("(")>> /\ q = <<Token(")")>>
  OBVIOUS
<1>2. p \in Seq(S) /\ q \in Seq(S) /\ Len(p) = 1 /\ Len(q) = 1 /\ p[1] = Token("(") /\ q[1] = Token(")")
  BY <1>1
<1>3. PICK y : y \in Seq(S) /\ Follows(y, p, w) /\ y = p \o w
  BY <1>2, ConcatFollows
<1>4. PICK z : z \in Seq(S) /\ Follows(z, y, q) /\ z = y \o q
  BY <1>2, <1>3, ConcatFollows
<1>5. x = z
  BY <1>1, <1>3, <1>4 DEF Bracketed
<1>6. Len(y) = 1 + m /\ y[1] = Token("(") /\ \A k \in 1 .. m : y[1 + k] = w[k]
  BY <1>2, <1>3 DEF Follows
<1>7. Len(z) = m + 2 /\ z[1] = Token("(") /\ \A k \in 1 .. m : z[1 + k] = w[k]
  <2>1. 1 \in 1 .. Len(y) /\ \A k \in 1 .. m : 1 + k \in 1 .. Len(y)
    BY <1>6
  <2>2. Len(z) = Len(y) + 1 /\ \A i \in 1 .. Len(y) : z[i] = y[i]
    BY <1>2, <1>4 DEF Follows
  <2> QED  BY <1>6, <2>1, <2>2
<1>8. z[m + 2] = Token(")")
  <2>1. 1 \in 1 .. Len(q) /\ Len(y) + 1 = m + 2
    BY <1>2, <1>6
  <2> QED  BY <1>2, <1>4, <2>1 DEF Follows
<1>9. \A k \in 1 .. m : z[k + 1] = w[k]
  BY <1>7
<1> QED  BY <1>4, <1>5, <1>7, <1>8, <1>9 DEF Encloses

(* What doFuzzy and addRequiredWords put in for a number of words. *)
Block(op, found) == IF Len(found) = 1 THEN found ELSE Bracketed(Between(op, found))

HasBlock(T, op, found, n, x, y) ==
  /\ x \in Nat /\ y = x + 2 * n + 1 /\ y <= Len(T)
  /\ T[x + 1].type = "(" /\ T[y].type = ")"
  /\ \A i \in 1 .. n : T[x + 2 * i] = found[i]
  /\ \A i \in 1 .. n - 1 : T[x + 2 * i + 1].type = op

LEMMA BlockShape ==
  ASSUME NEW T, NEW op \in {"&", "|"}, NEW S, NEW found \in Seq(S), NEW n \in Nat, n = Len(found), n >= 2,
         NEW x, NEW y, LaidAt(T, Block(op, found), x, y)
  PROVE  HasBlock(T, op, found, n, x, y)
<1> DEFINE R == S \union {Token(t) : t \in {"(", ")", "&", "|"}}
<1>1. found \in Seq(R) /\ Token(op) \in R /\ Token("(") \in R /\ Token(")") \in R
  <2>1. S \subseteq R /\ Token(op) \in R /\ Token("(") \in R /\ Token(")") \in R
    OBVIOUS
  <2> HIDE DEF R
  <2> QED  BY <2>1, SeqMonotonic
<1> HIDE DEF R
<1>2. PICK w, b : w = Between(op, found) /\ b = Bracketed(w)
  OBVIOUS
<1>3. w \in Seq(R) /\ Alternate(w, op, found, n)
  <2>1. n >= 1
    OBVIOUS
  <2> QED  BY <1>1, <1>2, <2>1, BetweenIs
<1>4. PICK m \in Nat : m = 2 * n - 1
  OBVIOUS
<1>5. Encloses(b, w, m)
  <2>1. Len(w) = m
    BY <1>3, <1>4 DEF Alternate
  <2> QED  BY <1>1, <1>2, <1>3, <2>1, BracketedIs
<1>6. b = Block(op, found)
  BY <1>2 DEF Block
<1>7. x \in Nat /\ y = x + Len(b) /\ y <= Len(T) /\ \A j \in 1 .. Len(b) : T[x + j] = b[j]
  BY <1>6 DEF LaidAt
<1>8. 1 \in 1 .. Len(b) /\ m + 2 \in 1 .. Len(b) /\ y = x + (m + 2) /\ y = x + 2 * n + 1
  BY <1>4, <1>5, <1>7 DEF Encloses
<1>9. T[x + 1] = Token("(") /\ T[y] = Token(")")
  BY <1>5, <1>7, <1>8 DEF Encloses
<1>10. \A k \in 1 .. m : T[x + (k + 1)] = w[k]
  <2> TAKE k \in 1 .. m
  <2>1. k + 1 \in 1 .. Len(b)
    BY <1>5 DEF Encloses
  <2> QED  BY <1>5, <1>7, <2>1 DEF Encloses
<1>11. ASSUME NEW i \in 1 .. n PROVE T[x + 2 * i] = found[i]
  <2>1. 2 * i - 1 \in 1 .. m
    BY <1>4
  <2>2. PICK k \in 1 .. m : k = 2 * i - 1 /\ x + (k + 1) = x + 2 * i
    BY <1>7, <2>1
  <2> QED  BY <1>3, <1>10, <2>2 DEF Alternate
<1>12. ASSUME NEW i \in 1 .. n - 1 PROVE T[x + 2 * i + 1] = Token(op)
  <2>1. 2 * i \in 1 .. m
    BY <1>4
  <2>2. PICK k \in 1 .. m : k = 2 * i /\ x + (k + 1) = x + 2 * i + 1
    BY <1>7, <2>1
  <2> QED  BY <1>3, <1>10, <2>2 DEF Alternate
<1> QED  BY <1>7, <1>8, <1>9, <1>11, <1>12 DEF Token, HasBlock

(* Operands with the same operator between each two: those behind place s   *)
(* up to e, d brackets deep.                                                *)
Chained(T, M, s, op, d, e, v) ==
  IF e = s THEN v = Ignored
  ELSE e \in s + 1 .. Len(T) /\ M[<<s + 1, e>>] = v /\ At(T, s + 1, e, Operators \ {op}, d) = {}

Joins(T, op, s, d, e, b) ==
  IF e = s THEN b = s
  ELSE b = e + 1 /\ T[b].type = op /\ ~InPhrase(T, b) /\ Depth(T, b) = d

LEMMA Chains ==
  ASSUME NEW T, Len(T) \in Nat, NEW leaf, NEW M, Means(T, leaf, M), NEW op \in {"&", "|"},
         NEW s \in Nat, NEW d, Depth(T, s) = d, NEW e, NEW v, Chained(T, M, s, op, d, e, v),
         NEW b, Joins(T, op, s, d, e, b),
         NEW y \in b + 1 .. Len(T), At(T, b + 1, y, Operators, d) = {}
  PROVE  Chained(T, M, s, op, d, y, Joined(op, v, M[<<b + 1, y>>])) /\ y # s
<1>1. CASE e = s
  <2>1. v = Ignored /\ b = s /\ y \in s + 1 .. Len(T) /\ y # s
    BY <1>1 DEF Chained, Joins
  <2>2. op # "!"
    OBVIOUS
  <2>3. Joined(op, v, M[<<b + 1, y>>]) = M[<<b + 1, y>>]
    BY <2>1, <2>2 DEF Joined
  <2>4. At(T, s + 1, y, Operators \ {op}, d) = {}
    BY <2>1 DEF At
  <2> QED  BY <2>1, <2>3, <2>4 DEF Chained
<1>2. CASE e # s
  <2>1. /\ e \in s + 1 .. Len(T) /\ M[<<s + 1, e>>] = v /\ At(T, s + 1, e, Operators \ {op}, d) = {}
        /\ b = e + 1 /\ T[b].type = op /\ ~InPhrase(T, b) /\ Depth(T, b) = d
    BY <1>2 DEF Chained, Joins
  <2>2. PICK a \in Nat : a = s + 1
    OBVIOUS
  <2>3. /\ a \in 1 .. Len(T) /\ y \in a .. Len(T) /\ b \in a .. y /\ Depth(T, a - 1) = d /\ b - 1 = e
        /\ e \in Nat /\ b \in Nat /\ y \in Nat /\ y # s
    BY <2>1, <2>2
  <2>4. b \in At(T, a, y, {op}, d)
    BY <2>1, <2>3 DEF At
  <2>5. At(T, a, y, Operators \ {op}, d) = {}
    <3>1. ASSUME NEW k \in At(T, a, y, Operators \ {op}, d) PROVE FALSE
      <4>1. k \in a .. y /\ T[k].type \in Operators \ {op} /\ ~InPhrase(T, k) /\ Depth(T, k) = d
        BY <3>1 DEF At
      <4>2. k # b
        BY <2>1, <4>1
      <4>3. k \in s + 1 .. e \/ k \in b + 1 .. y
        BY <2>1, <2>2, <2>3, <4>1, <4>2
      <4>4. k \in At(T, s + 1, e, Operators \ {op}, d) \/ k \in At(T, b + 1, y, Operators, d)
        BY <4>1, <4>3 DEF At
      <4> QED  BY <2>1, <4>4
    <3> QED  BY <3>1
  <2>6. LastAt(T, a, y, b, d)
    <3>1. CASE op = "|"
      <4>1. At(T, b + 1, y, {"|"}, d) = {}
        BY DEF At, Operators
      <4> QED  BY <2>4, <3>1, <4>1 DEF LastAt
    <3>2. CASE op = "&"
      <4>1. At(T, a, y, {"|"}, d) = {} /\ b \in At(T, a, y, {"&", "!"}, d)
        BY <2>4, <2>5, <3>2 DEF At, Operators
      <4> QED  BY <4>1 DEF LastAt
    <3> QED  BY <3>1, <3>2
  <2>7. M[<<a, y>>] = Joined(T[b].type, M[<<a, b - 1>>], M[<<b + 1, y>>])
    BY <2>3, <2>6, SplitsAt
  <2>8. M[<<a, y>>] = Joined(op, v, M[<<b + 1, y>>])
    BY <2>1, <2>2, <2>3, <2>7
  <2> QED  BY <2>2, <2>3, <2>5, <2>8 DEF Chained
<1> QED  BY <1>1, <1>2

(* The words behind x up to y are an operand with the meaning v. *)
Operand(T, M, x, y, v) ==
  /\ y \in x + 1 .. Len(T) /\ ~InPhrase(T, y) /\ Depth(T, y) = Depth(T, x)
  /\ At(T, x + 1, y, Operators, Depth(T, x)) = {}
  /\ \A k \in x .. y : Depth(T, k) >= Depth(T, x)
  /\ M[<<x + 1, y>>] = v

(* One word. *)
LEMMA WordOperand ==
  ASSUME NEW T, Len(T) \in Nat, NEW leaf, NEW M, Means(T, leaf, M),
         NEW x \in 0 .. Len(T) - 1, ~InPhrase(T, x), IsWord(T[x + 1])
  PROVE  Operand(T, M, x, x + 1, leaf[x + 1])
<1>1. T[x + 1].type \notin {"quote", "(", ")"} \union Operators
  BY DEF IsWord, Operators
<1>2. ~InPhrase(T, x + 1) /\ Depth(T, x + 1) = Depth(T, x) /\ Depth(T, x) \in Int
  BY <1>1, NextWord, DepthStep
<1>3. At(T, x + 1, x + 1, Operators, Depth(T, x)) = {}
  BY <1>1 DEF At
<1>4. PICK a : a = x + 1 /\ a \in 1 .. Len(T) /\ a \in a .. Len(T) /\ a - 1 = x
  OBVIOUS
<1>5. M[<<a, a>>] = leaf[a]
  BY <1>1, <1>3, <1>4, IsLeaf
<1>6. \A k \in x .. x + 1 : k = x \/ k = x + 1
  OBVIOUS
<1> QED  BY <1>2, <1>3, <1>4, <1>5, <1>6 DEF Operand

WordTokens == [type : {"word"}, word : Words, fields : SUBSET AllFields]

AnyOf(found, n) == UNION {FoundWith(found[i]) : i \in 1 .. n}

AllOf(found, n) == {d \in FoundWith(found[1]) : \A i \in 1 .. n : d \in FoundWith(found[i])}

BlockMeaning(op, found, n) == ResultList(IF op = "|" THEN AnyOf(found, n) ELSE AllOf(found, n))

LEMMA BlockMeaningStep ==
  ASSUME NEW op \in {"&", "|"}, NEW found, NEW n \in Nat \ {0}
  PROVE  /\ n = 1 => BlockMeaning(op, found, n) = ResultList(FoundWith(found[1]))
         /\ n # 1 => BlockMeaning(op, found, n) =
                       Joined(op, BlockMeaning(op, found, n - 1), ResultList(FoundWith(found[n])))
<1>1. CASE n = 1
  <2>1. 1 .. 1 = {1}
    OBVIOUS
  <2>2. AnyOf(found, 1) = FoundWith(found[1])
    BY <2>1 DEF AnyOf
  <2>3. AllOf(found, 1) = FoundWith(found[1])
    BY <2>1 DEF AllOf
  <2> QED  BY <1>1, <2>2, <2>3 DEF BlockMeaning
<1>2. CASE n # 1
  <2>1. 1 .. n = (1 .. n - 1) \union {n} /\ 1 \in 1 .. n - 1
    BY <1>2
  <2>2. AnyOf(found, n) = AnyOf(found, n - 1) \union FoundWith(found[n])
    BY <2>1 DEF AnyOf
  <2>3. AllOf(found, n) = AllOf(found, n - 1) \intersect FoundWith(found[n])
    BY <2>1 DEF AllOf
  <2>4. \A A, D : /\ Joined("|", ResultList(A), ResultList(D)) = ResultList(A \union D)
                  /\ Joined("&", ResultList(A), ResultList(D)) = ResultList(A \intersect D)
    BY ListIsNotIgnored DEF Joined
  <2> QED  BY <1>2, <2>2, <2>3, <2>4 DEF BlockMeaning
<1> QED  BY <1>1, <1>2

(* What doFuzzy or addRequiredWords put in is an operand. *)
BlockIsDeeper(T, n, x, y) ==
  /\ \A k \in 1 .. 2 * n : ~InPhrase(T, x + k) /\ Depth(T, x + k) = Depth(T, x) + 1
  /\ ~InPhrase(T, y) /\ Depth(T, y) = Depth(T, x) /\ Depth(T, x) \in Int

LEMMA BlockDepths ==
  ASSUME NEW T, NEW op \in {"&", "|"}, NEW S, NEW found \in Seq(S), NEW n \in Nat, n = Len(found), n >= 2,
         \A i \in 1 .. n : found[i].type = "word",
         NEW x, NEW y, LaidAt(T, Block(op, found), x, y), ~InPhrase(T, x)
  PROVE  BlockIsDeeper(T, n, x, y)
<1>1. /\ x \in Nat /\ y = x + 2 * n + 1 /\ y <= Len(T)
      /\ T[x + 1].type = "(" /\ T[y].type = ")"
      /\ \A i \in 1 .. n : T[x + 2 * i] = found[i]
      /\ \A i \in 1 .. n - 1 : T[x + 2 * i + 1].type = op
  <2>1. HasBlock(T, op, found, n, x, y)
    BY BlockShape
  <2> QED  BY <2>1 DEF HasBlock
<1>2. Depth(T, x) \in Int
  BY <1>1, DepthStep
<1> DEFINE Inside(k) == ~InPhrase(T, x + k) /\ Depth(T, x + k) = Depth(T, x) + 1
           Good == {k \in Nat : k = 0 \/ Inside(k)}
<1>3. 0 \in Good
  OBVIOUS
<1>4. ASSUME NEW k \in 1 .. 2 * n, k - 1 \in Good PROVE k \in Good
  <2>1. CASE k = 1
    BY <1>1, <1>2, <2>1, NextWord
  <2>2. CASE k # 1
    <3>1. Inside(k - 1)
      BY <1>4, <2>2
    <3>2. T[x + k].type \in {"word", op}
      <4>1. (\E i \in 1 .. n : k = 2 * i) \/ (\E i \in 1 .. n - 1 : k = 2 * i + 1)
        <5>1. k \in Nat /\ k >= 2 /\ k <= 2 * n
          BY <2>2
        <5>2. PICK h \in Nat : k = 2 * h \/ k = 2 * h + 1
          <6>1. k \div 2 \in Nat /\ (k = 2 * (k \div 2) \/ k = 2 * (k \div 2) + 1)
            BY <5>1
          <6> QED  BY <6>1
        <5>3. CASE k = 2 * h
          <6>1. h \in 1 .. n
            BY <5>1, <5>3
          <6> QED  BY <5>3, <6>1
        <5>4. CASE k = 2 * h + 1
          <6>1. h \in 1 .. n - 1
            BY <5>1, <5>4
          <6> QED  BY <5>4, <6>1
        <5> QED  BY <5>2, <5>3, <5>4
      <4>2. ASSUME NEW i \in 1 .. n, k = 2 * i PROVE T[x + k].type = "word"
        BY <1>1, <4>2
      <4>3. ASSUME NEW i \in 1 .. n - 1, k = 2 * i + 1 PROVE T[x + k].type = op
        <5>1. x + k = x + 2 * i + 1
          BY <1>1, <4>3
        <5> QED  BY <1>1, <5>1
      <4> QED  BY <4>1, <4>2, <4>3
    <3>3. PICK i \in Nat : i = x + (k - 1) /\ i + 1 = x + k
      BY <1>1
    <3> QED  BY <3>1, <3>2, <3>3, NextWord
  <2> QED  BY <2>1, <2>2
<1> HIDE DEF Good
<1>5. \A k \in 0 .. 2 * n : k \in Good
  <2>1. 2 * n \in Nat
    OBVIOUS
  <2> QED  BY <1>3, <1>4, <2>1, UpTo
<1>6. \A k \in 1 .. 2 * n : Inside(k)
  BY <1>5 DEF Good
<1>7. ~InPhrase(T, y) /\ Depth(T, y) = Depth(T, x)
  <2>1. PICK i \in Nat : i = x + 2 * n /\ i + 1 = y
    BY <1>1
  <2>2. 2 * n \in 1 .. 2 * n
    OBVIOUS
  <2>3. ~InPhrase(T, i) /\ Depth(T, i) = Depth(T, x) + 1
    BY <1>6, <2>1, <2>2
  <2> QED  BY <1>1, <1>2, <2>1, <2>3, NextWord, SMTT(30)
<1> QED  BY <1>2, <1>6, <1>7 DEF BlockIsDeeper

WordsFound(T, leaf) == \A k \in 1 .. Len(T) : T[k].type = "word" => leaf[k] = ResultList(FoundWith(T[k]))

LEMMA BlockOperand ==
  ASSUME NEW T, Len(T) \in Nat, NEW leaf, NEW M, Means(T, leaf, M), WordsFound(T, leaf),
         NEW op \in {"&", "|"}, NEW found \in Seq(WordTokens), NEW n \in Nat, n = Len(found), n >= 1,
         NEW x, NEW y, LaidAt(T, Block(op, found), x, y), ~InPhrase(T, x)
  PROVE  Operand(T, M, x, y, BlockMeaning(op, found, n))
<1>1. \A i \in 1 .. n : found[i] \in WordTokens /\ found[i].type = "word"
  <2>1. \A i \in 1 .. n : found[i] \in WordTokens
    OBVIOUS
  <2> QED  BY <2>1 DEF WordTokens
<1>2. ASSUME NEW p \in 0 .. Len(T) - 1, ~InPhrase(T, p), NEW i \in 1 .. n, T[p + 1] = found[i]
      PROVE  Operand(T, M, p, p + 1, ResultList(FoundWith(found[i])))
  <2>1. IsWord(T[p + 1]) /\ T[p + 1].type = "word"
    BY <1>1, <1>2 DEF IsWord
  <2>2. p + 1 \in 1 .. Len(T)
    OBVIOUS
  <2>3. leaf[p + 1] = ResultList(FoundWith(T[p + 1]))
    BY <2>1, <2>2 DEF WordsFound
  <2>4. Operand(T, M, p, p + 1, leaf[p + 1])
    BY <1>2, <2>1, WordOperand
  <2> QED  BY <1>2, <2>3, <2>4
<1>3. CASE n = 1
  <2>1. LaidAt(T, found, x, y)
    BY <1>3 DEF Block
  <2>2. x \in Nat /\ y = x + 1 /\ y <= Len(T) /\ T[x + 1] = found[1]
    BY <1>3, <2>1 DEF LaidAt
  <2>3. x \in 0 .. Len(T) - 1 /\ 1 \in 1 .. n
    BY <1>3, <2>2
  <2>4. Operand(T, M, x, x + 1, ResultList(FoundWith(found[1])))
    BY <1>2, <2>2, <2>3
  <2> QED  BY <1>3, <2>2, <2>4, BlockMeaningStep
<1>4. CASE n # 1
  <2>0. n >= 2
    BY <1>4
  <2>1. /\ x \in Nat /\ y = x + 2 * n + 1 /\ y <= Len(T)
        /\ T[x + 1].type = "(" /\ T[y].type = ")"
        /\ \A i \in 1 .. n : T[x + 2 * i] = found[i]
        /\ \A i \in 1 .. n - 1 : T[x + 2 * i + 1].type = op
    <3>1. HasBlock(T, op, found, n, x, y)
      BY <2>0, BlockShape
    <3> QED  BY <3>1 DEF HasBlock
  <2>2. /\ \A k \in 1 .. 2 * n : ~InPhrase(T, x + k) /\ Depth(T, x + k) = Depth(T, x) + 1
        /\ ~InPhrase(T, y) /\ Depth(T, y) = Depth(T, x) /\ Depth(T, x) \in Int
    <3>1. BlockIsDeeper(T, n, x, y)
      BY <1>1, <2>0, BlockDepths
    <3> QED  BY <3>1 DEF BlockIsDeeper
  <2>3. PICK s, d : s = x + 1 /\ d = Depth(T, x) + 1
    OBVIOUS
  <2>4. s \in Nat /\ Depth(T, s) = d
    <3>1. 1 \in 1 .. 2 * n
      BY <2>0
    <3> QED  BY <2>1, <2>2, <2>3, <3>1
  <2>5. ASSUME NEW i \in 1 .. n
        PROVE  LET p == x + 2 * i
               IN  /\ p \in s + 1 .. Len(T) /\ At(T, p, p, Operators, d) = {}
                   /\ M[<<p, p>>] = ResultList(FoundWith(found[i]))
    <3>1. PICK q, p : p = x + 2 * i /\ q + 1 = p /\ q = x + (2 * i - 1)
      BY <2>1
    <3>2. 2 * i - 1 \in 1 .. 2 * n
      OBVIOUS
    <3>3. ~InPhrase(T, q) /\ Depth(T, q) = d
      BY <2>2, <2>3, <3>1, <3>2
    <3>4. q \in 0 .. Len(T) - 1 /\ p \in s + 1 .. Len(T)
      BY <2>1, <2>3, <3>1, SMTT(30)
    <3>5. T[q + 1] = found[i]
      BY <2>1, <3>1
    <3>6. Operand(T, M, q, q + 1, ResultList(FoundWith(found[i])))
      BY <1>2, <3>3, <3>4, <3>5
    <3> QED  BY <3>1, <3>3, <3>4, <3>6 DEF Operand
  <2> DEFINE Good == {i \in Nat : i = 0 \/ Chained(T, M, s, op, d, x + 2 * i, BlockMeaning(op, found, i))}
  <2>6. 0 \in Good
    OBVIOUS
  <2>7. ASSUME NEW i \in 1 .. n, i - 1 \in Good PROVE i \in Good
    <3>1. PICK p : p = x + 2 * i
      OBVIOUS
    <3>2. /\ p \in s + 1 .. Len(T) /\ At(T, p, p, Operators, d) = {}
          /\ M[<<p, p>>] = ResultList(FoundWith(found[i]))
      BY <2>5, <3>1
    <3>3. p \in Nat /\ p >= s + 1
      BY <2>4, <3>2
    <3>4. CASE i = 1
      <4>1. Chained(T, M, s, op, d, s, Ignored)
        BY DEF Chained
      <4>2. p = s + 1
        BY <2>1, <2>3, <3>1, <3>4
      <4>3. Chained(T, M, s, op, d, p, Joined(op, Ignored, M[<<s + 1, p>>]))
        <5>1. Joins(T, op, s, d, s, s)
          BY DEF Joins
        <5>2. p \in s + 1 .. Len(T) /\ At(T, s + 1, p, Operators, d) = {}
          BY <3>2, <4>2
        <5> QED  BY <2>4, <4>1, <5>1, <5>2, Chains
      <4>4. Joined(op, Ignored, ResultList(FoundWith(found[1]))) = ResultList(FoundWith(found[1]))
        <5>1. op # "!"
          OBVIOUS
        <5> QED  BY <5>1, ListIsNotIgnored DEF Joined
      <4>5. BlockMeaning(op, found, 1) = ResultList(FoundWith(found[1]))
        BY BlockMeaningStep
      <4> QED  BY <3>1, <3>2, <3>4, <4>2, <4>3, <4>4, <4>5
    <3>5. CASE i # 1
      <4>1. PICK e, b, v : e = x + 2 * (i - 1) /\ b = e + 1 /\ v = BlockMeaning(op, found, i - 1)
        OBVIOUS
      <4>2. Chained(T, M, s, op, d, e, v)
        BY <2>7, <3>5, <4>1
      <4>3. /\ e # s /\ b + 1 = p /\ b = x + 2 * (i - 1) + 1 /\ b = x + (2 * i - 1)
            /\ i - 1 \in 1 .. n - 1 /\ 2 * i - 1 \in 1 .. 2 * n
        BY <2>1, <2>3, <3>1, <3>5, <4>1
      <4>4. T[b].type = op
        BY <2>1, <4>3
      <4>5. ~InPhrase(T, b) /\ Depth(T, b) = d
        BY <2>2, <2>3, <4>3
      <4>6. p \in b + 1 .. Len(T) /\ At(T, b + 1, p, Operators, d) = {}
        BY <3>2, <3>3, <4>3
      <4>7. Chained(T, M, s, op, d, p, Joined(op, v, M[<<b + 1, p>>]))
        <5>1. Joins(T, op, s, d, e, b)
          BY <4>1, <4>3, <4>4, <4>5 DEF Joins
        <5> QED  BY <2>4, <4>2, <4>6, <5>1, Chains
      <4>8. Joined(op, v, M[<<b + 1, p>>]) = BlockMeaning(op, found, i)
        <5>1. i \in Nat \ {0}
          OBVIOUS
        <5>2. BlockMeaning(op, found, i) =
                Joined(op, BlockMeaning(op, found, i - 1), ResultList(FoundWith(found[i])))
          BY <3>5, <5>1, BlockMeaningStep
        <5> QED  BY <3>2, <4>1, <4>3, <5>2
      <4> QED  BY <3>1, <4>7, <4>8
    <3> QED  BY <3>4, <3>5
  <2> HIDE DEF Good
  <2>8. n \in Good
    <3>1. n \in 0 .. n
      OBVIOUS
    <3> QED  BY <2>6, <2>7, <3>1, UpTo
  <2>9. Chained(T, M, s, op, d, x + 2 * n, BlockMeaning(op, found, n))
    BY <2>0, <2>8 DEF Good
  <2>10. M[<<x + 2, x + 2 * n>>] = BlockMeaning(op, found, n)
    <3>1. x + 2 * n # s /\ s + 1 = x + 2
      BY <2>0, <2>1, <2>3
    <3> QED  BY <2>9, <3>1 DEF Chained
  <2>11. \A k \in x .. y : Depth(T, k) >= Depth(T, x) /\ (k # x /\ k # y => Depth(T, k) # Depth(T, x))
    <3> TAKE k \in x .. y
    <3>1. CASE k = x \/ k = y
      BY <2>2, <3>1
    <3>2. CASE k # x /\ k # y
      <4>1. PICK j \in 1 .. 2 * n : k = x + j
        <5>1. k - x \in 1 .. 2 * n /\ k = x + (k - x)
          BY <2>1, <3>2
        <5> QED  BY <5>1
      <4> QED  BY <2>2, <4>1
    <3> QED  BY <3>1, <3>2
  <2>12. At(T, x + 1, y, Operators, Depth(T, x)) = {}
    <3>1. ASSUME NEW k \in At(T, x + 1, y, Operators, Depth(T, x)) PROVE FALSE
      <4>1. k \in x .. y /\ k # x /\ T[k].type \in Operators /\ Depth(T, k) = Depth(T, x)
        BY <2>1, <3>1 DEF At
      <4>2. k = y
        BY <2>11, <4>1
      <4> QED  BY <2>1, <4>1, <4>2 DEF Operators
    <3> QED  BY <3>1
  <2>13. M[<<x + 1, y>>] = BlockMeaning(op, found, n)
    <3>1. PICK a : /\ a = x + 1 /\ a \in 1 .. Len(T) /\ y \in a .. Len(T)
                   /\ a - 1 = x /\ a + 1 = x + 2 /\ y - 1 = x + 2 * n
      <4>1. PICK m \in Nat : m = 2 * n
        OBVIOUS
      <4>2. y = x + m + 1 /\ x \in Nat /\ y <= Len(T)
        BY <2>1, <4>1
      <4>3. x + 1 \in 1 .. Len(T) /\ y \in x + 1 .. Len(T) /\ y - 1 = x + m
        BY <4>2
      <4> QED  BY <4>1, <4>2, <4>3
    <3>2. At(T, a, y, Operators, Depth(T, a - 1)) = {}
      BY <2>12, <3>1
    <3>3. T[a].type = "("
      BY <2>1, <3>1
    <3>4. M[<<a, y>>] = M[<<a + 1, y - 1>>]
      BY <3>1, <3>2, <3>3, IsBracket
    <3> QED  BY <2>10, <3>1, <3>4
  <2>14. y \in x + 1 .. Len(T)
    BY <2>1
  <2> QED  BY <2>2, <2>11, <2>12, <2>13, <2>14 DEF Operand
<1> QED  BY <1>3, <1>4

(* A phrase means the same wherever its words stand. *)
LEMMA LeastIs ==
  ASSUME NEW S \in SUBSET Nat, NEW a \in S, \A j \in S : a <= j
  PROVE  Least(S) = a
<1>1. Least(S) \in S /\ \A j \in S : Least(S) <= j
  BY LeastExists
<1>2. PICK b \in Nat : b = Least(S)
  BY <1>1
<1>3. b <= a /\ a <= b
  BY <1>1, <1>2
<1> QED  BY <1>2, <1>3

LEMMA PlaceIsPassed ==
  ASSUME NEW W, NEW u \in Nat, NEW a \in LookedUp(W, u), \A j \in LookedUp(W, u) : a <= j,
         NEW i \in Nat
  PROVE  Place(W, u, i) = Passed(W, a, i)
<1>1. LookedUp(W, u) \in SUBSET Nat /\ a \in Nat /\ a # 0
  BY DEF LookedUp, Phrase
<1>2. Least(LookedUp(W, u)) = a
  BY <1>1, LeastIs
<1>3. {j \in a .. i - 1 : W[j].type \in {"word", "bad"}} = {j \in 1 .. i - 1 : j \in Placed(W, a)}
  BY <1>1 DEF Placed
<1> QED  BY <1>2, <1>3 DEF Place, Passed

(* The m words of the phrase with its quotes at u and u + m + 1. *)
PhraseIs(W, u, m) ==
  /\ Len(W) \in Nat /\ u \in Nat \ {0} /\ m \in Nat /\ u + m + 1 <= Len(W)
  /\ \A j \in 1 .. m : W[u + j].type # "quote"
  /\ W[u + m + 1].type = "quote"

LEMMA PhraseWords ==
  ASSUME NEW W, NEW u, NEW m, PhraseIs(W, u, m)
  PROVE  LookedUp(W, u) = {u + j : j \in {h \in 1 .. m : W[u + h].type = "word"}}
<1>1. /\ Len(W) \in Nat /\ u \in Nat /\ u # 0 /\ m \in Nat /\ u + m + 1 <= Len(W)
      /\ \A j \in 1 .. m : W[u + j].type # "quote"
      /\ W[u + m + 1].type = "quote"
  BY DEF PhraseIs
<1>2. ASSUME NEW i \in Phrase(W, u) PROVE i - u \in 1 .. m /\ i = u + (i - u)
  <2>1. i \in u + 1 .. Len(W) /\ \A j \in u + 1 .. i : W[j].type # "quote"
    BY DEF Phrase
  <2>2. u + m + 1 \notin u + 1 .. i
    BY <1>1, <2>1
  <2>3. i \in Int /\ i >= u + 1 /\ ~(u + m + 1 <= i)
    BY <1>1, <2>1, <2>2
  <2> QED  BY <1>1, <2>3
<1>3. ASSUME NEW h \in 1 .. m PROVE u + h \in Phrase(W, u)
  <2>1. u + h \in u + 1 .. Len(W)
    BY <1>1
  <2>2. ASSUME NEW j \in u + 1 .. u + h PROVE W[j].type # "quote"
    <3>1. j - u \in 1 .. m /\ j = u + (j - u)
      BY <1>1
    <3> QED  BY <1>1, <3>1
  <2> QED  BY <2>1, <2>2 DEF Phrase
<1>4. ASSUME NEW i \in LookedUp(W, u)
      PROVE  i \in {u + j : j \in {h \in 1 .. m : W[u + h].type = "word"}}
  <2>1. i \in Phrase(W, u) /\ W[i].type = "word"
    BY DEF LookedUp
  <2>2. PICK h : h = i - u
    OBVIOUS
  <2>3. h \in 1 .. m /\ i = u + h
    BY <1>2, <2>1, <2>2
  <2> QED  BY <2>1, <2>3
<1>5. ASSUME NEW h \in 1 .. m, W[u + h].type = "word" PROVE u + h \in LookedUp(W, u)
  BY <1>3, <1>5 DEF LookedUp
<1> QED  BY <1>4, <1>5

SamePhrase(W, u, T, t, m) ==
  PhraseIs(W, u, m) /\ PhraseIs(T, t, m) /\ \A j \in 1 .. m : T[t + j] = W[u + j]

LEMMA PlacesMove ==
  ASSUME NEW W, NEW u, NEW T, NEW t, NEW m, SamePhrase(W, u, T, t, m), NEW a \in 1 .. m
  PROVE  \A i \in 1 .. m : Passed(T, t + a, t + i) = Passed(W, u + a, u + i)
<1>1. u \in Nat /\ t \in Nat /\ m \in Nat /\ u # 0 /\ t # 0 /\ \A j \in 1 .. m : T[t + j] = W[u + j]
  BY DEF SamePhrase, PhraseIs
<1> DEFINE Good == {i \in Nat : i = 0 \/ Passed(T, t + a, t + i) = Passed(W, u + a, u + i)}
<1>2. 0 \in Good
  OBVIOUS
<1>3. ASSUME NEW i \in 1 .. m, i - 1 \in Good PROVE i \in Good
  <2>1. t + a \in Nat \ {0} /\ u + a \in Nat \ {0} /\ t + i \in Nat \ {0} /\ u + i \in Nat \ {0}
    BY <1>1
  <2>2. CASE i = 1
    <3>1. t + i <= t + a /\ u + i <= u + a
      BY <1>1, <2>2
    <3>2. Passed(T, t + a, t + i) = 0 /\ Passed(W, u + a, u + i) = 0
      BY <2>1, <3>1, PassedStep
    <3> QED  BY <3>2
  <2>3. CASE i # 1
    <3>1. PICK h \in 1 .. m : h = i - 1 /\ h + 1 = i
      BY <1>1, <2>3
    <3>2. PICK x, y : x = t + h /\ y = u + h /\ x + 1 = t + i /\ y + 1 = u + i
      BY <1>1, <3>1
    <3>3. x \in Nat \ {0} /\ y \in Nat \ {0}
      BY <1>1, <3>2
    <3>4. /\ Passed(T, t + a, x + 1) = Passed(T, t + a, x) + Count(x \in Placed(T, t + a))
          /\ Passed(W, u + a, y + 1) = Passed(W, u + a, y) + Count(y \in Placed(W, u + a))
      BY <2>1, <3>3, PassedStep
    <3>5. x \in Placed(T, t + a) <=> y \in Placed(W, u + a)
      <4>1. x >= t + a <=> y >= u + a
        BY <1>1, <3>2
      <4>2. T[x] = W[y]
        BY <1>1, <3>2
      <4> QED  BY <3>3, <4>1, <4>2 DEF Placed
    <3>6. Passed(T, t + a, x) = Passed(W, u + a, y)
      BY <1>3, <2>3, <3>1, <3>2
    <3>7. Count(x \in Placed(T, t + a)) = Count(y \in Placed(W, u + a))
      BY <3>5, Zenon DEF Count
    <3> QED  BY <3>2, <3>4, <3>6, <3>7
  <2> QED  BY <2>2, <2>3
<1> HIDE DEF Good
<1>4. \A i \in 0 .. m : i \in Good
  BY <1>1, <1>2, <1>3, UpTo
<1> QED  BY <1>4 DEF Good

LEMMA PhraseMoves ==
  ASSUME NEW W, NEW u, NEW T, NEW t, NEW m, SamePhrase(W, u, T, t, m)
  PROVE  PhraseMeaning(T, t) = PhraseMeaning(W, u)
<1> DEFINE J == {h \in 1 .. m : W[u + h].type = "word"}
<1>1. u \in Nat /\ t \in Nat /\ m \in Nat /\ \A j \in 1 .. m : T[t + j] = W[u + j]
  BY DEF SamePhrase, PhraseIs
<1>2. LookedUp(W, u) = {u + j : j \in J} /\ LookedUp(T, t) = {t + j : j \in J}
  <2>1. LookedUp(T, t) = {t + j : j \in {h \in 1 .. m : T[t + h].type = "word"}}
    BY PhraseWords DEF SamePhrase
  <2>2. {h \in 1 .. m : T[t + h].type = "word"} = J
    BY <1>1
  <2>3. LookedUp(W, u) = {u + j : j \in J}
    BY PhraseWords DEF SamePhrase
  <2> QED  BY <2>1, <2>2, <2>3
<1>3. J \in SUBSET (1 .. m) /\ J \in SUBSET Nat
  OBVIOUS
<1> HIDE DEF J
<1>4. CASE J = {}
  <2>1. LookedUp(W, u) = {} /\ LookedUp(T, t) = {}
    BY <1>2, <1>4
  <2> QED  BY <2>1 DEF PhraseMeaning
<1>5. CASE J # {}
  <2>1. PICK a \in J : \A j \in J : a <= j
    BY <1>3, <1>5, LeastExists
  <2>2. ASSUME NEW i \in J PROVE Place(T, t, t + i) = Place(W, u, u + i)
    <3>1. PICK x, y : x = t + a /\ y = u + a
      OBVIOUS
    <3>2. x \in LookedUp(T, t) /\ \A j \in LookedUp(T, t) : x <= j
      BY <1>1, <1>2, <1>3, <2>1, <3>1
    <3>3. y \in LookedUp(W, u) /\ \A j \in LookedUp(W, u) : y <= j
      BY <1>1, <1>2, <1>3, <2>1, <3>1
    <3>4. t + i \in Nat /\ u + i \in Nat /\ a \in 1 .. m /\ i \in 1 .. m
      BY <1>1, <1>3
    <3>5. Place(T, t, t + i) = Passed(T, x, t + i) /\ Place(W, u, u + i) = Passed(W, y, u + i)
      BY <1>1, <3>2, <3>3, <3>4, PlaceIsPassed
    <3> QED  BY <3>1, <3>4, <3>5, PlacesMove
  <2>3. \A i \in J : T[t + i] = W[u + i]
    BY <1>1, <1>3
  <2>4. \A d, start :
          (\A i \in LookedUp(T, t) : \E k \in Occurrences(T[i].word) :
              DocID(k) = d /\ Location(k) = start + Place(T, t, i))
          <=> (\A i \in LookedUp(W, u) : \E k \in Occurrences(W[i].word) :
                 DocID(k) = d /\ Location(k) = start + Place(W, u, i))
    <3> TAKE d, start
    <3> DEFINE A(i) == \E k \in Occurrences(T[i].word) : DocID(k) = d /\ Location(k) = start + Place(T, t, i)
               B(i) == \E k \in Occurrences(W[i].word) : DocID(k) = d /\ Location(k) = start + Place(W, u, i)
    <3>1. \A i \in J : A(t + i) <=> B(u + i)
      BY <2>2, <2>3
    <3> HIDE DEF A, B
    <3>2. (\A i \in LookedUp(T, t) : A(i)) <=> (\A i \in J : A(t + i))
      BY <1>2
    <3>3. (\A i \in LookedUp(W, u) : B(i)) <=> (\A i \in J : B(u + i))
      BY <1>2
    <3>4. (\A i \in LookedUp(T, t) : A(i)) <=> (\A i \in LookedUp(W, u) : B(i))
      BY <3>1, <3>2, <3>3
    <3> QED  BY <3>4 DEF A, B
  <2>5. LookedUp(T, t) # {} /\ LookedUp(W, u) # {}
    BY <1>2, <1>5
  <2> QED  BY <2>4, <2>5 DEF PhraseMeaning
<1> QED  BY <1>4, <1>5

(* doFuzzy puts in what a word means. *)
FuzzyFound(t) ==
  IF Fuzzy[t.word] = <<>> THEN <<Word(t.word, AllFields)>>
  ELSE [i \in DOMAIN Fuzzy[t.word] |-> Word(Fuzzy[t.word][i], t.fields)]

FuzzyMeaning(t) == BlockMeaning("|", FuzzyFound(t), Len(FuzzyFound(t)))

HasSubstitutes(t) == Fuzzy[t.word] # <<>> \/ t.fields = AllFields

LEMMA FuzzyFoundIs ==
  ASSUME Fuzzy \in [Words -> Seq(Words)], NEW t \in WordTokens
  PROVE  /\ FuzzyFound(t) \in Seq(WordTokens) /\ Len(FuzzyFound(t)) >= 1
         /\ doFuzzy(t) = Block("|", FuzzyFound(t))
<1> DEFINE found == [i \in DOMAIN Fuzzy[t.word] |-> Word(Fuzzy[t.word][i], t.fields)]
<1>1. t.word \in Words /\ t.fields \in SUBSET AllFields /\ t.type = "word"
  BY DEF WordTokens
<1>2. Fuzzy[t.word] \in Seq(Words)
  BY <1>1
<1>3. \A w \in Words, fields \in SUBSET AllFields : Word(w, fields) \in WordTokens
  BY DEF WordTokens, Word
<1>4. PICK n \in Nat : n = Len(Fuzzy[t.word]) /\ DOMAIN Fuzzy[t.word] = 1 .. n
                       /\ (Fuzzy[t.word] = <<>> <=> n = 0)
                       /\ \A i \in 1 .. n : Fuzzy[t.word][i] \in Words
  BY <1>2
<1>5. found \in [1 .. n -> WordTokens]
  BY <1>1, <1>3, <1>4
<1>6. found \in Seq(WordTokens) /\ Len(found) = n
  <2>1. [1 .. n -> WordTokens] \subseteq Seq(WordTokens)
    OBVIOUS
  <2>2. found \in Seq(WordTokens)
    BY <1>5, <2>1
  <2>3. DOMAIN found = 1 .. n
    BY <1>5
  <2> QED  BY <2>2, <2>3, LenProperties
<1>7. doFuzzy(t) = IF found = <<>> THEN <<Word(t.word, AllFields)>>
                   ELSE IF Len(found) = 1 THEN found
                   ELSE Bracketed(Between("|", found))
  BY DEF doFuzzy
<1>8. FuzzyFound(t) = IF n = 0 THEN <<Word(t.word, AllFields)>> ELSE found
  BY <1>4 DEF FuzzyFound
<1> HIDE DEF found
<1>9. found = <<>> <=> n = 0
  BY <1>4, <1>6
<1>10. CASE n = 0
  <2>1. PICK w \in WordTokens : w = Word(t.word, AllFields)
    BY <1>1, <1>3
  <2>2. FuzzyFound(t) = <<w>> /\ doFuzzy(t) = <<w>>
    BY <1>7, <1>8, <1>9, <1>10, <2>1
  <2>3. <<w>> \in Seq(WordTokens) /\ Len(<<w>>) = 1
    OBVIOUS
  <2> QED  BY <2>2, <2>3 DEF Block
<1>11. CASE n # 0
  <2>1. FuzzyFound(t) = found
    BY <1>8, <1>11
  <2>2. doFuzzy(t) = Block("|", found)
    BY <1>7, <1>9, <1>11 DEF Block
  <2> QED  BY <1>4, <1>6, <1>11, <2>1, <2>2
<1> QED  BY <1>10, <1>11

LEMMA FuzzyMeans ==
  ASSUME Fuzzy \in [Words -> Seq(Words)], NEW t \in WordTokens, HasSubstitutes(t)
  PROVE  FuzzyMeaning(t) = ResultList(WordMeaning(t))
<1>1. t.word \in Words /\ Fuzzy[t.word] \in Seq(Words)
  BY DEF WordTokens
<1>2. PICK n \in Nat : n = Len(Fuzzy[t.word]) /\ DOMAIN Fuzzy[t.word] = 1 .. n
                       /\ (Fuzzy[t.word] = <<>> <=> n = 0)
  BY <1>1
<1>3. \A w, fields : FoundWith(Word(w, fields)) =
                       {DocID(k) : k \in {o \in Occurrences(w) : Flags(o) \in fields}}
  BY DEF FoundWith, Word
<1>4. CASE n = 0
  <2>1. t.fields = AllFields /\ FuzzyFound(t) = <<Word(t.word, AllFields)>>
    BY <1>2, <1>4 DEF FuzzyFound, HasSubstitutes
  <2>2. WordMeaning(t) = FoundWith(Word(t.word, AllFields))
    BY <1>2, <1>3, <1>4, <2>1 DEF WordMeaning
  <2>3. Len(FuzzyFound(t)) = 1 /\ FuzzyFound(t)[1] = Word(t.word, AllFields)
    BY <2>1
  <2>4. AnyOf(FuzzyFound(t), 1) = FoundWith(FuzzyFound(t)[1])
    BY DEF AnyOf
  <2> QED  BY <2>2, <2>3, <2>4 DEF FuzzyMeaning, BlockMeaning
<1>5. CASE n # 0
  <2> DEFINE F == FuzzyFound(t)
             found(w) == {o \in Occurrences(w) : Flags(o) \in t.fields}
  <2>1. F = [i \in 1 .. n |-> Word(Fuzzy[t.word][i], t.fields)]
    BY <1>2, <1>5 DEF FuzzyFound
  <2>2. Len(F) = n
    BY <2>1
  <2>3. \A i \in 1 .. n : F[i] = Word(Fuzzy[t.word][i], t.fields)
    BY <2>1
  <2>4. WordMeaning(t) = {DocID(k) : k \in UNION {found(w) : w \in {Fuzzy[t.word][i] : i \in 1 .. n}}}
    BY <1>2, <1>5 DEF WordMeaning, Seqs!ToSet
  <2>5. \A i \in 1 .. n : FoundWith(F[i]) = {DocID(k) : k \in found(Fuzzy[t.word][i])}
    BY <1>3, <2>3
  <2> HIDE DEF F, found
  <2>6. AnyOf(F, n) = {DocID(k) : k \in UNION {found(w) : w \in {Fuzzy[t.word][i] : i \in 1 .. n}}}
    <3>1. ASSUME NEW d \in AnyOf(F, n)
          PROVE  d \in {DocID(k) : k \in UNION {found(w) : w \in {Fuzzy[t.word][i] : i \in 1 .. n}}}
      <4>1. PICK i \in 1 .. n : d \in FoundWith(F[i])
        BY DEF AnyOf
      <4>2. PICK k \in found(Fuzzy[t.word][i]) : d = DocID(k)
        BY <2>5, <4>1
      <4> QED  BY <4>2
    <3>2. ASSUME NEW i \in 1 .. n, NEW k \in found(Fuzzy[t.word][i]) PROVE DocID(k) \in AnyOf(F, n)
      <4>1. DocID(k) \in FoundWith(F[i])
        BY <2>5
      <4> QED  BY <4>1 DEF AnyOf
    <3> QED  BY <3>1, <3>2
  <2>7. FuzzyMeaning(t) = ResultList(AnyOf(F, n))
    BY <2>2 DEF FuzzyMeaning, BlockMeaning, F
  <2> QED  BY <2>4, <2>6, <2>7
<1> QED  BY <1>4, <1>5

(* What is laid out in x, and x somewhere in y. *)
LEMMA LaidInside ==
  ASSUME NEW x, NEW B, NEW n \in Nat, LaysUpTo(x, B, n), NEW y, Len(y) \in Nat, NEW s, NEW e,
         LaidAt(y, x, s, e), \A i \in 1 .. n : Len(B[i]) \in Nat
  PROVE  \E o : Laid(y, B, n, s, o) /\ o[n] = e
<1>1. /\ s \in Nat /\ Len(x) \in Nat /\ e = s + Len(x) /\ e <= Len(y)
      /\ \A j \in 1 .. Len(x) : y[s + j] = x[j]
  BY DEF LaidAt
<1>2. PICK p : Laid(x, B, n, 0, p) /\ p[n] = Len(x)
  BY DEF LaysUpTo
<1>3. p[0] = 0 /\ \A i \in 1 .. n : LaidAt(x, B[i], p[i - 1], p[i])
  BY <1>2 DEF Laid
<1> DEFINE o == [i \in 0 .. n |-> s + p[i]]
<1>4. o[0] = s /\ o[n] = e
  <2>1. 0 \in 0 .. n /\ n \in 0 .. n
    OBVIOUS
  <2>2. o[0] = s + p[0] /\ o[n] = s + p[n]
    BY <2>1
  <2> HIDE DEF o
  <2> QED  BY <1>1, <1>2, <1>3, <2>2
<1>5. ASSUME NEW i \in 1 .. n PROVE LaidAt(y, B[i], o[i - 1], o[i])
  <2>1. PICK b, f : b = p[i - 1] /\ f = p[i] /\ LaidAt(x, B[i], b, f)
    BY <1>3
  <2>2. o[i - 1] = s + b /\ o[i] = s + f
    BY <2>1
  <2>3. PICK m \in Nat : m = Len(B[i]) /\ b \in Nat /\ f = b + m /\ f <= Len(x)
                         /\ \A j \in 1 .. m : x[b + j] = B[i][j]
    BY <2>1 DEF LaidAt
  <2>4. s + b \in Nat /\ s + f = s + b + m /\ s + f <= Len(y)
    <3>1. s \in Nat /\ b \in Nat /\ f \in Nat /\ f = b + m /\ e = s + Len(x)
      BY <1>1, <2>3
    <3>2. s + b \in Nat /\ s + f = s + b + m
      BY <3>1
    <3>3. s + f <= Len(y)
      <4>1. s + f <= e /\ e \in Nat
        BY <1>1, <2>3, <3>1
      <4> QED  BY <1>1, <3>1, <4>1
    <3> QED  BY <3>2, <3>3
  <2>5. ASSUME NEW j \in 1 .. m PROVE y[s + b + j] = B[i][j]
    <3>1. b + j \in 1 .. Len(x) /\ s + b + j = s + (b + j)
      BY <1>1, <2>3
    <3> QED  BY <1>1, <2>3, <3>1
  <2> QED  BY <2>2, <2>3, <2>4, <2>5 DEF LaidAt
<1> QED  BY <1>1, <1>4, <1>5 DEF Laid

(* No place is left out. *)
LEMMA Covers ==
  ASSUME NEW n \in Nat, NEW o, \A i \in 0 .. n : o[i] \in Int, NEW k \in Int, o[0] < k, k <= o[n]
  PROVE  \E i \in 1 .. n : o[i - 1] < k /\ k <= o[i]
<1> SUFFICES ASSUME ~\E i \in 1 .. n : o[i - 1] < k /\ k <= o[i] PROVE FALSE
  OBVIOUS
<1> DEFINE Good == {i \in 0 .. n : o[i] < k}
<1>1. 0 \in Good
  OBVIOUS
<1>2. ASSUME NEW i \in 1 .. n, i - 1 \in Good PROVE i \in Good
  <2>1. o[i - 1] < k /\ i \in 0 .. n /\ o[i] \in Int
    BY <1>2
  <2>2. ~(k <= o[i])
    BY <2>1
  <2> QED  BY <2>1, <2>2
<1> HIDE DEF Good
<1>3. \A i \in 0 .. n : i \in Good
  BY <1>1, <1>2, UpTo
<1>4. n \in 0 .. n
  OBVIOUS
<1>5. o[n] < k /\ o[n] \in Int
  BY <1>3, <1>4 DEF Good
<1> QED  BY <1>5

(* setupWords: every word of W stays as it is, or an operand takes its      *)
(* place; those before place i of W end at place o[i] of T.                 *)
Asks(W, i) == W[i].type = "word" /\ ~InPhrase(W, i)

Setup(W, i) == IF Asks(W, i) THEN doFuzzy(W[i]) ELSE <<W[i]>>

SamePlace(T, W, o, D, i) ==
  o[i] \in 0 .. Len(T) /\ (InPhrase(T, o[i]) <=> InPhrase(W, i)) /\ Depth(T, o[i]) = Depth(W, i) + D

Kept(T, t, x, y) == x \in Nat /\ y = x + 1 /\ y <= Len(T) /\ T[y] = t

Moved(T, W, M, o, i) ==
  IF Asks(W, i) THEN Operand(T, M, o[i - 1], o[i], FuzzyMeaning(W[i])) ELSE Kept(T, W[i], o[i - 1], o[i])

Embeds(T, W, M, o, D) ==
  /\ \A i \in 0 .. Len(W) : SamePlace(T, W, o, D, i)
  /\ \A i \in 1 .. Len(W) : Moved(T, W, M, o, i)

LEMMA KeptPlace ==
  ASSUME NEW T, NEW W, NEW o, NEW D \in Int, NEW i \in Nat \ {0}, SamePlace(T, W, o, D, i - 1),
         Len(T) \in Nat, Kept(T, W[i], o[i - 1], o[i])
  PROVE  SamePlace(T, W, o, D, i)
<1>1. PICK x, y : x = o[i - 1] /\ y = o[i]
  OBVIOUS
<1>2. x \in Nat /\ y = x + 1 /\ y <= Len(T) /\ T[y] = W[i]
  BY <1>1 DEF Kept
<1>3. (InPhrase(T, x) <=> InPhrase(W, i - 1)) /\ Depth(T, x) = Depth(W, i - 1) + D
  BY <1>1 DEF SamePlace
<1>4. y \in Nat /\ y # 0 /\ y - 1 = x /\ i \in Nat /\ i # 0 /\ i - 1 \in Nat
  BY <1>2
<1>5. IsQuote(T, y) <=> IsQuote(W, i)
  BY <1>2, Zenon DEF IsQuote
<1>6. InPhrase(T, y) <=> ~(InPhrase(T, x) <=> IsQuote(T, y))
  BY <1>4, InPhraseStep
<1>7. InPhrase(W, i) <=> ~(InPhrase(W, i - 1) <=> IsQuote(W, i))
  BY <1>4, InPhraseStep
<1>8. InPhrase(T, y) <=> InPhrase(W, i)
  BY <1>3, <1>5, <1>6, <1>7, Zenon
<1>9. (IsOpening(T, y) <=> IsOpening(W, i)) /\ (IsClosing(T, y) <=> IsClosing(W, i))
  BY <1>2, <1>8, Zenon DEF IsOpening, IsClosing
<1>10. Depth(T, y) = Depth(T, x) + (IF IsOpening(T, y) THEN 1 ELSE IF IsClosing(T, y) THEN -1 ELSE 0)
  BY <1>4, DepthStep
<1>11. Depth(W, i) = Depth(W, i - 1) + (IF IsOpening(W, i) THEN 1 ELSE IF IsClosing(W, i) THEN -1 ELSE 0)
  BY <1>4, DepthStep
<1>12. Depth(W, i - 1) \in Int /\ Depth(W, i) \in Int
  BY <1>4, DepthStep
<1>13. (IF IsOpening(T, y) THEN 1 ELSE IF IsClosing(T, y) THEN -1 ELSE 0)
         = (IF IsOpening(W, i) THEN 1 ELSE IF IsClosing(W, i) THEN -1 ELSE 0)
  BY <1>9, Zenon
<1>14. PICK z \in {-1, 0, 1} : z = (IF IsOpening(W, i) THEN 1 ELSE IF IsClosing(W, i) THEN -1 ELSE 0)
  OBVIOUS
<1>15. Depth(T, y) = Depth(W, i) + D
  BY <1>3, <1>10, <1>11, <1>12, <1>13, <1>14
<1>16. y \in 0 .. Len(T)
  BY <1>2
<1> QED  BY <1>1, <1>8, <1>15, <1>16 DEF SamePlace

LEMMA AskedPlace ==
  ASSUME NEW T, Len(T) \in Nat, NEW W, NEW M, NEW o, NEW D \in Int, NEW i \in Nat \ {0},
         SamePlace(T, W, o, D, i - 1), Asks(W, i),
         NEW v, Operand(T, M, o[i - 1], o[i], v)
  PROVE  SamePlace(T, W, o, D, i)
<1>1. PICK x, y : x = o[i - 1] /\ y = o[i]
  OBVIOUS
<1>2. y \in x + 1 .. Len(T) /\ ~InPhrase(T, y) /\ Depth(T, y) = Depth(T, x)
  BY <1>1 DEF Operand
<1>3. x \in 0 .. Len(T) /\ Depth(T, x) = Depth(W, i - 1) + D
  BY <1>1 DEF SamePlace
<1>4. W[i].type = "word" /\ ~InPhrase(W, i) /\ i \in Nat /\ i # 0
  BY DEF Asks
<1>5. ~InPhrase(W, i - 1)
  BY <1>4, InPhraseStep DEF IsQuote
<1>6. PICK h \in Nat : h = i - 1 /\ h + 1 = i
  BY <1>4
<1>7. Depth(W, i) = Depth(W, i - 1)
  <2>1. T = T /\ W[h + 1].type # "quote" /\ W[h + 1].type \notin {"(", ")"} /\ ~InPhrase(W, h)
    BY <1>4, <1>5, <1>6
  <2>2. Depth(W, h + 1) = Depth(W, h)
    BY <2>1, NextWord
  <2> QED  BY <1>6, <2>2
<1>8. y \in 0 .. Len(T)
  BY <1>2, <1>3
<1> QED  BY <1>1, <1>2, <1>3, <1>4, <1>7, <1>8 DEF SamePlace

LEMMA SetupEmbeds ==
  ASSUME Fuzzy \in [Words -> Seq(Words)],
         NEW T, Len(T) \in Nat, NEW leaf, NEW M, Means(T, leaf, M), WordsFound(T, leaf),
         NEW W \in Seq(Tokens), NEW n \in Nat, n = Len(W), NEW B, \A i \in 1 .. n : B[i] = Setup(W, i),
         NEW s, NEW o, Laid(T, B, n, s, o), s <= Len(T), ~InPhrase(T, s), NEW D, D = Depth(T, s)
  PROVE  Embeds(T, W, M, o, D) /\ D \in Int
<1>1. o[0] = s /\ s \in Nat /\ \A i \in 1 .. n : LaidAt(T, B[i], o[i - 1], o[i])
  BY DEF Laid
<1>2. D \in Int
  BY <1>1, DepthStep
<1>3. SamePlace(T, W, o, D, 0)
  <2>1. ~InPhrase(W, 0) /\ Depth(W, 0) = 0
    BY InPhraseStep, DepthStep
  <2>2. s \in 0 .. Len(T) /\ D = 0 + D
    BY <1>1, <1>2
  <2> QED  BY <1>1, <2>1, <2>2 DEF SamePlace
<1>4. ASSUME NEW i \in 1 .. n, SamePlace(T, W, o, D, i - 1)
      PROVE  Moved(T, W, M, o, i) /\ SamePlace(T, W, o, D, i)
  <2>1. i \in Nat \ {0} /\ W[i] \in Tokens
    BY ElementOfSeq
  <2>2. PICK x, y : x = o[i - 1] /\ y = o[i] /\ LaidAt(T, B[i], x, y)
    BY <1>1
  <2>3. CASE Asks(W, i)
    <3>1. W[i] \in WordTokens
      BY <2>1, <2>3 DEF Tokens, WordTokens, Asks, Operators
    <3>2. PICK found \in Seq(WordTokens) : found = FuzzyFound(W[i]) /\ Len(found) >= 1
                                           /\ doFuzzy(W[i]) = Block("|", found)
      BY <3>1, FuzzyFoundIs
    <3>3. LaidAt(T, Block("|", found), x, y)
      BY <2>2, <2>3, <3>2 DEF Setup
    <3>4. ~InPhrase(W, i - 1)
      BY <2>1, <2>3, InPhraseStep DEF Asks, IsQuote
    <3>5. ~InPhrase(T, x)
      BY <1>4, <2>2, <3>4 DEF SamePlace
    <3>6. PICK m \in Nat : m = Len(found) /\ m >= 1
      BY <3>2
    <3>7. Operand(T, M, x, y, BlockMeaning("|", found, m))
      BY <3>3, <3>5, <3>6, BlockOperand
    <3>8. Operand(T, M, o[i - 1], o[i], FuzzyMeaning(W[i]))
      BY <2>2, <3>2, <3>6, <3>7 DEF FuzzyMeaning
    <3>9. SamePlace(T, W, o, D, i)
      BY <1>2, <1>4, <2>1, <2>3, <3>8, AskedPlace
    <3> QED  BY <2>3, <3>8, <3>9 DEF Moved
  <2>4. CASE ~Asks(W, i)
    <3>1. B[i] = <<W[i]>>
      BY <2>4 DEF Setup
    <3>2. Kept(T, W[i], x, y)
      <4>1. Len(<<W[i]>>) = 1 /\ <<W[i]>>[1] = W[i]
        OBVIOUS
      <4>2. x \in Nat /\ y = x + 1 /\ y <= Len(T) /\ T[x + 1] = W[i]
        BY <2>2, <3>1, <4>1 DEF LaidAt
      <4> QED  BY <4>2 DEF Kept
    <3>3. SamePlace(T, W, o, D, i)
      BY <1>2, <1>4, <2>1, <2>2, <3>2, KeptPlace
    <3> QED  BY <2>2, <2>4, <3>2, <3>3 DEF Moved
  <2> QED  BY <2>3, <2>4
<1> DEFINE Good == {i \in Nat : SamePlace(T, W, o, D, i)}
<1>5. \A i \in 0 .. n : i \in Good
  <2>1. 0 \in Good
    BY <1>3
  <2>2. \A i \in 1 .. n : i - 1 \in Good => i \in Good
    BY <1>4
  <2> HIDE DEF Good
  <2> QED  BY <2>1, <2>2, UpTo
<1>6. ASSUME NEW i \in 1 .. n PROVE Moved(T, W, M, o, i)
  <2>1. i - 1 \in 0 .. n
    OBVIOUS
  <2>2. SamePlace(T, W, o, D, i - 1)
    BY <1>5, <2>1
  <2> QED  BY <1>4, <2>2
<1> QED  BY <1>2, <1>5, <1>6 DEF Embeds

(* Places and operators of W, in T. *)
Advances(T, W, M, o, i) ==
  /\ o[i - 1] \in Nat /\ o[i] \in Nat /\ o[i - 1] < o[i] /\ o[i] <= Len(T)
  /\ Asks(W, i) => Operand(T, M, o[i - 1], o[i], FuzzyMeaning(W[i]))
  /\ ~Asks(W, i) => o[i] = o[i - 1] + 1 /\ T[o[i]] = W[i]

LEMMA MovedForward ==
  ASSUME NEW T, Len(T) \in Nat, NEW W, NEW n \in Nat, n = Len(W), NEW M, NEW o, NEW D, Embeds(T, W, M, o, D),
         NEW i \in 1 .. n
  PROVE  Advances(T, W, M, o, i)
<1>1. i - 1 \in 0 .. n /\ i \in 0 .. n
  OBVIOUS
<1>2. PICK x, y : x = o[i - 1] /\ y = o[i]
  OBVIOUS
<1>3. x \in 0 .. Len(T) /\ y \in 0 .. Len(T)
  BY <1>1, <1>2 DEF Embeds, SamePlace
<1>4. IF Asks(W, i) THEN Operand(T, M, x, y, FuzzyMeaning(W[i])) ELSE Kept(T, W[i], x, y)
  BY <1>2 DEF Embeds, Moved
<1>5. CASE Asks(W, i)
  <2>1. Operand(T, M, x, y, FuzzyMeaning(W[i]))
    BY <1>4, <1>5
  <2>2. y \in x + 1 .. Len(T)
    BY <2>1 DEF Operand
  <2>3. x < y
    BY <1>3, <2>2
  <2> QED  BY <1>2, <1>3, <1>5, <2>1, <2>3 DEF Advances
<1>6. CASE ~Asks(W, i)
  <2>1. y = x + 1 /\ T[y] = W[i]
    BY <1>4, <1>6 DEF Kept
  <2> QED  BY <1>2, <1>3, <1>6, <2>1 DEF Advances
<1> QED  BY <1>5, <1>6

LEMMA MovedOn ==
  ASSUME NEW T, Len(T) \in Nat, NEW W, NEW n \in Nat, n = Len(W), NEW M, NEW o, NEW D, Embeds(T, W, M, o, D),
         NEW a \in 0 .. n, NEW b \in a .. n
  PROVE  o[a] \in Nat /\ o[b] \in Nat /\ o[a] <= o[b] /\ (a < b => o[a] < o[b]) /\ o[b] <= Len(T)
<1> DEFINE Good == {j \in Nat : j \in 0 .. b - a /\ o[a] <= o[a + j] /\ (j # 0 => o[a] < o[a + j])}
<1>1. \A i \in 0 .. n : o[i] \in Nat /\ o[i] <= Len(T)
  BY DEF Embeds, SamePlace
<1>2. 0 \in Good
  BY <1>1
<1>3. ASSUME NEW j \in 1 .. b - a, j - 1 \in Good PROVE j \in Good
  <2>1. PICK i \in 1 .. n : i = a + j /\ i - 1 = a + (j - 1)
    OBVIOUS
  <2>2. o[i - 1] < o[i] /\ o[i - 1] \in Nat /\ o[i] \in Nat
    <3>1. Advances(T, W, M, o, i)
      BY MovedForward
    <3> QED  BY <3>1 DEF Advances
  <2>3. o[a] <= o[i - 1]
    BY <1>3, <2>1
  <2>4. o[a] \in Nat
    BY <1>1
  <2> QED  BY <2>1, <2>2, <2>3, <2>4
<1> HIDE DEF Good
<1>4. b - a \in Nat /\ b - a \in 0 .. b - a
  OBVIOUS
<1>5. b - a \in Good
  BY <1>2, <1>3, <1>4, UpTo
<1>6. a + (b - a) = b
  OBVIOUS
<1>7. o[a] <= o[b] /\ (b - a # 0 => o[a] < o[b])
  BY <1>5, <1>6 DEF Good
<1>8. b \in 0 .. n
  OBVIOUS
<1> QED  BY <1>1, <1>7, <1>8

LEMMA MovedFrom ==
  ASSUME NEW T, Len(T) \in Nat, NEW W, NEW n \in Nat, n = Len(W), NEW M, NEW o, NEW D, Embeds(T, W, M, o, D),
         NEW a \in 0 .. n, NEW b \in a .. n, NEW k \in Int, o[a] < k, k <= o[b]
  PROVE  \E i \in a + 1 .. b : o[i - 1] < k /\ k <= o[i]
<1> DEFINE p == [j \in 0 .. b - a |-> o[a + j]]
<1>1. \A i \in 0 .. n : o[i] \in Nat
  BY DEF Embeds, SamePlace
<1>2. b - a \in Nat /\ 0 \in 0 .. b - a /\ b - a \in 0 .. b - a /\ a + 0 = a /\ a + (b - a) = b
  OBVIOUS
<1>3. \A j \in 0 .. b - a : p[j] = o[a + j]
  OBVIOUS
<1> HIDE DEF p
<1>4. \A j \in 0 .. b - a : p[j] \in Int
  BY <1>1, <1>3
<1>5. p[0] < k /\ k <= p[b - a]
  BY <1>2, <1>3
<1>6. PICK j \in 1 .. b - a : p[j - 1] < k /\ k <= p[j]
  BY <1>2, <1>4, <1>5, Covers
<1>7. PICK i \in a + 1 .. b : i = a + j /\ i - 1 = a + (j - 1)
  OBVIOUS
<1>8. p[j - 1] = o[i - 1] /\ p[j] = o[i]
  BY <1>3, <1>7
<1> QED  BY <1>6, <1>8

DeepFrom(T, x, y, d) == \A k \in x .. y : Depth(T, k) >= d

LEMMA MovedDepth ==
  ASSUME NEW T, Len(T) \in Nat, NEW W, NEW n \in Nat, n = Len(W), NEW M, NEW o, NEW D \in Int,
         Embeds(T, W, M, o, D), NEW a \in 0 .. n, NEW b \in a .. n,
         NEW d \in Int, \A i \in a .. b : Depth(W, i) >= d, NEW u, u = o[a], NEW w, w = o[b], NEW e, e = d + D
  PROVE  DeepFrom(T, u, w, e)
<1> SUFFICES ASSUME NEW k \in o[a] .. o[b] PROVE Depth(T, k) >= d + D
  BY DEF DeepFrom
<1>1. \A i \in 0 .. n : o[i] \in Nat /\ Depth(T, o[i]) = Depth(W, i) + D
  BY DEF Embeds, SamePlace
<1>2. ASSUME NEW i \in a .. b PROVE Depth(T, o[i]) >= d + D
  <2>1. i \in 0 .. n /\ i \in Nat
    OBVIOUS
  <2>2. Depth(W, i) \in Int
    BY <2>1, DepthStep
  <2> QED  BY <1>1, <2>1, <2>2
<1>3. k \in Int /\ o[a] \in Nat /\ o[b] \in Nat /\ o[a] <= k /\ k <= o[b]
  <2>1. a \in 0 .. n /\ b \in 0 .. n
    OBVIOUS
  <2>2. o[a] \in Nat /\ o[b] \in Nat
    BY <1>1, <2>1
  <2> QED  BY <2>2
<1>4. CASE k = o[a]
  <2>1. a \in a .. b
    OBVIOUS
  <2> QED  BY <1>2, <1>4, <2>1
<1>5. CASE k # o[a]
  <2>1. PICK i \in a + 1 .. b : o[i - 1] < k /\ k <= o[i]
    <3>1. o[a] < k
      BY <1>3, <1>5
    <3> QED  BY <1>3, <3>1, MovedFrom
  <2>2. i \in 1 .. n /\ i - 1 \in a .. b /\ i \in a .. b
    OBVIOUS
  <2>3. /\ o[i - 1] \in Nat /\ o[i] \in Nat
        /\ Asks(W, i) => Operand(T, M, o[i - 1], o[i], FuzzyMeaning(W[i]))
        /\ ~Asks(W, i) => o[i] = o[i - 1] + 1
    <3>1. Advances(T, W, M, o, i)
      BY <2>2, MovedForward
    <3> QED  BY <3>1 DEF Advances
  <2>4. CASE ~Asks(W, i)
    <3>1. k = o[i]
      BY <1>3, <2>1, <2>3, <2>4
    <3> QED  BY <1>2, <2>2, <3>1
  <2>5. CASE Asks(W, i)
    <3>1. PICK x, y : x = o[i - 1] /\ y = o[i] /\ Operand(T, M, x, y, FuzzyMeaning(W[i]))
      BY <2>3, <2>5
    <3>2. k \in x .. y
      BY <1>3, <2>1, <2>3, <3>1
    <3>3. Depth(T, k) >= Depth(T, x) /\ Depth(T, x) >= d + D
      BY <1>2, <2>2, <3>1, <3>2 DEF Operand
    <3>4. Depth(T, k) \in Int /\ Depth(T, x) \in Int /\ d + D \in Int
      <4>1. k \in Nat /\ x \in Nat
        BY <1>3, <2>3, <3>1, <3>2
      <4> QED  BY <4>1, DepthStep
    <3> QED  BY <3>3, <3>4
  <2> QED  BY <2>4, <2>5
<1> QED  BY <1>4, <1>5

MovedAt(T, W, o, a, b, x, y, types, d, e) ==
  /\ \A i \in At(W, a + 1, b, types, d) : o[i] \in At(T, x, y, types, e)
  /\ At(W, a + 1, b, types, d) = {} => At(T, x, y, types, e) = {}

LEMMA AtMoves ==
  ASSUME NEW T, Len(T) \in Nat, NEW W, NEW n \in Nat, n = Len(W), NEW M, NEW o, NEW D \in Int,
         Embeds(T, W, M, o, D), NEW a \in 0 .. n, NEW b \in a .. n,
         NEW d \in Int, \A i \in a .. b : Depth(W, i) >= d,
         NEW types \in SUBSET Operators, NEW x, x = o[a] + 1, NEW y, y = o[b], NEW e, e = d + D
  PROVE  MovedAt(T, W, o, a, b, x, y, types, d, e)
<1>1. \A i \in 0 .. n : /\ o[i] \in 0 .. Len(T) /\ (InPhrase(T, o[i]) <=> InPhrase(W, i))
                        /\ Depth(T, o[i]) = Depth(W, i) + D
  BY DEF Embeds, SamePlace
<1>2. \A i \in 0 .. n : o[i] \in Nat /\ Depth(W, i) \in Int
  <2>1. \A i \in 0 .. n : i \in Nat
    OBVIOUS
  <2>2. \A i \in Nat : Depth(W, i) \in Int
    BY DepthStep
  <2>3. ASSUME NEW i \in 0 .. n PROVE o[i] \in Nat
    <3>1. o[i] \in 0 .. Len(T)
      BY <1>1
    <3> QED  BY <3>1
  <2> QED  BY <2>1, <2>2, <2>3
<1>3. "word" \notin types
  BY DEF Operators
<1>4. ASSUME NEW i \in At(W, a + 1, b, types, d) PROVE o[i] \in At(T, x, y, types, e)
  <2>1. i \in a + 1 .. b /\ W[i].type \in types /\ ~InPhrase(W, i) /\ Depth(W, i) = d
    BY DEF At
  <2>2. i \in 1 .. n /\ i \in 0 .. n /\ i \in a .. n /\ a < i /\ b \in i .. n
    BY <2>1
  <2>3. ~Asks(W, i)
    BY <1>3, <2>1 DEF Asks
  <2>4. Advances(T, W, M, o, i)
    BY <2>2, MovedForward
  <2>5. T[o[i]] = W[i]
    BY <2>3, <2>4 DEF Advances
  <2>6. o[a] < o[i] /\ o[a] \in Nat
    BY <2>2, MovedOn
  <2>7. o[i] <= o[b] /\ o[i] \in Nat /\ o[b] \in Nat
    BY <2>2, MovedOn
  <2>8. o[i] \in x .. y
    BY <2>6, <2>7
  <2>9. ~InPhrase(T, o[i]) /\ Depth(T, o[i]) = e
    BY <1>1, <2>1, <2>2
  <2> QED  BY <2>1, <2>5, <2>8, <2>9 DEF At
<1>5. ASSUME NEW k \in At(T, x, y, types, e) PROVE At(W, a + 1, b, types, d) # {}
  <2>1. k \in x .. y /\ T[k].type \in types /\ ~InPhrase(T, k) /\ Depth(T, k) = e
    BY DEF At
  <2>2. k \in Int /\ o[a] < k /\ k <= o[b]
    BY <1>2, <2>1
  <2>3. PICK i \in a + 1 .. b : o[i - 1] < k /\ k <= o[i]
    BY <2>2, MovedFrom
  <2>4. i \in 1 .. n /\ i \in 0 .. n /\ i - 1 \in 0 .. n /\ i - 1 \in a .. b /\ i \in a .. b
    OBVIOUS
  <2>5. Advances(T, W, M, o, i)
    BY <2>4, MovedForward
  <2>6. CASE ~Asks(W, i)
    <3>1. k = o[i] /\ T[k] = W[i]
      <4>1. o[i] = o[i - 1] + 1 /\ T[o[i]] = W[i] /\ o[i - 1] \in Nat
        BY <2>5, <2>6 DEF Advances
      <4>2. k = o[i]
        BY <2>2, <2>3, <4>1, SMTT(30)
      <4> QED  BY <4>1, <4>2
    <3>2. ~InPhrase(W, i) /\ Depth(W, i) + D = d + D
      BY <1>1, <2>1, <2>4, <3>1
    <3>3. Depth(W, i) = d
      BY <1>2, <2>4, <3>2
    <3>4. i \in At(W, a + 1, b, types, d)
      BY <2>1, <3>1, <3>2, <3>3 DEF At
    <3> QED  BY <3>4
  <2>7. CASE Asks(W, i)
    <3>1. PICK u, v, w : u = o[i - 1] /\ v = o[i] /\ w = FuzzyMeaning(W[i]) /\ Operand(T, M, u, v, w)
      BY <2>5, <2>7 DEF Advances
    <3>2. k \in u + 1 .. v /\ k \in u .. v
      <4>1. u \in Nat /\ v \in Nat
        BY <1>2, <2>4, <3>1
      <4>2. u < k /\ k <= v
        BY <2>3, <3>1
      <4> QED  BY <2>2, <4>1, <4>2
    <3>3. Depth(T, k) >= Depth(T, u) /\ At(T, u + 1, v, Operators, Depth(T, u)) = {}
      BY <3>1, <3>2 DEF Operand
    <3>4. Depth(T, u) = Depth(W, i - 1) + D /\ Depth(W, i - 1) >= d /\ Depth(W, i - 1) \in Int
      BY <1>1, <1>2, <2>4, <3>1
    <3>5. Depth(T, k) = Depth(T, u)
      BY <2>1, <3>3, <3>4
    <3>6. k \in At(T, u + 1, v, Operators, Depth(T, u))
      BY <2>1, <3>2, <3>5 DEF At
    <3> QED  BY <3>3, <3>6
  <2> QED  BY <2>6, <2>7
<1>6. At(W, a + 1, b, types, d) = {} => At(T, x, y, types, e) = {}
  BY <1>5
<1> QED  BY <1>4, <1>6 DEF MovedAt

LEMMA LastMoves ==
  ASSUME NEW T, Len(T) \in Nat, NEW W, NEW n \in Nat, n = Len(W), NEW M, NEW o, NEW D \in Int,
         Embeds(T, W, M, o, D), NEW a \in 0 .. n, NEW b \in a .. n,
         NEW d \in Int, \A i \in a .. b : Depth(W, i) >= d,
         NEW p \in a + 1 .. b, LastAt(W, a + 1, b, p, d),
         NEW x, x = o[a] + 1, NEW y, y = o[b], NEW q, q = o[p], NEW e, e = d + D
  PROVE  LastAt(T, x, y, q, e)
<1>1. p \in 0 .. n /\ b \in p .. n /\ \A i \in p .. b : Depth(W, i) >= d
  OBVIOUS
<1>2. PICK z : z = q + 1 /\ z = o[p] + 1
  OBVIOUS
<1>3. {"|"} \in SUBSET Operators /\ {"&", "!"} \in SUBSET Operators /\ Operators \in SUBSET Operators
  BY DEF Operators
<1>4. MovedAt(T, W, o, a, b, x, y, {"|"}, d, e) /\ MovedAt(T, W, o, a, b, x, y, {"&", "!"}, d, e)
  BY <1>3, AtMoves
<1>5. MovedAt(T, W, o, p, b, z, y, {"|"}, d, e) /\ MovedAt(T, W, o, p, b, z, y, Operators, d, e)
  BY <1>1, <1>2, <1>3, AtMoves
<1> QED  BY <1>2, <1>4, <1>5 DEF MovedAt, LastAt

(* A phrase that begins ends. *)
LEMMA PhraseCloses ==
  ASSUME NEW T, Len(T) \in Nat, NEW u \in Nat \ {0}, NEW b \in u .. Len(T), ~InPhrase(T, u - 1),
         T[u].type = "quote", ~InPhrase(T, b)
  PROVE  \E p : Quoting(T, u, p) /\ p + 1 \in u + 1 .. b /\ T[p + 1].type = "quote"
<1> SUFFICES ASSUME ~\E p : Quoting(T, u, p) /\ p + 1 \in u + 1 .. b /\ T[p + 1].type = "quote"
             PROVE  FALSE
  OBVIOUS
<1> DEFINE Good == {j \in Nat : Quoting(T, u, u + j)}
<1>1. 0 \in Good
  <2>1. PICK p \in Nat : p + 1 = u /\ p = u - 1
    OBVIOUS
  <2>2. p < Len(T) /\ ~InPhrase(T, p) /\ T[p + 1].type = "quote"
    BY <2>1
  <2>3. Quoting(T, p + 1, p + 1)
    BY <2>2, QuoteOpens
  <2> QED  BY <2>1, <2>3
<1>2. ASSUME NEW j \in 1 .. b - u, j - 1 \in Good PROVE j \in Good
  <2>1. PICK p : p = u + (j - 1) /\ p + 1 = u + j /\ Quoting(T, u, p)
    BY <1>2
  <2>2. p \in Int /\ p < Len(T) /\ p + 1 \in u + 1 .. b
    BY <2>1
  <2>3. T[p + 1].type # "quote"
    BY <2>1, <2>2
  <2>4. Quoting(T, u, p + 1)
    BY <2>1, <2>2, <2>3, QuoteGoesOn
  <2> QED  BY <2>1, <2>4
<1> HIDE DEF Good
<1>3. b - u \in Nat /\ b - u \in 0 .. b - u /\ u + (b - u) = b
  OBVIOUS
<1>4. Quoting(T, u, b)
  <2>1. b - u \in Good
    BY <1>1, <1>2, <1>3, UpTo
  <2> QED  BY <1>3, <2>1 DEF Good
<1>5. InPhrase(T, b)
  BY <1>4 DEF Quoting
<1> QED  BY <1>5

(* A phrase and its words stay together. *)
KeptFrom(T, W, o, u, p) == \A k \in u + 1 .. p + 1 : o[k] = o[k - 1] + 1 /\ T[o[k]] = W[k]

PhraseTo(T, W, o, u, p, t, m) == SamePhrase(W, u, T, t, m) /\ o[p + 1] = t + m + 1

LEMMA PhraseKept ==
  ASSUME NEW W, Len(W) \in Nat, NEW u, NEW p, Quoting(W, u, p), p + 1 <= Len(W), W[p + 1].type = "quote",
         NEW T, Len(T) \in Nat, NEW o, NEW t \in Nat \ {0}, t = o[u], o[p + 1] <= Len(T),
         KeptFrom(T, W, o, u, p), NEW m, m = p - u
  PROVE  PhraseTo(T, W, o, u, p, t, m)
<1>1. /\ u \in 1 .. Len(W) /\ p \in u .. Len(W) /\ u \in Nat /\ p \in Nat
      /\ \A k \in u + 1 .. p : W[k].type # "quote"
  BY DEF Quoting
<1>2. m \in Nat /\ p = u + m /\ m = p - u
  BY <1>1
<1>11. t \in Nat \ {0} /\ t = o[u]
  OBVIOUS
<1>3. \A k \in u + 1 .. p + 1 : o[k] = o[k - 1] + 1 /\ T[o[k]] = W[k]
  BY DEF KeptFrom
<1> DEFINE Good == {j \in Nat : o[u + j] = t + j}
<1>4. \A j \in 0 .. m + 1 : j \in Good
  <2>1. 0 \in Good
    BY <1>1, <1>11
  <2>2. ASSUME NEW j \in 1 .. m + 1, j - 1 \in Good PROVE j \in Good
    <3>1. PICK k : k = u + j /\ k - 1 = u + (j - 1) /\ k \in u + 1 .. p + 1
      BY <1>1, <1>2
    <3>2. o[k - 1] = t + (j - 1) /\ o[k] = o[k - 1] + 1
      BY <1>3, <2>2, <3>1
    <3>3. o[u + j] = t + j
      BY <3>1, <3>2
    <3> QED  BY <3>3
  <2>3. m + 1 \in Nat
    BY <1>2
  <2> HIDE DEF Good
  <2> QED  BY <2>1, <2>2, <2>3, UpTo
<1>5. ASSUME NEW j \in 1 .. m + 1 PROVE T[t + j] = W[u + j]
  <2>1. PICK k : k = u + j /\ k \in u + 1 .. p + 1
    BY <1>1, <1>2
  <2>2. j \in 0 .. m + 1 /\ o[k] = t + j
    BY <1>2, <1>4, <2>1
  <2> QED  BY <1>1, <1>2, <1>3, <2>1, <2>2
<1>6. o[p + 1] = t + m + 1
  <2>1. m + 1 \in 0 .. m + 1 /\ p + 1 = u + (m + 1)
    BY <1>1, <1>2
  <2>2. o[u + (m + 1)] = t + (m + 1)
    BY <1>4, <2>1
  <2>3. t + (m + 1) = t + m + 1
    BY <1>2
  <2>4. o[p + 1] = o[u + (m + 1)]
    BY <2>1
  <2> QED  BY <2>2, <2>3, <2>4
<1>7. ASSUME NEW j \in 1 .. m PROVE W[u + j].type # "quote" /\ T[t + j] = W[u + j]
  <2>1. u + j \in u + 1 .. p /\ j \in 1 .. m + 1
    BY <1>1, <1>2
  <2> QED  BY <1>1, <1>5, <2>1
<1>8. W[u + m + 1].type = "quote" /\ T[t + m + 1].type = "quote"
  <2>1. p + 1 = u + m + 1 /\ u + (m + 1) = u + m + 1 /\ t + (m + 1) = t + m + 1 /\ m + 1 \in 1 .. m + 1
    <3>1. m \in Nat /\ u \in Nat /\ p = u + m
      BY <1>1, <1>2
    <3> QED  BY <3>1
  <2>2. T[t + (m + 1)] = W[u + (m + 1)]
    BY <1>5, <2>1
  <2> QED  BY <2>1, <2>2
<1>9. PhraseIs(W, u, m)
  <2>1. u + m + 1 <= Len(W)
    BY <1>1, <1>2
  <2>2. \A j \in 1 .. m : W[u + j].type # "quote"
    BY <1>7
  <2>3. u \in Nat \ {0}
    BY <1>1
  <2> QED  BY <1>2, <1>8, <2>1, <2>2, <2>3 DEF PhraseIs
<1>10. PhraseIs(T, t, m)
  <2>1. t + m + 1 <= Len(T)
    BY <1>6
  <2>2. \A j \in 1 .. m : T[t + j].type # "quote"
    BY <1>7
  <2> QED  BY <1>2, <1>8, <2>1, <2>2 DEF PhraseIs
<1> QED  BY <1>2, <1>6, <1>7, <1>9, <1>10 DEF SamePhrase, PhraseTo

(* Parts of what is grammatical: what an operand or an operator and the end *)
(* of a bracket are around.                                                 *)
Span(W, a, b) ==
  /\ a \in 0 .. Len(W) /\ b \in a + 1 .. Len(W)
  /\ ~InPhrase(W, a) /\ ~OperandEnds(W, a) /\ ~InPhrase(W, b) /\ OperandEnds(W, b)
  /\ Depth(W, b) = Depth(W, a) /\ \A k \in a .. b : Depth(W, k) >= Depth(W, a)

Comes(W, i) == i = Len(W) \/ W[i + 1].type \in Operators \union {")"}
Begins1(W, i) == i < Len(W) /\ (IsWord(W[i + 1]) \/ W[i + 1].type \in {"(", "quote"})

LEMMA GrammarSays ==
  ASSUME NEW W, Grammatical(W), NEW i \in 0 .. Len(W), ~InPhrase(W, i)
  PROVE  (OperandEnds(W, i) => Comes(W, i)) /\ (~OperandEnds(W, i) => Begins1(W, i))
BY DEF Grammatical, Comes, Begins1

LEMMA LastExists ==
  ASSUME NEW W, NEW x \in Nat \ {0}, NEW y \in Nat, NEW d, Depth(W, x - 1) = d,
         At(W, x, y, Operators, d) # {}
  PROVE  \E p \in x .. y : LastAt(W, x, y, p, d)
<1>1. PICK part \in (Nat \ {0}) \X Nat : part = <<x, y>> /\ part[1] = x /\ part[2] = y
  <2>1. <<x, y>> \in (Nat \ {0}) \X Nat /\ <<x, y>>[1] = x /\ <<x, y>>[2] = y
    OBVIOUS
  <2> QED  BY <2>1, Zenon
<1>2. \A types : Outer(W, part, types) = At(W, x, y, types, d)
  BY <1>1, OuterIsAt
<1>3. PICK p : p = Main(W, part)
  OBVIOUS
<1>4. /\ p \in At(W, x, y, Operators, d) /\ p \in x .. y
      /\ At(W, x, y, {"|"}, d) # {} =>
           p \in At(W, x, y, {"|"}, d) /\ \A k \in At(W, x, y, {"|"}, d) : k <= p
      /\ At(W, x, y, {"|"}, d) = {} => \A k \in At(W, x, y, Operators, d) : k <= p
  BY <1>1, <1>2, <1>3, MainIsOuter
<1>5. ASSUME NEW types, \A k \in At(W, x, y, types, d) : k <= p PROVE At(W, p + 1, y, types, d) = {}
  <2>1. ASSUME NEW k \in At(W, p + 1, y, types, d) PROVE FALSE
    <3>1. k \in p + 1 .. y /\ W[k].type \in types /\ ~InPhrase(W, k) /\ Depth(W, k) = d
      BY DEF At
    <3>2. k \in x .. y /\ ~(k <= p)
      BY <1>4, <3>1
    <3>3. k \in At(W, x, y, types, d)
      BY <3>1, <3>2 DEF At
    <3> QED  BY <1>5, <3>2, <3>3
  <2> QED  BY <2>1
<1>6. CASE At(W, x, y, {"|"}, d) # {}
  BY <1>4, <1>5, <1>6 DEF LastAt
<1>7. CASE At(W, x, y, {"|"}, d) = {}
  <2>1. At(W, p + 1, y, Operators, d) = {}
    BY <1>4, <1>5, <1>7
  <2>2. p \in At(W, x, y, {"&", "!"}, d)
    BY <1>4, <1>7 DEF At, Operators
  <2> QED  BY <1>4, <1>7, <2>1, <2>2 DEF LastAt
<1> QED  BY <1>6, <1>7

LEMMA SpanSplits ==
  ASSUME NEW W, Len(W) \in Nat, Grammatical(W), NEW a, NEW b, Span(W, a, b), NEW d, d = Depth(W, a),
         NEW p \in a + 1 .. b, p \in At(W, a + 1, b, Operators, d)
  PROVE  /\ Span(W, a, p - 1) /\ Span(W, p, b) /\ p - 1 \in Nat /\ W[p].type \in Operators
<1>1. /\ a \in 0 .. Len(W) /\ b \in a + 1 .. Len(W) /\ a \in Nat /\ b \in Nat /\ p \in Nat
      /\ ~InPhrase(W, a) /\ ~OperandEnds(W, a) /\ ~InPhrase(W, b) /\ OperandEnds(W, b)
      /\ Depth(W, b) = d /\ \A k \in a .. b : Depth(W, k) >= d
  BY DEF Span
<1>2. W[p].type \in Operators /\ ~InPhrase(W, p) /\ Depth(W, p) = d
  BY DEF At
<1>3. W[p].type \notin {"word", "bad", "short", "*", ")", "(", "quote"}
  BY <1>2 DEF Operators
<1>4. ~OperandEnds(W, p)
  BY <1>3 DEF OperandEnds, IsWord
<1>5. PICK q \in Nat : q = p - 1 /\ q + 1 = p /\ q \in a .. b /\ q \in 0 .. Len(W) /\ q < Len(W)
  BY <1>1
<1>6. ~InPhrase(W, q) /\ Depth(W, q) = d
  <2>1. ~InPhrase(W, p - 1)
    BY <1>1, <1>2, <1>3, InPhraseStep DEF IsQuote
  <2>2. W[q + 1].type # "quote" /\ W[q + 1].type \notin {"(", ")"} /\ ~InPhrase(W, q)
    BY <1>3, <1>5, <2>1
  <2>3. Depth(W, q + 1) = Depth(W, q)
    BY <2>2, NextWord
  <2> QED  BY <1>2, <1>5, <2>2, <2>3
<1>7. OperandEnds(W, q)
  <2>1. ~Begins1(W, q)
    BY <1>3, <1>5 DEF Begins1, IsWord
  <2> QED  BY <1>5, <1>6, <2>1, GrammarSays
<1>8. q # a /\ p # b
  BY <1>1, <1>4, <1>7
<1>9. Span(W, a, q)
  <2>1. q \in a + 1 .. Len(W) /\ \A k \in a .. q : Depth(W, k) >= d
    BY <1>1, <1>5, <1>8
  <2> QED  BY <1>1, <1>6, <1>7, <2>1 DEF Span
<1>10. Span(W, p, b)
  <2>1. p \in 0 .. Len(W) /\ b \in p + 1 .. Len(W) /\ \A k \in p .. b : Depth(W, k) >= d
    BY <1>1, <1>8
  <2> QED  BY <1>1, <1>2, <1>4, <2>1 DEF Span
<1> QED  BY <1>2, <1>5, <1>9, <1>10

(* Behind an operand of a part without operators nothing comes. *)
LEMMA OperandIsAll ==
  ASSUME NEW W, Len(W) \in Nat, Grammatical(W), NEW a, NEW b, Span(W, a, b), NEW d, d = Depth(W, a),
         At(W, a + 1, b, Operators, d) = {},
         NEW c \in a + 1 .. b, ~InPhrase(W, c), OperandEnds(W, c), Depth(W, c) = d
  PROVE  c = b
<1>1. /\ a \in 0 .. Len(W) /\ b \in a + 1 .. Len(W) /\ a \in Nat /\ b \in Nat /\ c \in Nat
      /\ \A k \in a .. b : Depth(W, k) >= d
  BY DEF Span
<1> SUFFICES ASSUME c # b PROVE FALSE
  OBVIOUS
<1>2. c < b /\ c + 1 \in a + 1 .. b /\ c + 1 \in a .. b /\ c \in 0 .. Len(W) /\ c # Len(W)
  BY <1>1
<1>3. Comes(W, c)
  BY <1>2, GrammarSays
<1>4. W[c + 1].type \in Operators \union {")"}
  BY <1>2, <1>3 DEF Comes
<1>5. W[c + 1].type \notin {"quote", "("}
  BY <1>4 DEF Operators
<1>6. ~InPhrase(W, c + 1)
  BY <1>1, <1>5, NextWord
<1>7. CASE W[c + 1].type = ")"
  <2>1. Depth(W, c + 1) = d - 1
    BY <1>1, <1>5, <1>7, NextWord
  <2>2. d \in Int /\ Depth(W, c + 1) >= d
    BY <1>1, <1>2, DepthStep
  <2> QED  BY <2>1, <2>2
<1>8. CASE W[c + 1].type # ")"
  <2>1. Depth(W, c + 1) = d
    BY <1>1, <1>5, <1>8, NextWord
  <2>2. W[c + 1].type \in Operators
    BY <1>4, <1>8
  <2>3. c + 1 \in At(W, a + 1, b, Operators, d)
    BY <1>2, <1>6, <2>1, <2>2 DEF At
  <2> QED  BY <2>3
<1> QED  BY <1>7, <1>8

(* A bracket that opens closes. *)
Closes(W, a, c) ==
  /\ W[c].type = ")" /\ ~InPhrase(W, c) /\ Depth(W, c) = Depth(W, a)
  /\ \A k \in a + 1 .. c - 1 : Depth(W, k) >= Depth(W, a) + 1

LEMMA BracketCloses ==
  ASSUME NEW W, NEW a \in Nat, NEW b \in Nat, a + 1 <= b, ~InPhrase(W, a), W[a + 1].type = "(",
         NEW d, d = Depth(W, a), Depth(W, b) <= d, \A k \in a .. b : Depth(W, k) >= d
  PROVE  \E c \in a + 2 .. b : Closes(W, a, c)
<1>1. d \in Int /\ \A k \in Nat : Depth(W, k) \in Int
  BY DepthStep
<1>2. Depth(W, a + 1) = d + 1
  <2>1. W[a + 1].type # "quote"
    OBVIOUS
  <2> QED  BY <2>1, NextWord
<1>3. b # a + 1
  BY <1>1, <1>2
<1> DEFINE S == {k \in a + 2 .. b : Depth(W, k) <= d}
<1>4. b \in S /\ S \in SUBSET Nat
  BY <1>3
<1>5. PICK c \in S : \A k \in S : c <= k
  BY <1>4, LeastExists
<1>6. c \in a + 2 .. b /\ Depth(W, c) <= d /\ c \in Nat \ {0} /\ c - 1 \in Nat /\ c - 1 \in a + 1 .. b
  BY <1>5
<1>7. ASSUME NEW k \in a + 1 .. c - 1 PROVE Depth(W, k) >= d + 1
  <2>1. k \in Nat /\ Depth(W, k) \in Int
    BY <1>1
  <2>2. CASE k = a + 1
    BY <1>1, <1>2, <2>2
  <2>3. CASE k # a + 1
    <3>1. k \in a + 2 .. b /\ ~(c <= k)
      BY <1>6, <2>1, <2>3
    <3>2. k \notin S
      BY <1>5, <3>1
    <3>3. ~(Depth(W, k) <= d)
      BY <3>1, <3>2
    <3> QED  BY <1>1, <2>1, <3>3
  <2> QED  BY <2>2, <2>3
<1>8. Depth(W, c) = d
  <2>1. c \in a .. b
    BY <1>6
  <2> QED  BY <1>1, <1>6, <2>1
<1>9. Depth(W, c - 1) >= d + 1 /\ Depth(W, c - 1) \in Int
  <2>1. c - 1 \in a + 1 .. c - 1
    BY <1>6
  <2> QED  BY <1>1, <1>6, <1>7, <2>1
<1>10. IsClosing(W, c)
  <2>1. Depth(W, c) = Depth(W, c - 1) + (IF IsOpening(W, c) THEN 1 ELSE IF IsClosing(W, c) THEN -1 ELSE 0)
    BY <1>6, DepthStep
  <2> SUFFICES ASSUME ~IsClosing(W, c) PROVE FALSE
    OBVIOUS
  <2>2. CASE IsOpening(W, c)
    <3>1. Depth(W, c) = Depth(W, c - 1) + 1
      BY <2>1, <2>2, Zenon
    <3> QED  BY <1>1, <1>8, <1>9, <3>1
  <2>3. CASE ~IsOpening(W, c)
    <3>1. Depth(W, c) = Depth(W, c - 1) + 0
      BY <2>1, <2>3, Zenon
    <3> QED  BY <1>1, <1>8, <1>9, <3>1
  <2> QED  BY <2>2, <2>3
<1> QED  BY <1>6, <1>7, <1>8, <1>10 DEF IsClosing, Closes

OneWord(W, a, b) == IsWord(W[a + 1]) /\ b = a + 1
InBrackets(W, a, b) == W[a + 1].type = "(" /\ Span(W, a + 1, b - 1)
OnePhrase(W, a, b) == W[a + 1].type = "quote" /\ Quoting(W, a + 1, b - 1) /\ W[b].type = "quote"

LEMMA SpanIsOperand ==
  ASSUME NEW W, Len(W) \in Nat, Grammatical(W), NEW a, NEW b, Span(W, a, b), NEW d, d = Depth(W, a),
         At(W, a + 1, b, Operators, d) = {}
  PROVE  OneWord(W, a, b) \/ InBrackets(W, a, b) \/ OnePhrase(W, a, b)
<1>1. /\ a \in 0 .. Len(W) /\ b \in a + 1 .. Len(W) /\ a \in Nat /\ b \in Nat
      /\ ~InPhrase(W, a) /\ ~OperandEnds(W, a) /\ ~InPhrase(W, b) /\ OperandEnds(W, b)
      /\ Depth(W, b) = d /\ \A k \in a .. b : Depth(W, k) >= d
  BY DEF Span
<1>2. Begins1(W, a)
  BY <1>1, GrammarSays
<1>3. IsWord(W[a + 1]) \/ W[a + 1].type \in {"(", "quote"}
  BY <1>2 DEF Begins1
<1>4. d \in Int
  BY <1>1, DepthStep
<1>5. CASE IsWord(W[a + 1])
  <2>1. W[a + 1].type \notin {"quote", "(", ")"}
    BY <1>5 DEF IsWord
  <2>2. ~InPhrase(W, a + 1) /\ Depth(W, a + 1) = d
    BY <1>1, <2>1, NextWord
  <2>3. OperandEnds(W, a + 1) /\ a + 1 \in a + 1 .. b
    BY <1>1, <1>5 DEF OperandEnds
  <2>4. a + 1 = b
    BY <2>2, <2>3, OperandIsAll
  <2> QED  BY <1>5, <2>4 DEF OneWord
<1>6. CASE W[a + 1].type = "("
  <2>1. PICK c \in a + 2 .. b : Closes(W, a, c)
    <3>1. a + 1 <= b /\ Depth(W, b) <= d
      BY <1>1, <1>4
    <3> QED  BY <1>1, <1>6, <3>1, BracketCloses
  <2>2. W[c].type = ")" /\ ~InPhrase(W, c) /\ Depth(W, c) = d /\ c \in Nat \ {0} /\ c \in a + 1 .. b
        /\ \A k \in a + 1 .. c - 1 : Depth(W, k) >= d + 1
    BY <1>1, <2>1 DEF Closes
  <2>3. OperandEnds(W, c)
    BY <2>2 DEF OperandEnds
  <2>4. c = b
    BY <2>2, <2>3, OperandIsAll
  <2>5. W[a + 1].type # "quote"
    BY <1>6
  <2>6. ~InPhrase(W, a + 1) /\ Depth(W, a + 1) = d + 1
    BY <1>1, <1>6, <2>5, NextWord
  <2>7. ~OperandEnds(W, a + 1)
    BY <1>6 DEF OperandEnds, IsWord
  <2>8. PICK q \in Nat : q = b - 1 /\ q + 1 = b /\ q \in a + 1 .. Len(W) /\ q < Len(W) /\ q \in 0 .. Len(W)
    BY <1>1, <2>1, <2>4
  <2>9. ~InPhrase(W, q)
    BY <1>1, <2>2, <2>4, <2>8, InPhraseStep DEF IsQuote
  <2>10. Depth(W, q) = d + 1
    <3>1. Depth(W, q + 1) = Depth(W, q) - 1
      BY <2>2, <2>4, <2>8, <2>9, NextWord
    <3>2. Depth(W, q) \in Int
      BY DepthStep
    <3> QED  BY <1>4, <2>2, <2>4, <2>8, <3>1, <3>2
  <2>11. OperandEnds(W, q)
    <3>1. ~Begins1(W, q)
      BY <2>2, <2>4, <2>8 DEF Begins1, IsWord
    <3> QED  BY <2>8, <2>9, <3>1, GrammarSays
  <2>12. q # a + 1
    BY <2>7, <2>11
  <2>13. a + 1 \in 0 .. Len(W) /\ q \in (a + 1) + 1 .. Len(W)
         /\ \A k \in a + 1 .. q : Depth(W, k) >= Depth(W, a + 1)
    BY <1>1, <2>2, <2>4, <2>6, <2>8, <2>12
  <2>14. Span(W, a + 1, q)
    BY <2>6, <2>7, <2>9, <2>10, <2>11, <2>13 DEF Span
  <2> QED  BY <1>6, <2>8, <2>14 DEF InBrackets
<1>7. CASE W[a + 1].type = "quote"
  <2>1. PICK u \in Nat \ {0} : u = a + 1 /\ u - 1 = a /\ u \in 1 .. Len(W) /\ b \in u .. Len(W)
    BY <1>1
  <2>2. PICK p : Quoting(W, u, p) /\ p + 1 \in u + 1 .. b /\ W[p + 1].type = "quote"
    BY <1>1, <1>7, <2>1, PhraseCloses
  <2>3. p \in u .. Len(W) /\ p \in Nat /\ p < Len(W)
    <3>1. p \in u .. Len(W)
      BY <2>2 DEF Quoting
    <3> QED  BY <1>1, <2>1, <2>2, <3>1
  <2>4. ~InPhrase(W, p + 1) /\ \A k \in u .. p + 1 : Depth(W, k) = Depth(W, u - 1)
    BY <2>2, <2>3, QuoteEnds
  <2>5. p + 1 \in u .. p + 1 /\ p + 1 \in a + 1 .. b /\ p + 1 > 0
    BY <2>1, <2>2, <2>3
  <2>6. Depth(W, p + 1) = d
    BY <2>1, <2>4, <2>5
  <2>7. OperandEnds(W, p + 1)
    BY <2>2, <2>5 DEF OperandEnds
  <2>8. p + 1 = b
    BY <2>4, <2>5, <2>6, <2>7, OperandIsAll
  <2>9. p = b - 1
    BY <2>3, <2>8
  <2> QED  BY <1>7, <2>1, <2>2, <2>8, <2>9 DEF OnePhrase
<1> QED  BY <1>3, <1>5, <1>6, <1>7

SetUp(T, W, M, MW, o, D) ==
  /\ Len(T) \in Nat /\ DOMAIN T = 1 .. Len(T) /\ Means(T, ReadLeaf(T), M)
  /\ W \in Seq(Tokens) /\ Means(W, LeafMeaning(W), MW)
  /\ D \in Int /\ Embeds(T, W, M, o, D)

(* What is asked for by the word at a place. *)
LEMMA WordMoves ==
  ASSUME Fuzzy \in [Words -> Seq(Words)], NEW T, NEW W, NEW M, NEW MW, NEW o, NEW D, SetUp(T, W, M, MW, o, D),
         NEW b \in 1 .. Len(W), IsWord(W[b]), ~InPhrase(W, b), W[b].type = "word" => HasSubstitutes(W[b])
  PROVE  Operand(T, M, o[b - 1], o[b], LeafMeaning(W)[b])
<1>1. /\ Len(T) \in Nat /\ DOMAIN T = 1 .. Len(T) /\ Means(T, ReadLeaf(T), M)
      /\ W \in Seq(Tokens) /\ D \in Int /\ Embeds(T, W, M, o, D)
  BY DEF SetUp
<1>2. PICK n \in Nat : n = Len(W) /\ DOMAIN W = 1 .. n /\ W[b] \in Tokens
  BY <1>1, ElementOfSeq
<1>3. Advances(T, W, M, o, b)
  BY <1>1, <1>2, MovedForward
<1>4. CASE W[b].type = "word"
  <2>1. Asks(W, b)
    BY <1>4 DEF Asks
  <2>2. Operand(T, M, o[b - 1], o[b], FuzzyMeaning(W[b]))
    BY <1>3, <2>1 DEF Advances
  <2>3. W[b] \in WordTokens
    BY <1>2, <1>4 DEF Tokens, WordTokens, Operators
  <2>4. HasSubstitutes(W[b])
    BY <1>4
  <2>5. FuzzyMeaning(W[b]) = ResultList(WordMeaning(W[b]))
    BY <2>3, <2>4, FuzzyMeans
  <2>6. LeafMeaning(W)[b] = ResultList(WordMeaning(W[b]))
    BY <1>2, <1>4 DEF LeafMeaning
  <2> QED  BY <2>2, <2>5, <2>6
<1>5. CASE W[b].type # "word"
  <2>1. ~Asks(W, b)
    BY <1>5 DEF Asks
  <2>2. PICK x, y : x = o[b - 1] /\ y = o[b]
    OBVIOUS
  <2>3. x \in Nat /\ y = x + 1 /\ y <= Len(T) /\ T[y] = W[b]
    BY <1>3, <2>1, <2>2 DEF Advances
  <2>4. x \in 0 .. Len(T) - 1 /\ y \in 1 .. Len(T)
    BY <1>1, <2>3
  <2>5. ~InPhrase(T, x)
    <3>1. ~InPhrase(W, b - 1)
      <4>1. W[b].type # "quote" /\ b \in Nat /\ b # 0
        BY DEF IsWord
      <4> QED  BY <4>1, InPhraseStep DEF IsQuote
    <3>2. b - 1 \in 0 .. Len(W)
      OBVIOUS
    <3> QED  BY <1>1, <2>2, <3>1, <3>2 DEF Embeds, SamePlace
  <2>6. Operand(T, M, x, x + 1, ReadLeaf(T)[x + 1])
    BY <1>1, <2>3, <2>4, <2>5, WordOperand
  <2>7. ReadLeaf(T)[y] = LeafMeaning(W)[b]
    BY <1>1, <1>2, <1>5, <2>3, <2>4 DEF ReadLeaf, LeafMeaning, IsWord
  <2> QED  BY <2>2, <2>3, <2>6, <2>7
<1> QED  BY <1>4, <1>5

(* A phrase with the words of a phrase of W is an operand. *)
LEMMA PhraseOperand ==
  ASSUME NEW T, Len(T) \in Nat, DOMAIN T = 1 .. Len(T), NEW M, Means(T, ReadLeaf(T), M),
         NEW W, NEW u, NEW t, NEW m, SamePhrase(W, u, T, t, m), T[t].type = "quote",
         NEW x \in Nat, t = x + 1, ~InPhrase(T, x), NEW y, y = t + m + 1
  PROVE  Operand(T, M, x, y, ResultList(PhraseMeaning(W, u)))
<1>1. /\ t \in Nat \ {0} /\ m \in Nat /\ t + m + 1 <= Len(T)
      /\ \A j \in 1 .. m : T[t + j].type # "quote"
      /\ T[t + m + 1].type = "quote"
  BY DEF SamePhrase, PhraseIs
<1> DEFINE Good == {j \in Nat : Quoting(T, t, t + j)}
<1>2. 0 \in Good
  <2>1. x < Len(T) /\ T[x + 1].type = "quote" /\ t + 0 = x + 1 /\ t = x + 1
    BY <1>1
  <2>2. Quoting(T, x + 1, x + 1)
    BY <2>1, QuoteOpens
  <2> QED  BY <2>1, <2>2
<1>3. ASSUME NEW j \in 1 .. m, j - 1 \in Good PROVE j \in Good
  <2>1. PICK p : p = t + (j - 1) /\ p + 1 = t + j /\ p < Len(T) /\ Quoting(T, t, p)
    BY <1>1, <1>3
  <2>2. T[p + 1].type # "quote"
    BY <1>1, <2>1
  <2>3. Quoting(T, t, p + 1)
    BY <2>1, <2>2, QuoteGoesOn
  <2> QED  BY <2>1, <2>3
<1> HIDE DEF Good
<1>4. PICK p : p = t + m /\ p + 1 = y /\ Quoting(T, t, p) /\ p < Len(T) /\ p \in Nat
  <2>1. m \in 0 .. m
    BY <1>1
  <2>2. m \in Good
    BY <1>1, <1>2, <1>3, <2>1, UpTo
  <2>3. Quoting(T, t, t + m)
    BY <2>2 DEF Good
  <2> QED  BY <1>1, <2>3
<1>5. T[p + 1].type = "quote"
  BY <1>1, <1>4
<1>6. /\ ~InPhrase(T, p + 1) /\ \A k \in t .. p + 1 : Depth(T, k) = Depth(T, t - 1)
      /\ \A d : At(T, t, p + 1, Operators, d) = {}
  <2>1. Len(T) \in Nat /\ Quoting(T, t, p) /\ p < Len(T) /\ T[p + 1].type = "quote"
    BY <1>4, <1>5
  <2> QED  BY <2>1, QuoteEnds
<1>7. t - 1 = x /\ y \in x + 1 .. Len(T) /\ t \in 1 .. Len(T) /\ y \in t .. Len(T) /\ x \in Nat /\ y \in t .. y
  BY <1>1
<1>8. PICK d : d = Depth(T, x) /\ d \in Int
  BY DepthStep
<1>9. ~InPhrase(T, y) /\ At(T, t, y, Operators, d) = {} /\ \A k \in t .. y : Depth(T, k) = d
  BY <1>4, <1>6, <1>7, <1>8
<1>10. \A k \in x .. y : Depth(T, k) >= d
  <2>1. ASSUME NEW k \in x .. y PROVE Depth(T, k) = d
    <3>1. CASE k = x
      BY <1>8, <3>1
    <3>2. CASE k # x
      <4>1. k \in t .. y
        BY <1>7, <3>2
      <4> QED  BY <1>9, <4>1
    <3> QED  BY <3>1, <3>2
  <2> QED  BY <1>8, <2>1
<1>11. M[<<t, y>>] = ReadLeaf(T)[t]
  <2>1. T[t].type # "(" /\ d = Depth(T, t - 1)
    BY <1>7, <1>8
  <2> QED  BY <1>7, <1>9, <2>1, IsLeaf
<1>12. ReadLeaf(T)[t] = ResultList(PhraseMeaning(T, t))
  BY <1>7 DEF ReadLeaf
<1>13. PhraseMeaning(T, t) = PhraseMeaning(W, u)
  BY PhraseMoves
<1>14. Depth(T, y) = d
  BY <1>7, <1>9
<1> QED  BY <1>7, <1>8, <1>9, <1>10, <1>11, <1>12, <1>13, <1>14 DEF Operand

LEMMA SpanPhrase ==
  ASSUME NEW T, NEW W, NEW M, NEW MW, NEW o, NEW D, SetUp(T, W, M, MW, o, D),
         NEW a, NEW b, Span(W, a, b), OnePhrase(W, a, b)
  PROVE  Operand(T, M, o[a], o[b], LeafMeaning(W)[a + 1])
<1>1. /\ Len(T) \in Nat /\ DOMAIN T = 1 .. Len(T) /\ Means(T, ReadLeaf(T), M)
      /\ W \in Seq(Tokens) /\ D \in Int /\ Embeds(T, W, M, o, D)
  BY DEF SetUp
<1>2. PICK n \in Nat : n = Len(W) /\ DOMAIN W = 1 .. n
  BY <1>1
<1>3. a \in 0 .. n /\ b \in a + 1 .. n /\ a \in Nat /\ b \in Nat /\ ~InPhrase(W, a) /\ ~InPhrase(W, b)
  BY <1>2 DEF Span
<1>4. PICK u, p : u = a + 1 /\ p = b - 1 /\ p + 1 = b /\ u - 1 = a /\ u \in 1 .. n
                  /\ Quoting(W, u, p) /\ W[u].type = "quote" /\ W[p + 1].type = "quote"
  BY <1>3 DEF OnePhrase
<1>5. p \in u .. n /\ \A k \in u .. p : InPhrase(W, k)
  BY <1>2, <1>4 DEF Quoting
<1>6. ASSUME NEW k \in u .. p + 1 PROVE ~Asks(W, k) /\ k \in 1 .. n
  <2>1. k = p + 1 \/ k \in u .. p
    BY <1>4, <1>5
  <2> QED  BY <1>3, <1>4, <1>5, <2>1 DEF Asks
<1>7. ASSUME NEW k \in u .. p + 1 PROVE o[k] = o[k - 1] + 1 /\ T[o[k]] = W[k] /\ o[k - 1] \in Nat /\ o[k] <= Len(T)
  <2>1. ~Asks(W, k) /\ k \in 1 .. n
    BY <1>6
  <2>2. Advances(T, W, M, o, k)
    BY <1>1, <1>2, <2>1, MovedForward
  <2> QED  BY <2>1, <2>2 DEF Advances
<1>8. PICK t, x : t = o[u] /\ x = o[a] /\ x \in Nat /\ t = x + 1 /\ T[t] = W[u]
  <2>1. u \in u .. p + 1
    BY <1>4, <1>5
  <2> QED  BY <1>4, <1>7, <2>1
<1>9. PICK m \in Nat : m = p - u /\ PhraseTo(T, W, o, u, p, t, m)
  <2>1. t \in Nat \ {0}
    BY <1>8
  <2>2. p + 1 \in u .. p + 1 /\ p + 1 <= n
    BY <1>3, <1>4, <1>5
  <2>3. o[p + 1] <= Len(T)
    BY <1>7, <2>2
  <2>4. KeptFrom(T, W, o, u, p)
    <3>1. \A k \in u + 1 .. p + 1 : k \in u .. p + 1
      BY <1>4, <1>5
    <3> QED  BY <1>7, <3>1 DEF KeptFrom
  <2>5. p - u \in Nat
    BY <1>4, <1>5
  <2> QED  BY <1>1, <1>2, <1>4, <1>8, <2>1, <2>2, <2>3, <2>4, <2>5, PhraseKept
<1>10. ~InPhrase(T, x)
  BY <1>1, <1>2, <1>3, <1>8 DEF Embeds, SamePlace
<1>11. PICK y : y = t + m + 1 /\ y = o[b] /\ SamePhrase(W, u, T, t, m)
  BY <1>4, <1>9 DEF PhraseTo
<1>12. Operand(T, M, x, y, ResultList(PhraseMeaning(W, u)))
  <2>1. T[t].type = "quote"
    BY <1>4, <1>8
  <2> QED  BY <1>1, <1>8, <1>10, <1>11, <2>1, PhraseOperand
<1>13. LeafMeaning(W)[u] = ResultList(PhraseMeaning(W, u))
  BY <1>2, <1>4 DEF LeafMeaning
<1> QED  BY <1>4, <1>8, <1>11, <1>12, <1>13

LEMMA DepthNotBelow ==
  ASSUME NEW W, Len(W) \in Nat, Grammatical(W)
  PROVE  \A k \in 0 .. Len(W) : Depth(W, k) >= 0
<1> DEFINE Good == {k \in Nat : Depth(W, k) >= 0}
<1>1. 0 \in Good
  BY DepthStep
<1>2. ASSUME NEW k \in 1 .. Len(W), k - 1 \in Good PROVE k \in Good
  <2>1. k \in Nat /\ k # 0 /\ k \in 0 .. Len(W) /\ k - 1 \in Nat
    OBVIOUS
  <2>2. CASE ~InPhrase(W, k)
    BY <2>1, <2>2 DEF Grammatical
  <2>3. CASE InPhrase(W, k)
    <3>1. ~IsOpening(W, k) /\ ~IsClosing(W, k)
      BY <2>3 DEF IsOpening, IsClosing
    <3>2. Depth(W, k) = Depth(W, k - 1) + (IF IsOpening(W, k) THEN 1 ELSE IF IsClosing(W, k) THEN -1 ELSE 0)
      BY <2>1, DepthStep
    <3>3. Depth(W, k) = Depth(W, k - 1) + 0
      BY <3>1, <3>2, Zenon
    <3>4. Depth(W, k - 1) \in Int /\ Depth(W, k - 1) >= 0
      BY <1>2, <2>1, DepthStep
    <3> QED  BY <2>1, <3>3, <3>4
  <2> QED  BY <2>2, <2>3
<1> HIDE DEF Good
<1>3. \A k \in 0 .. Len(W) : k \in Good
  BY <1>1, <1>2, UpTo
<1> QED  BY <1>3 DEF Good

LEMMA WholeSpan ==
  ASSUME NEW W, Len(W) \in Nat, Grammatical(W)
  PROVE  Span(W, 0, Len(W))
<1>1. PICK n \in Nat : n = Len(W) /\ n \in 0 .. n /\ 0 \in 0 .. n
  OBVIOUS
<1>2. ~InPhrase(W, n) /\ Depth(W, n) = 0
  BY <1>1 DEF Grammatical
<1>3. ~InPhrase(W, 0) /\ Depth(W, 0) = 0
  BY InPhraseStep, DepthStep
<1>4. ~OperandEnds(W, 0)
  BY DEF OperandEnds
<1>5. Begins1(W, 0)
  BY <1>1, <1>3, <1>4, GrammarSays
<1>6. n # 0
  BY <1>1, <1>5 DEF Begins1
<1>7. OperandEnds(W, n)
  <2>1. ~Begins1(W, n)
    BY <1>1 DEF Begins1
  <2> QED  BY <1>1, <1>2, <2>1, GrammarSays
<1>8. n \in 0 + 1 .. n
  BY <1>6
<1>9. \A k \in 0 .. n : Depth(W, k) >= Depth(W, 0)
  BY <1>1, <1>3, DepthNotBelow
<1>10. Span(W, 0, n)
  BY <1>1, <1>2, <1>3, <1>4, <1>7, <1>8, <1>9 DEF Span
<1> QED  BY <1>1, <1>10

(* A part means in T what it means in W. *)
Agrees(M, MW, o, a, b) == M[<<o[a] + 1, o[b]>>] = MW[<<a + 1, b>>]

LEMMA SpanStep ==
  ASSUME Fuzzy \in [Words -> Seq(Words)],
         NEW T, NEW W, NEW M, NEW MW, NEW o, NEW D, SetUp(T, W, M, MW, o, D), Grammatical(W), Substituted(W),
         NEW a, NEW b, Span(W, a, b),
         \A c, e : Span(W, c, e) /\ e - c < b - a => Agrees(M, MW, o, c, e)
  PROVE  Agrees(M, MW, o, a, b)
<1>1. /\ Len(T) \in Nat /\ DOMAIN T = 1 .. Len(T) /\ Means(T, ReadLeaf(T), M)
      /\ W \in Seq(Tokens) /\ D \in Int /\ Embeds(T, W, M, o, D) /\ Means(W, LeafMeaning(W), MW)
  BY DEF SetUp
<1>2. PICK n \in Nat : n = Len(W) /\ DOMAIN W = 1 .. n
  BY <1>1
<1>3. PICK d \in Int : d = Depth(W, a)
  <2>1. a \in Nat
    BY <1>2 DEF Span
  <2> QED  BY <2>1, DepthStep
<1>4. /\ a \in 0 .. n /\ b \in a + 1 .. n /\ a \in Nat /\ b \in Nat /\ b \in a .. n /\ b \in 0 .. n
      /\ ~InPhrase(W, a) /\ ~InPhrase(W, b) /\ \A k \in a .. b : Depth(W, k) >= d
  BY <1>2, <1>3 DEF Span
<1>5. PICK x, y, e, a1 : x = o[a] + 1 /\ y = o[b] /\ e = d + D /\ a1 = a + 1 /\ a1 - 1 = a /\ a1 \in 1 .. n /\ b \in a1 .. n
  BY <1>4
<1>6. /\ o[a] \in Nat /\ y \in Nat /\ x - 1 = o[a] /\ x \in 1 .. Len(T) /\ y \in x .. Len(T)
      /\ Depth(T, x - 1) = e /\ e \in Int
  <2>1. o[a] \in Nat /\ o[b] \in Nat /\ o[a] < o[b] /\ o[b] <= Len(T)
    BY <1>1, <1>2, <1>4, MovedOn
  <2>2. Depth(T, o[a]) = e
    BY <1>1, <1>2, <1>3, <1>4, <1>5 DEF Embeds, SamePlace
  <2>3. x - 1 = o[a]
    BY <1>5, <2>1
  <2>4. x \in 1 .. Len(T) /\ y \in x .. Len(T)
    <3>1. Len(T) \in Nat
      BY <1>1
    <3> QED  BY <1>5, <2>1, <3>1, SMTT(30)
  <2>5. e \in Int
    BY <1>1, <1>3, <1>5
  <2> QED  BY <1>5, <2>1, <2>2, <2>3, <2>4, <2>5
<1>7. CASE At(W, a + 1, b, Operators, d) # {}
  <2>1. PICK p \in a + 1 .. b : LastAt(W, a + 1, b, p, d)
    <3>1. a + 1 \in Nat \ {0} /\ (a + 1) - 1 = a
      BY <1>4
    <3>2. Depth(W, (a + 1) - 1) = d
      BY <1>3, <3>1
    <3> QED  BY <1>4, <1>7, <3>1, <3>2, LastExists
  <2>2. p \in At(W, a + 1, b, Operators, d)
    BY <2>1 DEF LastAt, At, Operators
  <2>3. Span(W, a, p - 1) /\ Span(W, p, b) /\ p - 1 \in Nat /\ W[p].type \in Operators
    BY <1>2, <1>3, <2>2, SpanSplits
  <2>4. PICK q : q = o[p]
    OBVIOUS
  <2>5. LastAt(T, x, y, q, e)
    BY <1>1, <1>2, <1>4, <1>5, <2>1, <2>4, LastMoves
  <2>6. p \in a1 .. b /\ p \in 1 .. n /\ p \in Nat /\ q \in Nat /\ q \in x .. y
        /\ q = o[p - 1] + 1 /\ T[q] = W[p] /\ o[p - 1] \in Nat
    <3>1. p \in a1 .. b /\ p \in 1 .. n /\ p \in Nat /\ p \in a .. n /\ p \in 0 .. n /\ b \in p .. n /\ a < p
      BY <1>4, <1>5
    <3>2. Advances(T, W, M, o, p)
      BY <1>1, <1>2, <3>1, MovedForward
    <3>3. ~Asks(W, p)
      BY <2>3 DEF Asks, Operators
    <3>4. q = o[p - 1] + 1 /\ T[q] = W[p] /\ o[p - 1] \in Nat /\ q \in Nat
      BY <2>4, <3>2, <3>3 DEF Advances
    <3>5. o[a] < o[p]
      BY <1>1, <1>2, <1>4, <3>1, MovedOn
    <3>6. o[p] <= o[b]
      BY <1>1, <1>2, <1>4, <3>1, MovedOn
    <3>7. q \in x .. y
      <4>1. o[a] < q /\ q <= y /\ o[a] \in Nat /\ x = o[a] + 1 /\ y \in Nat
        BY <1>5, <1>6, <2>4, <3>5, <3>6
      <4> QED  BY <3>4, <4>1
    <3> QED  BY <3>1, <3>4, <3>7
  <2>7. M[<<x, y>>] = Joined(T[q].type, M[<<x, q - 1>>], M[<<q + 1, y>>])
    <3>1. PICK leaf : Means(T, leaf, M) /\ Len(T) \in Nat
      BY <1>1
    <3>2. x \in 1 .. Len(T) /\ y \in x .. Len(T) /\ q \in x .. y /\ Depth(T, x - 1) = e
      BY <1>6, <2>6
    <3> QED  BY <2>5, <3>1, <3>2, SplitsAt
  <2>8. MW[<<a1, b>>] = Joined(W[p].type, MW[<<a1, p - 1>>], MW[<<p + 1, b>>])
    <3>1. Depth(W, a1 - 1) = d /\ LastAt(W, a1, b, p, d)
      BY <1>3, <1>5, <2>1
    <3>2. Len(W) \in Nat /\ a1 \in 1 .. Len(W) /\ b \in a1 .. Len(W)
      BY <1>2, <1>5
    <3> QED  BY <1>1, <2>6, <3>1, <3>2, SplitsAt
  <2>9. Agrees(M, MW, o, a, p - 1) /\ Agrees(M, MW, o, p, b)
    <3>1. (p - 1) - a < b - a /\ b - p < b - a
      BY <1>4, <2>6
    <3> QED  BY <2>3, <3>1
  <2>10. q - 1 = o[p - 1]
    BY <2>6
  <2>11. M[<<x, q - 1>>] = MW[<<a1, p - 1>>] /\ M[<<q + 1, y>>] = MW[<<p + 1, b>>]
    BY <1>5, <2>4, <2>9, <2>10 DEF Agrees
  <2> QED  BY <1>5, <2>6, <2>7, <2>8, <2>11 DEF Agrees
<1>8. CASE At(W, a + 1, b, Operators, d) = {}
  <2>1. At(T, x, y, Operators, e) = {}
    <3>1. Operators \in SUBSET Operators
      OBVIOUS
    <3>2. MovedAt(T, W, o, a, b, x, y, Operators, d, e)
      BY <1>1, <1>2, <1>4, <1>5, <3>1, AtMoves
    <3> QED  BY <1>8, <3>2 DEF MovedAt
  <2>2. At(W, a1, b, Operators, d) = {} /\ d = Depth(W, a1 - 1) /\ Len(W) \in Nat
        /\ a1 \in 1 .. Len(W) /\ b \in a1 .. Len(W)
    BY <1>2, <1>3, <1>5, <1>8
  <2>3. OneWord(W, a, b) \/ InBrackets(W, a, b) \/ OnePhrase(W, a, b)
    BY <1>2, <1>3, <1>8, SpanIsOperand
  <2>4. CASE OneWord(W, a, b) \/ OnePhrase(W, a, b)
    <3>1. Operand(T, M, o[a], o[b], LeafMeaning(W)[a1])
      <4>1. CASE OneWord(W, a, b)
        <5>1. b = a1 /\ IsWord(W[b]) /\ b \in 1 .. Len(W) /\ b - 1 = a
          BY <1>2, <1>4, <1>5, <4>1 DEF OneWord
        <5>2. W[b].type = "word" => HasSubstitutes(W[b])
          BY <1>2, <1>4, <5>1 DEF Substituted, HasSubstitutes
        <5>3. Operand(T, M, o[b - 1], o[b], LeafMeaning(W)[b])
          BY <1>4, <5>1, <5>2, WordMoves
        <5> QED  BY <5>1, <5>3
      <4>2. CASE OnePhrase(W, a, b)
        BY <1>5, <4>2, SpanPhrase
      <4> QED  BY <2>4, <4>1, <4>2
    <3>2. M[<<x, y>>] = LeafMeaning(W)[a1]
      BY <1>5, <3>1 DEF Operand
    <3>3. W[a1].type # "("
      BY <1>5, <2>4 DEF OneWord, OnePhrase, IsWord
    <3>4. MW[<<a1, b>>] = LeafMeaning(W)[a1]
      <4>1. PICK leaf : leaf = LeafMeaning(W) /\ Means(W, leaf, MW)
        BY <1>1
      <4>2. MW[<<a1, b>>] = leaf[a1]
        BY <2>2, <3>3, <4>1, IsLeaf
      <4> QED  BY <4>1, <4>2
    <3> QED  BY <1>5, <3>2, <3>4 DEF Agrees
  <2>5. CASE InBrackets(W, a, b)
    <3>1. W[a1].type = "(" /\ Span(W, a1, b - 1)
      BY <1>5, <2>5 DEF InBrackets
    <3>2. MW[<<a1, b>>] = MW[<<a1 + 1, b - 1>>]
      BY <1>1, <2>2, <3>1, IsBracket
    <3>3. o[a1] = x /\ T[x] = W[a1]
      <4>1. Advances(T, W, M, o, a1)
        BY <1>1, <1>2, <1>5, MovedForward
      <4>2. ~Asks(W, a1)
        BY <3>1 DEF Asks
      <4>3. o[a1] = o[a1 - 1] + 1 /\ T[o[a1]] = W[a1]
        BY <4>1, <4>2 DEF Advances
      <4> QED  BY <1>5, <4>3
    <3>4. o[b - 1] = y - 1
      <4>1. Advances(T, W, M, o, b)
        <5>1. b \in 1 .. n
          BY <1>4
        <5> QED  BY <1>1, <1>2, <5>1, MovedForward
      <4>2. ~Asks(W, b)
        <5> SUFFICES ASSUME W[b].type = "word" PROVE FALSE
          BY DEF Asks
        <5>1. PICK c \in Nat : c = b - 1 /\ c + 1 = b
          BY <1>4
        <5>2. ~InPhrase(W, c) /\ Depth(W, c) = Depth(W, a1)
          BY <3>1, <5>1 DEF Span
        <5>3. Depth(W, c + 1) = Depth(W, c)
          <6>1. W[c + 1].type # "quote" /\ W[c + 1].type \notin {"(", ")"}
            BY <5>1
          <6> QED  BY <5>2, <6>1, NextWord
        <5>4. Depth(W, b) = d
          BY <1>3 DEF Span
        <5>5. Depth(W, a1) = d + 1
          <6>1. W[a + 1].type # "quote" /\ W[a + 1].type = "("
            BY <1>5, <3>1
          <6>2. Depth(W, a + 1) = Depth(W, a) + 1
            BY <1>4, <6>1, NextWord
          <6> QED  BY <1>3, <1>5, <6>2
        <5> QED  BY <5>1, <5>2, <5>3, <5>4, <5>5
      <4>3. o[b] = o[b - 1] + 1 /\ o[b - 1] \in Nat
        BY <4>1, <4>2 DEF Advances
      <4> QED  BY <1>5, <4>3
    <3>5. M[<<x, y>>] = M[<<x + 1, y - 1>>]
      <4>1. T[x].type = "(" /\ e = Depth(T, x - 1)
        BY <1>6, <3>1, <3>3
      <4> QED  BY <1>1, <1>6, <2>1, <4>1, IsBracket
    <3>6. Agrees(M, MW, o, a1, b - 1)
      <4>1. (b - 1) - a1 < b - a
        BY <1>4, <1>5
      <4> QED  BY <3>1, <4>1
    <3> QED  BY <1>5, <3>2, <3>3, <3>4, <3>5, <3>6 DEF Agrees
  <2> QED  BY <2>3, <2>4, <2>5
<1> QED  BY <1>7, <1>8

LEMMA SpanMeans ==
  ASSUME Fuzzy \in [Words -> Seq(Words)],
         NEW T, NEW W, NEW M, NEW MW, NEW o, NEW D, SetUp(T, W, M, MW, o, D), Grammatical(W), Substituted(W),
         NEW a, NEW b, Span(W, a, b)
  PROVE  Agrees(M, MW, o, a, b)
<1> DEFINE Good == {m \in Nat : \A c, e : Span(W, c, e) /\ e - c <= m => Agrees(M, MW, o, c, e)}
<1>1. PICK n \in Nat : n = Len(W)
  BY DEF SetUp
<1>2. \A c, e : Span(W, c, e) => c \in Nat /\ e \in Nat /\ e - c \in 1 .. n
  BY <1>1 DEF Span
<1>3. 0 \in Good
  BY <1>2
<1>4. ASSUME NEW m \in 1 .. n, m - 1 \in Good PROVE m \in Good
  <2>1. ASSUME NEW c, NEW e, Span(W, c, e), e - c <= m PROVE Agrees(M, MW, o, c, e)
    <3>1. \A f, g : Span(W, f, g) /\ g - f < e - c => Agrees(M, MW, o, f, g)
      <4> SUFFICES ASSUME NEW f, NEW g, Span(W, f, g), g - f < e - c PROVE Agrees(M, MW, o, f, g)
        OBVIOUS
      <4>1. g - f <= m - 1
        <5>1. g - f \in Int /\ e - c \in Int
          BY <1>2, <2>1
        <5> QED  BY <2>1, <5>1
      <4> QED  BY <1>4, <4>1
    <3> QED  BY <2>1, <3>1, SpanStep
  <2> QED  BY <2>1
<1> HIDE DEF Good
<1>5. n \in Good
  <2>1. n \in 0 .. n
    OBVIOUS
  <2> QED  BY <1>3, <1>4, <2>1, UpTo
<1>6. b - a <= n
  BY <1>2
<1> QED  BY <1>5, <1>6 DEF Good

(* What a list means up to each of its words. *)
MeansUpTo(f, V, op, n) ==
  /\ f[0] = Ignored
  /\ \A i \in 1 .. n : f[i] = IF InPhrase(V, i - 1) THEN f[i - 1] ELSE Joined(op, f[i - 1], LeafMeaning(V)[i])

LEMMA ListMeaningIs ==
  ASSUME NEW V, NEW n \in Nat, n = Len(V), NEW op
  PROVE  \E f : MeansUpTo(f, V, op, n) /\ ListMeaning(V, op) = f[n]
<1> DEFINE Next1(f, i) == IF InPhrase(V, i - 1) THEN f[i - 1] ELSE Joined(op, f[i - 1], LeafMeaning(V)[i])
           Is(f, k) == f = [i \in 0 .. k |-> IF i = 0 THEN Ignored ELSE Next1(f, i)]
           Good == {k \in Nat : \E f : Is(f, k)}
<1>1. 0 \in Good
  <2> DEFINE f == [i \in 0 .. 0 |-> Ignored]
  <2>1. \A i \in 0 .. 0 : i = 0
    OBVIOUS
  <2>2. Is(f, 0)
    BY <2>1
  <2> HIDE DEF f, Is
  <2> QED  BY <2>2
<1>2. ASSUME NEW k \in 1 .. n, k - 1 \in Good PROVE k \in Good
  <2>1. PICK h : Is(h, k - 1)
    BY <1>2
  <2> DEFINE f == [i \in 0 .. k |-> IF i = 0 THEN Ignored ELSE Next1(h, i)]
  <2>2. \A i \in 0 .. k - 1 : h[i] = f[i]
    <3>1. \A i \in 0 .. k - 1 : i \in 0 .. k
      OBVIOUS
    <3> QED  BY <2>1, <3>1, Zenon
  <2>3. \A i \in 0 .. k : i # 0 => i - 1 \in 0 .. k - 1
    OBVIOUS
  <2>4. ASSUME NEW i \in 0 .. k, i # 0 PROVE Next1(h, i) = Next1(f, i)
    <3>1. h[i - 1] = f[i - 1]
      BY <2>2, <2>3, <2>4
    <3> HIDE DEF f
    <3> QED  BY <3>1
  <2>5. Is(f, k)
    <3> HIDE DEF Next1
    <3> QED  BY <2>4
  <2> HIDE DEF f, Is
  <2> QED  BY <2>5
<1> HIDE DEF Good
<1>3. n \in Good
  <2>1. n \in 0 .. n
    OBVIOUS
  <2> QED  BY <1>1, <1>2, <2>1, UpTo
<1>4. \E f : Is(f, n)
  BY <1>3 DEF Good
<1> DEFINE g == CHOOSE f : Is(f, n)
<1>5. Is(g, n)
  <2> HIDE DEF Is
  <2> QED  BY <1>4
<1>6. ListMeaning(V, op) = g[n]
  BY Zenon DEF ListMeaning
<1> HIDE DEF g
<1>7. g[0] = Ignored
  BY <1>5
<1>8. ASSUME NEW i \in 1 .. n PROVE g[i] = Next1(g, i)
  <2>1. i \in 0 .. n /\ i # 0
    OBVIOUS
  <2> HIDE DEF Next1
  <2> QED  BY <1>5, <2>1
<1>9. MeansUpTo(g, V, op, n)
  BY <1>7, <1>8 DEF MeansUpTo
<1> QED  BY <1>6, <1>9

(* convertToBoolean: a word or phrase is as it was, behind an operator if   *)
(* it is not the first.                                                     *)
ListBlock(V, op, i) == IF i = 1 \/ InPhrase(V, i - 1) THEN <<V[i]>> ELSE <<Token(op), V[i]>>

LEMMA ConvertIs ==
  ASSUME NEW V \in Seq(Tokens), NEW n \in Nat, n = Len(V), NEW op \in {"&", "|"},
         NEW W, W = convertToBoolean(V, op)
  PROVE  /\ W \in Seq(Tokens)
         /\ \E C, c : (\A i \in 1 .. n : C[i] = ListBlock(V, op, i)) /\ Laid(W, C, n, 0, c) /\ c[n] = Len(W)
<1> DEFINE C == [i \in DOMAIN V |-> IF i = 1 \/ InPhrase(V, i - 1) THEN <<V[i]>> ELSE <<Token(op), V[i]>>]
<1>1. DOMAIN V = 1 .. n /\ \A i \in 1 .. n : V[i] \in Tokens
  BY ElementOfSeq
<1>2. Token(op) \in Tokens
  BY DEF Token, Tokens, Operators
<1>3. ASSUME NEW t \in Tokens PROVE <<t>> \in Seq(Tokens) /\ <<Token(op), t>> \in Seq(Tokens)
  <2>1. PICK q \in Tokens : q = Token(op)
    BY <1>2
  <2>2. <<q, t>> \in Seq(Tokens)
    OBVIOUS
  <2> QED  BY <2>1, <2>2
<1>4. W = Seqs!FlattenSeq(C)
  BY Zenon DEF convertToBoolean
<1>5. C \in [1 .. n -> Seq(Tokens)] /\ \A i \in 1 .. n : C[i] = ListBlock(V, op, i)
  <2>1. C = [i \in 1 .. n |-> ListBlock(V, op, i)]
    BY <1>1, Zenon DEF ListBlock
  <2>2. \A i \in 1 .. n : ListBlock(V, op, i) \in Seq(Tokens)
    BY <1>1, <1>3, Zenon DEF ListBlock
  <2> HIDE DEF C
  <2> QED  BY <2>1, <2>2
<1> HIDE DEF C
<1>6. C \in Seq(Seq(Tokens)) /\ Len(C) = n
  <2>1. C \in Seq(Seq(Tokens))
    BY <1>5
  <2>2. DOMAIN C = 1 .. n
    BY <1>5
  <2> QED  BY <2>1, <2>2, LenProperties
<1>7. W \in Seq(Tokens) /\ LaysUpTo(W, C, n)
  BY <1>4, <1>6, FlattenLays
<1> QED  BY <1>5, <1>7 DEF LaysUpTo

Before(W, V, op, c, i, b) ==
  /\ b \in Nat /\ c[i] = b + 1 /\ b + 1 <= Len(W) /\ W[b + 1] = V[i]
  /\ (InPhrase(W, b) <=> InPhrase(V, i - 1)) /\ Depth(W, b) = Depth(V, i - 1)
  /\ IF i = 1 \/ InPhrase(V, i - 1) THEN b = c[i - 1] ELSE b = c[i - 1] + 1 /\ W[b].type = op

LEMMA ListPlaces ==
  ASSUME NEW V, NEW n \in Nat, NEW op \in {"&", "|"}, NEW W, Len(W) \in Nat,
         NEW C, NEW c, \A i \in 1 .. n : C[i] = ListBlock(V, op, i), Laid(W, C, n, 0, c)
  PROVE  /\ \A i \in 0 .. n : SamePlace(W, V, c, 0, i)
         /\ \A i \in 1 .. n : \E b : Before(W, V, op, c, i, b)
<1>1. c[0] = 0 /\ \A i \in 1 .. n : LaidAt(W, C[i], c[i - 1], c[i])
  BY DEF Laid
<1>2. SamePlace(W, V, c, 0, 0)
  BY <1>1, InPhraseStep, DepthStep DEF SamePlace
<1>3. ASSUME NEW i \in 1 .. n, SamePlace(W, V, c, 0, i - 1)
      PROVE  SamePlace(W, V, c, 0, i) /\ \E b : Before(W, V, op, c, i, b)
  <2>1. PICK x, y : x = c[i - 1] /\ y = c[i] /\ LaidAt(W, C[i], x, y)
    BY <1>1
  <2>2. (InPhrase(W, x) <=> InPhrase(V, i - 1)) /\ Depth(W, x) = Depth(V, i - 1) + 0 /\ x \in 0 .. Len(W)
    BY <1>3, <2>1 DEF SamePlace
  <2>3. i \in Nat \ {0} /\ i - 1 \in Nat /\ Depth(V, i - 1) \in Int /\ x \in Nat
    <3>1. i - 1 \in Nat
      OBVIOUS
    <3> QED  BY <2>2, <3>1, DepthStep
  <2>4. \E b : Before(W, V, op, c, i, b)
    <3>1. CASE i = 1 \/ InPhrase(V, i - 1)
      <4>1. C[i] = <<V[i]>>
        BY <3>1 DEF ListBlock
      <4>2. Len(<<V[i]>>) = 1 /\ <<V[i]>>[1] = V[i]
        OBVIOUS
      <4>3. y = x + 1 /\ y <= Len(W) /\ W[x + 1] = V[i]
        BY <2>1, <4>1, <4>2 DEF LaidAt
      <4>4. Before(W, V, op, c, i, x)
        BY <2>1, <2>2, <2>3, <3>1, <4>3 DEF Before
      <4> QED  BY <4>4
    <3>2. CASE ~(i = 1 \/ InPhrase(V, i - 1))
      <4>1. PICK t, u : t = Token(op) /\ u = V[i] /\ C[i] = <<t, u>>
        BY <3>2 DEF ListBlock
      <4>2. Len(<<t, u>>) = 2 /\ <<t, u>>[1] = t /\ <<t, u>>[2] = u
        OBVIOUS
      <4>3. y = x + 2 /\ y <= Len(W) /\ W[x + 1] = t /\ W[x + 2] = u
        BY <2>1, <4>1, <4>2 DEF LaidAt
      <4>4. PICK b \in Nat \ {0} : b = x + 1 /\ y = b + 1 /\ W[b] = t /\ W[b + 1] = u /\ b + 1 <= Len(W)
        BY <2>3, <4>3
      <4>5. W[b].type = op
        BY <4>1, <4>4 DEF Token
      <4>6. ~InPhrase(W, b) /\ Depth(W, b) = Depth(W, x)
        <5>1. ~InPhrase(W, x) /\ W[x + 1].type # "quote" /\ W[x + 1].type \notin {"(", ")"}
          BY <2>2, <3>2, <4>4, <4>5
        <5> QED  BY <2>3, <4>4, <5>1, NextWord
      <4>7. Depth(W, b) = Depth(V, i - 1)
        BY <2>2, <2>3, <4>6
      <4>8. Before(W, V, op, c, i, b)
        BY <2>1, <3>2, <4>1, <4>4, <4>5, <4>6, <4>7 DEF Before
      <4> QED  BY <4>8
    <3> QED  BY <3>1, <3>2
  <2>5. SamePlace(W, V, c, 0, i)
    <3>1. PICK b : Before(W, V, op, c, i, b)
      BY <2>4
    <3>2. b \in Nat /\ y = b + 1 /\ y <= Len(W) /\ W[y] = V[i]
          /\ (InPhrase(W, b) <=> InPhrase(V, i - 1)) /\ Depth(W, b) = Depth(V, i - 1)
      BY <2>1, <3>1 DEF Before
    <3> DEFINE g == [j \in {i - 1, i} |-> IF j = i THEN y ELSE b]
    <3>3. g[i - 1] = b /\ g[i] = y
      OBVIOUS
    <3> HIDE DEF g
    <3>4. Kept(W, V[i], g[i - 1], g[i])
      BY <3>2, <3>3 DEF Kept
    <3>5. SamePlace(W, V, g, 0, i - 1)
      <4>1. b \in 0 .. Len(W) /\ Depth(W, b) = Depth(V, i - 1) + 0
        BY <2>3, <3>2
      <4> QED  BY <3>2, <3>3, <4>1 DEF SamePlace
    <3>6. SamePlace(W, V, g, 0, i)
      BY <2>3, <3>4, <3>5, KeptPlace
    <3> QED  BY <2>1, <3>3, <3>6 DEF SamePlace
  <2> QED  BY <2>4, <2>5
<1> DEFINE Good == {i \in Nat : SamePlace(W, V, c, 0, i)}
<1>4. \A i \in 0 .. n : i \in Good
  <2>1. 0 \in Good
    BY <1>2
  <2>2. \A i \in 1 .. n : i - 1 \in Good => i \in Good
    BY <1>3
  <2> HIDE DEF Good
  <2> QED  BY <2>1, <2>2, UpTo
<1>5. ASSUME NEW i \in 1 .. n PROVE \E b : Before(W, V, op, c, i, b)
  <2>1. i - 1 \in 0 .. n
    OBVIOUS
  <2>2. SamePlace(W, V, c, 0, i - 1)
    BY <1>4, <2>1
  <2> QED  BY <1>3, <2>2
<1> QED  BY <1>4, <1>5

(* A list in T. *)
LEMMA ListDepth ==
  ASSUME NEW V, NEW n \in Nat, n = Len(V), DOMAIN V = 1 .. n, IsList(V)
  PROVE  \A i \in 0 .. n : Depth(V, i) = 0
<1> DEFINE Good == {i \in Nat : Depth(V, i) = 0}
<1>1. 0 \in Good
  BY DepthStep
<1>2. ASSUME NEW i \in 1 .. n, i - 1 \in Good PROVE i \in Good
  <2>1. InPhrase(V, i) \/ IsWord(V[i]) \/ V[i].type = "quote"
    BY DEF IsList
  <2>2. ~IsOpening(V, i) /\ ~IsClosing(V, i)
    BY <2>1 DEF IsOpening, IsClosing, IsWord
  <2>3. i \in Nat /\ i # 0 /\ i - 1 \in Nat
    OBVIOUS
  <2>4. Depth(V, i) = Depth(V, i - 1) + (IF IsOpening(V, i) THEN 1 ELSE IF IsClosing(V, i) THEN -1 ELSE 0)
    BY <2>3, DepthStep
  <2>5. Depth(V, i) = Depth(V, i - 1) + 0
    BY <2>2, <2>4, Zenon
  <2> QED  BY <1>2, <2>3, <2>5
<1> HIDE DEF Good
<1>3. \A i \in 0 .. n : i \in Good
  BY <1>1, <1>2, UpTo
<1> QED  BY <1>3 DEF Good

EachPlace(W, V, op, c, n) ==
  /\ \A i \in 0 .. n : SamePlace(W, V, c, 0, i)
  /\ \A i \in 1 .. n : \E b : Before(W, V, op, c, i, b)

(* No bracket opens. *)
Flat(W) == \A k \in 0 .. Len(W) : Depth(W, k) = 0

LEMMA ConvertDepth ==
  ASSUME NEW V, NEW n \in Nat, n = Len(V), DOMAIN V = 1 .. n, IsList(V), NEW op, NEW W, Len(W) \in Nat, NEW c,
         c[0] = 0, c[n] = Len(W), EachPlace(W, V, op, c, n)
  PROVE  Flat(W)
<1>0. /\ \A i \in 0 .. n : SamePlace(W, V, c, 0, i)
      /\ \A i \in 1 .. n : \E b : Before(W, V, op, c, i, b)
  BY DEF EachPlace
<1>1. \A i \in 0 .. n : Depth(V, i) = 0
  BY ListDepth
<1>2. ASSUME NEW i \in 0 .. n PROVE c[i] \in Int
  <2>1. CASE i = 0
    BY <2>1
  <2>2. CASE i # 0
    <3>1. SamePlace(W, V, c, 0, i)
      BY <1>0, <2>2
    <3> QED  BY <3>1 DEF SamePlace
  <2> QED  BY <2>1, <2>2
<1>3. ASSUME NEW k \in 0 .. Len(W) PROVE Depth(W, k) = 0
  <2>1. CASE k = 0
    BY <2>1, DepthStep
  <2>2. CASE k # 0
    <3>1. k \in Int /\ c[0] < k /\ k <= c[n]
      BY <2>2
    <3>2. PICK i \in 1 .. n : c[i - 1] < k /\ k <= c[i]
      BY <1>2, <3>1, Covers
    <3>3. PICK b : Before(W, V, op, c, i, b)
      BY <1>0
    <3>4. b \in Nat /\ c[i] = b + 1 /\ Depth(W, b) = Depth(V, i - 1) /\ (b = c[i - 1] \/ b = c[i - 1] + 1)
      BY <3>3 DEF Before
    <3>5. i - 1 \in 0 .. n /\ i \in 0 .. n
      OBVIOUS
    <3>6. k = b \/ k = c[i]
      <4>1. c[i - 1] \in Int
        BY <1>2, <3>5
      <4> QED  BY <3>2, <3>4, <4>1
    <3>7. CASE k = b
      BY <1>1, <3>4, <3>5, <3>7
    <3>8. CASE k = c[i]
      <4>1. Depth(W, c[i]) = Depth(V, i) + 0
        BY <1>0, <3>5 DEF SamePlace
      <4> QED  BY <1>1, <3>5, <3>8, <4>1
    <3> QED  BY <3>6, <3>7, <3>8
  <2> QED  BY <2>1, <2>2
<1> QED  BY <1>3 DEF Flat

(* Word i of the list ends at g[i]; what it adds begins behind x. *)
ListWord(T, V, M, op, g, D, i, x) ==
  /\ x \in Nat /\ x < g[i] /\ g[i] <= Len(T) /\ g[i] \in Nat
  /\ (InPhrase(T, x) <=> InPhrase(V, i - 1)) /\ Depth(T, x) = D
  /\ IF i = 1 \/ InPhrase(V, i - 1) THEN x = g[i - 1] ELSE x = g[i - 1] + 1 /\ T[x].type = op
  /\ IsWord(V[i]) /\ ~InPhrase(V, i) => Operand(T, M, x, g[i], LeafMeaning(V)[i])
  /\ ~Asks(V, i) => g[i] = x + 1 /\ T[g[i]] = V[i]

LEMMA ListWordIs ==
  ASSUME Fuzzy \in [Words -> Seq(Words)],
         NEW T, NEW W, NEW M, NEW MW, NEW o, NEW D, SetUp(T, W, M, MW, o, D), Flat(W),
         NEW V, NEW n \in Nat, n = Len(V), DOMAIN V = 1 .. n, Substituted(V), NEW op \in {"&", "|"}, NEW c,
         NEW i \in 1 .. n, SamePlace(W, V, c, 0, i - 1), SamePlace(W, V, c, 0, i), NEW b, Before(W, V, op, c, i, b),
         NEW g, g[i - 1] = o[c[i - 1]], g[i] = o[c[i]]
  PROVE  ListWord(T, V, M, op, g, D, i, o[b])
<1>1. /\ Len(T) \in Nat /\ DOMAIN T = 1 .. Len(T) /\ Means(T, ReadLeaf(T), M)
      /\ W \in Seq(Tokens) /\ D \in Int /\ Embeds(T, W, M, o, D)
  BY DEF SetUp
<1>2. PICK m \in Nat : m = Len(W) /\ DOMAIN W = 1 .. m
  BY <1>1
<1>3. /\ b \in Nat /\ c[i] = b + 1 /\ b + 1 <= m /\ W[b + 1] = V[i]
      /\ (InPhrase(W, b) <=> InPhrase(V, i - 1))
      /\ IF i = 1 \/ InPhrase(V, i - 1) THEN b = c[i - 1] ELSE b = c[i - 1] + 1 /\ W[b].type = op
  BY <1>2 DEF Before
<1>4. PICK e \in Nat : e = b + 1 /\ e - 1 = b /\ e \in 1 .. m /\ b \in 0 .. m
  BY <1>3
<1>5. PICK x, y : x = o[b] /\ y = o[e] /\ y = g[i]
  BY <1>3, <1>4
<1>6. (InPhrase(T, x) <=> InPhrase(W, b)) /\ Depth(T, x) = D
  <2>1. SamePlace(T, W, o, D, b)
    BY <1>1, <1>2, <1>4 DEF Embeds
  <2>2. Depth(W, b) = 0
    BY <1>2, <1>4 DEF Flat
  <2> QED  BY <1>1, <1>5, <2>1, <2>2 DEF SamePlace
<1>7. Advances(T, W, M, o, e)
  BY <1>1, <1>2, <1>4, MovedForward
<1>8. x \in Nat /\ y \in Nat /\ x < y /\ y <= Len(T) /\ (~Asks(W, e) => y = x + 1 /\ T[y] = W[e])
  BY <1>4, <1>5, <1>7 DEF Advances
<1>9. InPhrase(W, e) <=> InPhrase(V, i)
  BY <1>3, <1>4 DEF SamePlace
<1>10. Asks(W, e) <=> Asks(V, i)
  BY <1>3, <1>4, <1>9, Zenon DEF Asks
<1>11. ASSUME IsWord(V[i]), ~InPhrase(V, i) PROVE Operand(T, M, x, y, LeafMeaning(V)[i])
  <2>1. W[e].type = "word" => HasSubstitutes(W[e])
    BY <1>3, <1>4, <1>11 DEF Substituted, HasSubstitutes
  <2>2. Operand(T, M, o[e - 1], o[e], LeafMeaning(W)[e])
    BY <1>2, <1>3, <1>4, <1>9, <1>11, <2>1, WordMoves
  <2>3. LeafMeaning(W)[e] = LeafMeaning(V)[i]
    <3>1. W[e].type # "quote" /\ W[e] = V[i] /\ e \in DOMAIN W /\ i \in DOMAIN V
      BY <1>2, <1>3, <1>4, <1>11 DEF IsWord
    <3> QED  BY <3>1 DEF LeafMeaning
  <2> QED  BY <1>4, <1>5, <2>2, <2>3
<1>12. IF i = 1 \/ InPhrase(V, i - 1) THEN x = g[i - 1] ELSE x = g[i - 1] + 1 /\ T[x].type = op
  <2>1. CASE i = 1 \/ InPhrase(V, i - 1)
    BY <1>3, <1>5, <2>1
  <2>2. CASE ~(i = 1 \/ InPhrase(V, i - 1))
    <3>1. b = c[i - 1] + 1 /\ W[b].type = op
      BY <1>3, <2>2
    <3>2. ~Asks(W, b)
      BY <3>1 DEF Asks
    <3>3. c[i - 1] \in 0 .. Len(W)
      BY DEF SamePlace
    <3>4. b \in 1 .. m /\ b - 1 = c[i - 1]
      BY <1>2, <1>3, <3>1, <3>3
    <3>5. Advances(T, W, M, o, b)
      BY <1>1, <1>2, <3>4, MovedForward
    <3>6. o[b] = o[b - 1] + 1 /\ T[o[b]] = W[b]
      BY <3>2, <3>5 DEF Advances
    <3> QED  BY <1>5, <2>2, <3>1, <3>4, <3>6
  <2> QED  BY <2>1, <2>2
<1>13. ~Asks(V, i) => y = x + 1 /\ T[y] = V[i]
  BY <1>3, <1>4, <1>8, <1>10
<1>14. (InPhrase(T, x) <=> InPhrase(V, i - 1)) /\ Depth(T, x) = D
  BY <1>3, <1>6
<1>15. IsWord(V[i]) /\ ~InPhrase(V, i) => Operand(T, M, x, y, LeafMeaning(V)[i])
  BY <1>11
<1>16. y \in Nat /\ x \in Nat /\ x < y /\ y <= Len(T)
  BY <1>8
<1> QED  BY <1>5, <1>12, <1>13, <1>14, <1>15, <1>16, Zenon DEF ListWord

(* In a phrase, one has begun. *)
LEMMA PhraseBegan ==
  ASSUME NEW T, Len(T) \in Nat, NEW p \in 0 .. Len(T), InPhrase(T, p)
  PROVE  \E u \in 1 .. p : Quoting(T, u, p)
<1> DEFINE Good == {j \in Nat : InPhrase(T, j) => \E u \in 1 .. j : Quoting(T, u, j)}
<1>1. 0 \in Good
  BY InPhraseStep
<1>2. ASSUME NEW j \in 1 .. Len(T), j - 1 \in Good PROVE j \in Good
  <2> SUFFICES ASSUME InPhrase(T, j) PROVE \E u \in 1 .. j : Quoting(T, u, j)
    OBVIOUS
  <2>1. PICK h \in Nat : h = j - 1 /\ h + 1 = j /\ h < Len(T)
    OBVIOUS
  <2>2. CASE InPhrase(T, h)
    <3>1. PICK u \in 1 .. h : Quoting(T, u, h)
      BY <1>2, <2>1, <2>2
    <3>2. T[h + 1].type # "quote"
      BY <2>1, <2>2, InPhraseStep DEF IsQuote
    <3>3. Quoting(T, u, h + 1)
      BY <2>1, <3>1, <3>2, QuoteGoesOn
    <3>4. u \in 1 .. j
      BY <2>1
    <3> QED  BY <2>1, <3>3, <3>4
  <2>3. CASE ~InPhrase(T, h)
    <3>1. T[h + 1].type = "quote"
      BY <2>1, <2>3, InPhraseStep DEF IsQuote
    <3>2. Quoting(T, h + 1, h + 1)
      BY <2>1, <2>3, <3>1, QuoteOpens
    <3> QED  BY <2>1, <3>2
  <2> QED  BY <2>2, <2>3
<1> HIDE DEF Good
<1>3. p \in Good
  BY <1>1, <1>2, UpTo
<1> QED  BY <1>3 DEF Good

EachWord(T, V, M, op, g, D, n) == \A i \in 1 .. n : \E x : ListWord(T, V, M, op, g, D, i, x)

(* The phrase that ends at word i of the list is an operand. *)
LEMMA ListPhrase ==
  ASSUME NEW T, Len(T) \in Nat, DOMAIN T = 1 .. Len(T), NEW M, Means(T, ReadLeaf(T), M),
         NEW V, NEW n \in Nat, n = Len(V), DOMAIN V = 1 .. n, NEW op, NEW g, NEW D,
         \A i \in 1 .. n : \E x : ListWord(T, V, M, op, g, D, i, x),
         NEW i \in 1 .. n, ~InPhrase(V, i), NEW u, Quoting(V, u, i - 1), NEW x, ListWord(T, V, M, op, g, D, u, x)
  PROVE  Operand(T, M, x, g[i], LeafMeaning(V)[u])
<1>1. /\ u \in 1 .. n /\ i - 1 \in u .. n /\ V[u].type = "quote" /\ ~InPhrase(V, u - 1)
      /\ \A k \in u .. i - 1 : InPhrase(V, k)
  BY DEF Quoting
<1>2. PICK p \in Nat : p = i - 1 /\ p + 1 = i
  OBVIOUS
<1>3. V[i].type = "quote"
  <2>1. InPhrase(V, i - 1)
    BY <1>1, <1>2
  <2> QED  BY <2>1, InPhraseStep DEF IsQuote
<1>4. PICK t : t = g[u] /\ x \in Nat /\ t = x + 1 /\ T[t] = V[u] /\ ~InPhrase(T, x)
  <2>1. ~Asks(V, u)
    BY <1>1 DEF Asks
  <2> QED  BY <1>1, <2>1 DEF ListWord
<1>5. ASSUME NEW k \in u + 1 .. p + 1 PROVE g[k] = g[k - 1] + 1 /\ T[g[k]] = V[k]
  <2>1. k \in 1 .. n /\ k - 1 \in u .. p /\ k # 1
    BY <1>1, <1>2
  <2>2. PICK z : ListWord(T, V, M, op, g, D, k, z)
    BY <2>1
  <2>3. InPhrase(V, k - 1)
    BY <1>1, <1>2, <2>1
  <2>4. ~Asks(V, k)
    <3>1. CASE k = i
      BY <1>3, <3>1 DEF Asks
    <3>2. CASE k # i
      <4>1. k \in u .. i - 1
        BY <1>1, <1>2, <3>2
      <4> QED  BY <1>1, <4>1 DEF Asks
    <3> QED  BY <3>1, <3>2
  <2> QED  BY <2>2, <2>3, <2>4 DEF ListWord
<1>6. KeptFrom(T, V, g, u, p)
  BY <1>5 DEF KeptFrom
<1>7. PICK m \in Nat : m = p - u /\ PhraseTo(T, V, g, u, p, t, m)
  <2>1. g[p + 1] <= Len(T)
    <3>1. PICK z : ListWord(T, V, M, op, g, D, i, z)
      OBVIOUS
    <3> QED  BY <1>2, <3>1 DEF ListWord
  <2>2. t \in Nat \ {0} /\ p - u \in Nat /\ p + 1 <= Len(V)
    BY <1>1, <1>2, <1>4
  <2>3. Quoting(V, u, p) /\ V[p + 1].type = "quote" /\ Len(V) \in Nat
    BY <1>2, <1>3
  <2> QED  BY <1>4, <1>6, <2>1, <2>2, <2>3, PhraseKept
<1>8. PICK y : y = t + m + 1 /\ y = g[i] /\ SamePhrase(V, u, T, t, m)
  BY <1>2, <1>7 DEF PhraseTo
<1>9. Operand(T, M, x, y, ResultList(PhraseMeaning(V, u)))
  <2>1. T[t].type = "quote"
    BY <1>1, <1>4
  <2> QED  BY <1>4, <1>8, <2>1, PhraseOperand
<1>10. LeafMeaning(V)[u] = ResultList(PhraseMeaning(V, u))
  BY <1>1 DEF LeafMeaning
<1> QED  BY <1>8, <1>9, <1>10

(* One more operand. *)
AddsOn(T, M, op, s, D, x, e, v) == Chained(T, M, s, op, D, e, v) /\ Joins(T, op, s, D, e, x)

LEMMA ListExtends ==
  ASSUME NEW T, NEW V, NEW M, NEW op, NEW g, NEW D, NEW s, NEW f, g[0] = s, f[0] = Ignored,
         NEW i \in Nat \ {0}, NEW x, ListWord(T, V, M, op, g, D, i, x), ~InPhrase(V, i - 1),
         i # 1 => Chained(T, M, s, op, D, g[i - 1], f[i - 1]) /\ g[i - 1] # s
  PROVE  AddsOn(T, M, op, s, D, x, g[i - 1], f[i - 1])
<1>1. CASE i = 1
  <2>1. x = s /\ g[i - 1] = s /\ f[i - 1] = Ignored
    BY <1>1 DEF ListWord
  <2> QED  BY <2>1 DEF AddsOn, Chained, Joins
<1>2. CASE i # 1
  <2>1. x = g[i - 1] + 1 /\ T[x].type = op /\ ~InPhrase(T, x) /\ Depth(T, x) = D
    BY <1>2 DEF ListWord
  <2> QED  BY <1>2, <2>1 DEF AddsOn, Joins
<1> QED  BY <1>1, <1>2

LEMMA OperandExtends ==
  ASSUME NEW T, Len(T) \in Nat, NEW leaf, NEW M, Means(T, leaf, M), NEW op \in {"&", "|"},
         NEW s \in Nat, NEW D, Depth(T, s) = D, NEW e, NEW v, NEW x \in Nat, AddsOn(T, M, op, s, D, x, e, v),
         Depth(T, x) = D, NEW y, NEW w, Operand(T, M, x, y, w)
  PROVE  Chained(T, M, s, op, D, y, Joined(op, v, w)) /\ y # s
<1>1. y \in x + 1 .. Len(T) /\ At(T, x + 1, y, Operators, D) = {} /\ M[<<x + 1, y>>] = w
  BY DEF Operand
<1>2. Chained(T, M, s, op, D, e, v) /\ Joins(T, op, s, D, e, x)
  BY DEF AddsOn
<1>3. Chained(T, M, s, op, D, y, Joined(op, v, M[<<x + 1, y>>])) /\ y # s
  BY <1>1, <1>2, Chains
<1> QED  BY <1>1, <1>3

LEMMA ListMeans ==
  ASSUME NEW T, Len(T) \in Nat, DOMAIN T = 1 .. Len(T), NEW M, Means(T, ReadLeaf(T), M),
         NEW V \in Seq(Tokens), NEW n \in Nat, n = Len(V), DOMAIN V = 1 .. n, IsList(V), NEW op \in {"&", "|"}, NEW g, NEW D,
         EachWord(T, V, M, op, g, D, n),
         NEW s \in Nat, g[0] = s, Depth(T, s) = D, NEW f, MeansUpTo(f, V, op, n),
         NEW z, g[n] = z, NEW r, f[n] = r
  PROVE  M[<<s + 1, z>>] = r
<1>0. \A i \in 1 .. n : \E x : ListWord(T, V, M, op, g, D, i, x)
  BY DEF EachWord
<1>1. /\ f[0] = Ignored
      /\ \A i \in 1 .. n : f[i] = IF InPhrase(V, i - 1) THEN f[i - 1] ELSE Joined(op, f[i - 1], LeafMeaning(V)[i])
  BY DEF MeansUpTo
<1> DEFINE Fine(j) == ~InPhrase(V, j) /\ j # 0 => Chained(T, M, s, op, D, g[j], f[j]) /\ g[j] # s
           Good == {i \in Nat : \A j \in 0 .. i : Fine(j)}
<1>2. 0 \in Good
  OBVIOUS
<1>3. ASSUME NEW i \in 1 .. n, \A j \in 0 .. i - 1 : Fine(j), ~InPhrase(V, i)
      PROVE  Chained(T, M, s, op, D, g[i], f[i]) /\ g[i] # s
  <2>1. CASE ~InPhrase(V, i - 1)
    <3>1. PICK x : ListWord(T, V, M, op, g, D, i, x)
      BY <1>0
    <3>2. i # 1 => Chained(T, M, s, op, D, g[i - 1], f[i - 1]) /\ g[i - 1] # s
      <4>1. i - 1 \in 0 .. i - 1 /\ (i # 1 => i - 1 # 0)
        OBVIOUS
      <4> QED  BY <1>3, <2>1, <4>1
    <3>3. i \in Nat \ {0}
      OBVIOUS
    <3>4. AddsOn(T, M, op, s, D, x, g[i - 1], f[i - 1])
      BY <1>1, <2>1, <3>1, <3>2, <3>3, ListExtends
    <3>5. IsWord(V[i])
      <4>1. V[i].type # "quote"
        BY <1>3, <2>1, <3>3, InPhraseStep DEF IsQuote
      <4> QED  BY <1>3, <4>1 DEF IsList
    <3>6. Operand(T, M, x, g[i], LeafMeaning(V)[i]) /\ x \in Nat /\ Depth(T, x) = D
      BY <1>3, <3>1, <3>5 DEF ListWord
    <3>7. PICK v, w, y, e : v = f[i - 1] /\ w = LeafMeaning(V)[i] /\ y = g[i] /\ e = g[i - 1]
      OBVIOUS
    <3>8. Chained(T, M, s, op, D, y, Joined(op, v, w)) /\ y # s
      BY <3>4, <3>6, <3>7, OperandExtends
    <3> QED  BY <1>1, <2>1, <3>7, <3>8
  <2>2. CASE InPhrase(V, i - 1)
    <3>1. i - 1 \in 0 .. Len(V) /\ Len(V) \in Nat
      OBVIOUS
    <3>2. PICK u \in 1 .. i - 1 : Quoting(V, u, i - 1)
      BY <2>2, <3>1, PhraseBegan
    <3>3. u \in 1 .. n /\ u \in Nat \ {0} /\ u - 1 \in 0 .. i - 1 /\ (u # 1 => u - 1 # 0)
      OBVIOUS
    <3>4. ~InPhrase(V, u - 1) /\ \A k \in u .. i - 1 : InPhrase(V, k)
      BY <3>2 DEF Quoting
    <3>5. PICK x : ListWord(T, V, M, op, g, D, u, x)
      BY <1>0, <3>3
    <3>6. u # 1 => Chained(T, M, s, op, D, g[u - 1], f[u - 1]) /\ g[u - 1] # s
      BY <1>3, <3>3, <3>4
    <3>7. AddsOn(T, M, op, s, D, x, g[u - 1], f[u - 1])
      BY <1>1, <3>3, <3>4, <3>5, <3>6, ListExtends
    <3>8. Operand(T, M, x, g[i], LeafMeaning(V)[u])
      BY <1>0, <1>3, <3>2, <3>5, ListPhrase
    <3>9. x \in Nat /\ Depth(T, x) = D
      BY <3>5 DEF ListWord
    <3>10. PICK v, w, y, e : v = f[u - 1] /\ w = LeafMeaning(V)[u] /\ y = g[i] /\ e = g[u - 1]
      OBVIOUS
    <3>11. Chained(T, M, s, op, D, y, Joined(op, v, w)) /\ y # s
      BY <3>7, <3>8, <3>9, <3>10, OperandExtends
    <3>12. f[u] = Joined(op, v, w)
      BY <1>1, <3>3, <3>4, <3>10
    <3>13. f[i] = f[u]
      <4> DEFINE Kept1 == {k \in Nat : f[u + k] = f[u]}
      <4>1. 0 \in Kept1
        BY <3>3
      <4>2. ASSUME NEW k \in 1 .. i - u, k - 1 \in Kept1 PROVE k \in Kept1
        <5>1. PICK h : h = u + k /\ h - 1 = u + (k - 1) /\ h - 1 \in u .. i - 1 /\ h \in 1 .. n
          BY <3>3
        <5>2. f[h] = f[h - 1]
          BY <1>1, <3>4, <5>1
        <5>3. f[h - 1] = f[u]
          BY <4>2, <5>1
        <5> QED  BY <5>1, <5>2, <5>3
      <4>3. i - u \in Nat /\ i - u \in 0 .. i - u /\ u + (i - u) = i
        BY <3>3
      <4> HIDE DEF Kept1
      <4>4. i - u \in Kept1
        BY <4>1, <4>2, <4>3, UpTo
      <4> QED  BY <4>3, <4>4 DEF Kept1
    <3> QED  BY <3>10, <3>11, <3>12, <3>13
  <2> QED  BY <2>1, <2>2
<1>4. ASSUME NEW i \in 1 .. n, i - 1 \in Good PROVE i \in Good
  <2>1. \A j \in 0 .. i - 1 : Fine(j)
    BY <1>4
  <2>2. Fine(i)
    BY <1>3, <2>1
  <2>3. \A j \in 0 .. i : j = i \/ j \in 0 .. i - 1
    OBVIOUS
  <2> HIDE DEF Fine
  <2> QED  BY <2>1, <2>2, <2>3
<1>5. n \in Good
  <2>1. n \in 0 .. n
    OBVIOUS
  <2> HIDE DEF Good
  <2> QED  BY <1>2, <1>4, <2>1, UpTo
<1>6. Fine(n)
  <2>1. n \in 0 .. n
    OBVIOUS
  <2> HIDE DEF Fine
  <2> QED  BY <1>5, <2>1
<1>7. n # 0 /\ ~InPhrase(V, n)
  <2>1. V # <<>> /\ ~InPhrase(V, n)
    BY DEF IsList
  <2> QED  BY <2>1
<1> QED  BY <1>6, <1>7 DEF Chained

(* setupWords lays out what is asked for. *)
Flattened(W) ==
  Seqs!FlattenSeq([i \in DOMAIN W |-> IF W[i].type = "word" /\ ~InPhrase(W, i) THEN doFuzzy(W[i])
                                      ELSE <<W[i]>>])

LEMMA BlockIsText ==
  ASSUME NEW op \in {"&", "|"}, NEW found \in Seq(WordTokens), Len(found) >= 1
  PROVE  Block(op, found) \in Seq(Tokens)
<1>1. WordTokens \subseteq Tokens
  BY DEF WordTokens, Tokens
<1>2. found \in Seq(Tokens)
  BY <1>1, SeqMonotonic
<1>3. Token(op) \in Tokens /\ Token("(") \in Tokens /\ Token(")") \in Tokens
  BY DEF Token, Tokens, Operators
<1>4. PICK n \in Nat : n = Len(found) /\ n >= 1
  BY <1>2
<1>5. CASE n = 1
  BY <1>2, <1>4, <1>5 DEF Block
<1>6. CASE n # 1
  <2>1. PICK x : x = Between(op, found)
    OBVIOUS
  <2>2. x \in Seq(Tokens)
    BY <1>2, <1>3, <1>4, <2>1, BetweenIs
  <2>3. PICK m \in Nat : m = Len(x)
    BY <2>2
  <2>4. PICK z : z = Bracketed(x)
    OBVIOUS
  <2>5. z \in Seq(Tokens)
    BY <1>3, <2>2, <2>3, <2>4, BracketedIs
  <2>6. Block(op, found) = z
    BY <1>4, <1>6, <2>1, <2>4 DEF Block
  <2> QED  BY <2>5, <2>6
<1> QED  BY <1>5, <1>6

LEMMA SetupIs ==
  ASSUME Fuzzy \in [Words -> Seq(Words)], NEW W \in Seq(Tokens), NEW n \in Nat, n = Len(W),
         NEW x, x = Flattened(W)
  PROVE  /\ x \in Seq(Tokens)
         /\ \E B : (\A i \in 1 .. n : B[i] = Setup(W, i) /\ Len(B[i]) \in Nat) /\ LaysUpTo(x, B, n)
<1> DEFINE B == [i \in DOMAIN W |-> IF W[i].type = "word" /\ ~InPhrase(W, i) THEN doFuzzy(W[i]) ELSE <<W[i]>>]
<1>1. DOMAIN W = 1 .. n /\ \A i \in 1 .. n : W[i] \in Tokens
  BY ElementOfSeq
<1>2. B = [i \in 1 .. n |-> Setup(W, i)]
  BY <1>1, Zenon DEF Setup, Asks
<1>3. x = Seqs!FlattenSeq(B)
  BY Zenon DEF Flattened
<1>4. ASSUME NEW i \in 1 .. n PROVE Setup(W, i) \in Seq(Tokens)
  <2>1. CASE Asks(W, i)
    <3>1. W[i] \in WordTokens
      BY <1>1, <2>1 DEF Tokens, WordTokens, Asks, Operators
    <3>2. PICK found \in Seq(WordTokens) : Len(found) >= 1 /\ doFuzzy(W[i]) = Block("|", found)
      BY <3>1, FuzzyFoundIs
    <3>3. Block("|", found) \in Seq(Tokens)
      BY <3>2, BlockIsText
    <3> QED  BY <2>1, <3>2, <3>3 DEF Setup
  <2>2. CASE ~Asks(W, i)
    <3>1. PICK t \in Tokens : t = W[i]
      BY <1>1
    <3>2. <<t>> \in Seq(Tokens)
      OBVIOUS
    <3> QED  BY <2>2, <3>1, <3>2 DEF Setup
  <2> QED  BY <2>1, <2>2
<1> HIDE DEF B
<1>5. B \in [1 .. n -> Seq(Tokens)]
  BY <1>2, <1>4
<1>6. B \in Seq(Seq(Tokens)) /\ Len(B) = n
  <2>1. B \in Seq(Seq(Tokens))
    BY <1>5
  <2>2. DOMAIN B = 1 .. n
    BY <1>5
  <2> QED  BY <2>1, <2>2, LenProperties
<1>7. x \in Seq(Tokens) /\ LaysUpTo(x, B, n)
  BY <1>3, <1>6, FlattenLays
<1>8. ASSUME NEW i \in 1 .. n PROVE B[i] = Setup(W, i) /\ Len(B[i]) \in Nat
  <2>1. B[i] \in Seq(Tokens) /\ B[i] = Setup(W, i)
    BY <1>2, <1>5
  <2> QED  BY <2>1, LenProperties
<1> QED  BY <1>7, <1>8

SetUpFrom(T, W, M, MW, o, D, s, e) ==
  SetUp(T, W, M, MW, o, D) /\ o[0] = s /\ o[Len(W)] = e /\ D = Depth(T, s)

LEMMA Embedded ==
  ASSUME Fuzzy \in [Words -> Seq(Words)], NEW T, Len(T) \in Nat, DOMAIN T = 1 .. Len(T),
         NEW M, Means(T, ReadLeaf(T), M), NEW W \in Seq(Tokens), NEW x, x = Flattened(W),
         NEW s, NEW e, LaidAt(T, x, s, e), ~InPhrase(T, s), NEW MW, MW = Meaning(W, LeafMeaning(W))
  PROVE  \E o, D : SetUpFrom(T, W, M, MW, o, D, s, e)
<1>1. PICK n \in Nat : n = Len(W)
  OBVIOUS
<1>2. x \in Seq(Tokens)
  BY <1>1, SetupIs
<1>3. PICK B : (\A i \in 1 .. n : B[i] = Setup(W, i) /\ Len(B[i]) \in Nat) /\ LaysUpTo(x, B, n)
  BY <1>1, SetupIs
<1>4. PICK o : Laid(T, B, n, s, o) /\ o[n] = e
  BY <1>3, LaidInside
<1>5. PICK leaf : leaf = ReadLeaf(T) /\ Means(T, leaf, M) /\ WordsFound(T, leaf)
  <2>1. WordsFound(T, ReadLeaf(T))
    BY DEF WordsFound, ReadLeaf
  <2> QED  BY <2>1
<1>6. s \in Nat /\ s <= Len(T)
  <2>1. s \in Nat /\ Len(x) \in Nat /\ e = s + Len(x) /\ e <= Len(T)
    BY DEF LaidAt
  <2> QED  BY <2>1
<1>7. PICK D : D = Depth(T, s)
  OBVIOUS
<1>8. Embeds(T, W, M, o, D) /\ D \in Int
  <2>1. \A i \in 1 .. n : B[i] = Setup(W, i)
    BY <1>3
  <2> QED  BY <1>1, <1>4, <1>5, <1>6, <1>7, <2>1, SetupEmbeds
<1>9. Means(W, LeafMeaning(W), MW)
  BY <1>1, MeaningIs DEF Means
<1>10. SetUp(T, W, M, MW, o, D)
  BY <1>8, <1>9 DEF SetUp
<1>11. o[0] = s
  BY <1>4 DEF Laid
<1> QED  BY <1>1, <1>4, <1>7, <1>10, <1>11 DEF SetUpFrom

(* What was set up from place s to e of T is an operand. *)
MeansThere(T, M, s, e, v) ==
  /\ s < e /\ ~InPhrase(T, e) /\ Depth(T, e) = Depth(T, s)
  /\ \A k \in s .. e : Depth(T, k) >= Depth(T, s)
  /\ M[<<s + 1, e>>] = v

LEMMA EmbeddedPlaces ==
  ASSUME NEW T, NEW W, NEW M, NEW MW, NEW o, NEW D, NEW s, NEW e, SetUpFrom(T, W, M, MW, o, D, s, e),
         Len(W) # 0, ~InPhrase(W, Len(W)), Depth(W, Len(W)) = 0, \A k \in 0 .. Len(W) : Depth(W, k) >= 0,
         NEW v, M[<<s + 1, e>>] = v
  PROVE  MeansThere(T, M, s, e, v)
<1>1. /\ Len(T) \in Nat /\ W \in Seq(Tokens) /\ D \in Int /\ Embeds(T, W, M, o, D)
      /\ o[0] = s /\ o[Len(W)] = e /\ D = Depth(T, s)
  BY DEF SetUpFrom, SetUp
<1>2. PICK n \in Nat : n = Len(W) /\ n # 0 /\ 0 \in 0 .. n /\ n \in 0 .. n
  BY <1>1
<1>3. s < e
  BY <1>1, <1>2, MovedOn
<1>4. ~InPhrase(T, e) /\ Depth(T, e) = 0 + D
  BY <1>1, <1>2 DEF Embeds, SamePlace
<1>6. 0 + D = D
  BY <1>1
<1>5. DeepFrom(T, s, e, D)
  <2>1. \A k \in 0 .. n : Depth(W, k) >= 0
    BY <1>2
  <2>2. 0 \in Int /\ D = 0 + D /\ s = o[0] /\ e = o[n] /\ n \in 0 .. n
    BY <1>1, <1>2
  <2> QED  BY <1>1, <1>2, <2>1, <2>2, MovedDepth
<1> QED  BY <1>1, <1>2, <1>3, <1>4, <1>5, <1>6 DEF MeansThere, DeepFrom

LEMMA AskedBoolean ==
  ASSUME Fuzzy \in [Words -> Seq(Words)], NEW T, Len(T) \in Nat, DOMAIN T = 1 .. Len(T),
         NEW M, Means(T, ReadLeaf(T), M), NEW W \in Seq(Tokens), Grammatical(W), Substituted(W),
         NEW x, x = Flattened(W), NEW s, NEW e, LaidAt(T, x, s, e), ~InPhrase(T, s)
  PROVE  MeansThere(T, M, s, e, Meaning(W, LeafMeaning(W))[<<1, Len(W)>>])
<1>1. PICK n \in Nat : n = Len(W)
  OBVIOUS
<1>2. PICK MW : MW = Meaning(W, LeafMeaning(W))
  OBVIOUS
<1>3. PICK o, D : SetUpFrom(T, W, M, MW, o, D, s, e)
  BY <1>2, Embedded
<1>4. SetUp(T, W, M, MW, o, D) /\ o[0] = s /\ o[n] = e
  BY <1>1, <1>3 DEF SetUpFrom
<1>5. Span(W, 0, n)
  BY <1>1, WholeSpan
<1>6. Agrees(M, MW, o, 0, n)
  BY <1>4, <1>5, SpanMeans
<1>7. 0 + 1 = 1
  OBVIOUS
<1>8. M[<<s + 1, e>>] = MW[<<1, n>>]
  BY <1>4, <1>6, <1>7 DEF Agrees
<1>9. Len(W) # 0
  BY <1>1, <1>5 DEF Span
<1>10. ~InPhrase(W, Len(W)) /\ Depth(W, Len(W)) = 0
  BY DEF Grammatical
<1>11. \A k \in 0 .. Len(W) : Depth(W, k) >= 0
  BY <1>1, DepthNotBelow
<1>12. PICK v : v = MW[<<1, n>>]
  OBVIOUS
<1>13. MeansThere(T, M, s, e, v)
  BY <1>3, <1>8, <1>9, <1>10, <1>11, <1>12, EmbeddedPlaces
<1> QED  BY <1>1, <1>2, <1>12, <1>13

LEMMA AskedList ==
  ASSUME Fuzzy \in [Words -> Seq(Words)], NEW T, Len(T) \in Nat, DOMAIN T = 1 .. Len(T),
         NEW M, Means(T, ReadLeaf(T), M), NEW V \in Seq(Tokens), IsList(V), Substituted(V),
         NEW op \in {"&", "|"}, NEW x, x = Flattened(convertToBoolean(V, op)),
         NEW s, NEW e, LaidAt(T, x, s, e), ~InPhrase(T, s)
  PROVE  MeansThere(T, M, s, e, ListMeaning(V, op))
<1>1. PICK n \in Nat : n = Len(V) /\ DOMAIN V = 1 .. n
  OBVIOUS
<1>2. PICK W : W = convertToBoolean(V, op)
  OBVIOUS
<1>3. W \in Seq(Tokens) /\ \E C, c : (\A i \in 1 .. n : C[i] = ListBlock(V, op, i)) /\ Laid(W, C, n, 0, c) /\ c[n] = Len(W)
  BY <1>1, <1>2, ConvertIs, SMTT(60)
<1>4. PICK C, c : (\A i \in 1 .. n : C[i] = ListBlock(V, op, i)) /\ Laid(W, C, n, 0, c) /\ c[n] = Len(W)
  BY <1>3
<1>5. PICK m \in Nat : m = Len(W)
  BY <1>3
<1>6. (\A i \in 0 .. n : SamePlace(W, V, c, 0, i)) /\ \A i \in 1 .. n : \E b : Before(W, V, op, c, i, b)
  BY <1>4, <1>5, ListPlaces
<1>7. c[0] = 0
  BY <1>4 DEF Laid
<1>8. Flat(W)
  <2>1. EachPlace(W, V, op, c, n)
    BY <1>6 DEF EachPlace
  <2>2. Len(W) \in Nat /\ c[n] = Len(W)
    BY <1>4, <1>5
  <2> QED  BY <1>1, <1>7, <2>1, <2>2, ConvertDepth
<1>9. PICK MW : MW = Meaning(W, LeafMeaning(W))
  OBVIOUS
<1>10. PICK o, D : SetUpFrom(T, W, M, MW, o, D, s, e)
  BY <1>2, <1>3, <1>9, Embedded
<1>11. SetUp(T, W, M, MW, o, D) /\ o[0] = s /\ o[m] = e /\ D = Depth(T, s)
  BY <1>5, <1>10 DEF SetUpFrom
<1>12. PICK g : g = [i \in 0 .. n |-> o[c[i]]]
  OBVIOUS
<1>13. \A i \in 0 .. n : g[i] = o[c[i]]
  BY <1>12
<1>14. ASSUME NEW i \in 1 .. n PROVE \E z : ListWord(T, V, M, op, g, D, i, z)
  <2>1. i \in 0 .. n /\ i - 1 \in 0 .. n
    OBVIOUS
  <2>2. SamePlace(W, V, c, 0, i - 1) /\ SamePlace(W, V, c, 0, i) /\ g[i] = o[c[i]] /\ g[i - 1] = o[c[i - 1]]
    BY <1>6, <1>13, <2>1
  <2>3. PICK b : Before(W, V, op, c, i, b)
    BY <1>6
  <2>4. ListWord(T, V, M, op, g, D, i, o[b])
    BY <1>1, <1>8, <1>11, <2>2, <2>3, ListWordIs
  <2> QED  BY <2>4
<1>15. PICK f : MeansUpTo(f, V, op, n) /\ ListMeaning(V, op) = f[n]
  BY <1>1, ListMeaningIs
<1>16. g[0] = s /\ g[n] = e
  <2>1. 0 \in 0 .. n /\ n \in 0 .. n
    OBVIOUS
  <2> QED  BY <1>4, <1>5, <1>7, <1>11, <1>13, <2>1
<1>17. s \in Nat
  BY DEF LaidAt
<1>18. M[<<s + 1, e>>] = f[n]
  <2>1. EachWord(T, V, M, op, g, D, n)
    BY <1>14 DEF EachWord
  <2>2. PICK v : f[n] = v
    OBVIOUS
  <2>3. M[<<s + 1, e>>] = v
    BY <1>1, <1>11, <1>15, <1>16, <1>17, <2>1, <2>2, ListMeans
  <2> QED  BY <2>2, <2>3
<1>19. n # 0 /\ ~InPhrase(V, n)
  <2>1. V # <<>> /\ ~InPhrase(V, n)
    BY <1>1 DEF IsList
  <2> QED  BY <1>1, <2>1
<1>20. Len(W) # 0 /\ ~InPhrase(W, Len(W))
  <2>1. SamePlace(W, V, c, 0, n) /\ n - 1 \in 0 .. n /\ n \in 1 .. n
    BY <1>6, <1>19
  <2>2. PICK b : Before(W, V, op, c, n, b)
    BY <1>6, <2>1
  <2>3. c[n] = b + 1 /\ b \in Nat
    BY <2>2 DEF Before
  <2>4. ~InPhrase(W, c[n])
    BY <1>19, <2>1 DEF SamePlace
  <2> QED  BY <1>4, <2>3, <2>4
<1>21. Depth(W, Len(W)) = 0 /\ \A k \in 0 .. Len(W) : Depth(W, k) >= 0
  <2>1. Len(W) \in 0 .. Len(W)
    BY <1>5
  <2> QED  BY <1>8, <2>1 DEF Flat
<1>22. PICK v : v = ListMeaning(V, op) /\ M[<<s + 1, e>>] = v
  BY <1>15, <1>18
<1>23. MeansThere(T, M, s, e, v)
  BY <1>10, <1>20, <1>21, <1>22, EmbeddedPlaces
<1> QED  BY <1>22, <1>23

Askable(q) ==
  /\ q.words \in Seq(Tokens) /\ Substituted(q.words)
  /\ \/ q.match_method = "boolean" /\ Grammatical(q.words)
     \/ q.match_method \in {"and", "or"} /\ IsList(q.words)

LEMMA AskedMeans ==
  ASSUME Fuzzy \in [Words -> Seq(Words)], NEW T, Len(T) \in Nat, DOMAIN T = 1 .. Len(T),
         NEW M, Means(T, ReadLeaf(T), M), NEW q, Askable(q),
         NEW x, x = setupWords(q), NEW s, NEW e, LaidAt(T, x, s, e), ~InPhrase(T, s)
  PROVE  MeansThere(T, M, s, e, QueryMeaning(q))
<1>1. PICK V : V = q.words /\ V \in Seq(Tokens) /\ Substituted(V)
  BY DEF Askable
<1>2. CASE q.match_method = "boolean" /\ Grammatical(q.words)
  <2>1. x = Flattened(V)
    BY <1>1, <1>2 DEF setupWords, Flattened
  <2>2. QueryMeaning(q) = Meaning(V, LeafMeaning(V))[<<1, Len(V)>>]
    BY <1>1, <1>2 DEF QueryMeaning
  <2>3. MeansThere(T, M, s, e, Meaning(V, LeafMeaning(V))[<<1, Len(V)>>])
    BY <1>1, <1>2, <2>1, AskedBoolean
  <2> QED  BY <2>2, <2>3
<1>3. CASE q.match_method = "and" /\ IsList(q.words)
  <2>1. x = Flattened(convertToBoolean(V, "&"))
    BY <1>1, <1>3 DEF setupWords, Flattened
  <2>2. QueryMeaning(q) = ListMeaning(V, "&")
    BY <1>1, <1>3 DEF QueryMeaning
  <2>3. PICK op : op = "&" /\ op \in {"&", "|"}
    OBVIOUS
  <2>4. MeansThere(T, M, s, e, ListMeaning(V, op))
    BY <1>1, <1>3, <2>1, <2>3, AskedList
  <2> QED  BY <2>2, <2>3, <2>4
<1>4. CASE q.match_method = "or" /\ IsList(q.words)
  <2>1. x = Flattened(convertToBoolean(V, "|"))
    BY <1>1, <1>4 DEF setupWords, Flattened
  <2>2. QueryMeaning(q) = ListMeaning(V, "|")
    BY <1>1, <1>4 DEF QueryMeaning
  <2>3. PICK op : op = "|" /\ op \in {"&", "|"}
    OBVIOUS
  <2>4. MeansThere(T, M, s, e, ListMeaning(V, op))
    BY <1>1, <1>4, <2>1, <2>3, AskedList
  <2> QED  BY <2>2, <2>3, <2>4
<1> QED  BY <1>2, <1>3, <1>4 DEF Askable

(* What is set up is a text. *)
LEMMA SetupIsText ==
  ASSUME Fuzzy \in [Words -> Seq(Words)], NEW q, Askable(q), NEW x, x = setupWords(q)
  PROVE  x \in Seq(Tokens)
<1>1. PICK V : V = q.words /\ V \in Seq(Tokens)
  BY DEF Askable
<1>2. CASE q.match_method = "boolean"
  <2>1. x = Flattened(V)
    BY <1>1, <1>2 DEF setupWords, Flattened
  <2>2. PICK n \in Nat : n = Len(V)
    BY <1>1
  <2> QED  BY <1>1, <2>1, <2>2, SetupIs
<1>3. ASSUME NEW op \in {"&", "|"}, x = Flattened(convertToBoolean(V, op)) PROVE x \in Seq(Tokens)
  <2>1. PICK W : W = convertToBoolean(V, op)
    OBVIOUS
  <2>2. PICK m \in Nat : m = Len(V)
    BY <1>1
  <2>3. W \in Seq(Tokens)
    BY <1>1, <2>1, <2>2, ConvertIs
  <2>4. PICK n \in Nat : n = Len(W)
    BY <2>3
  <2> QED  BY <1>3, <2>1, <2>3, <2>4, SetupIs
<1>4. CASE q.match_method = "and"
  <2>1. x = Flattened(convertToBoolean(V, "&"))
    BY <1>1, <1>4 DEF setupWords, Flattened
  <2> QED  BY <1>3, <2>1
<1>5. CASE q.match_method = "or"
  <2>1. x = Flattened(convertToBoolean(V, "|"))
    BY <1>1, <1>5 DEF setupWords, Flattened
  <2> QED  BY <1>3, <2>1
<1> QED  BY <1>2, <1>4, <1>5 DEF Askable

(* addRequiredWords: the m words of S in brackets, "&" and the keywords.    *)
Required(keywords) == [i \in DOMAIN keywords |-> Word(keywords[i], AllFields)]
AnyOrAll == IF any_keywords THEN "|" ELSE "&"

WithRequired(T, S, m, op, found) ==
  /\ T[1].type = "(" /\ LaidAt(T, S, 1, m + 1) /\ T[m + 2].type = ")"
  /\ T[m + 3].type = "&" /\ LaidAt(T, Block(op, found), m + 3, Len(T))

LEMMA AllRequired ==
  ASSUME NEW keywords \in Seq(Words), NEW n \in Nat, n = Len(keywords), NEW found, found = Required(keywords)
  PROVE  /\ found \in Seq(WordTokens) /\ Len(found) = n /\ (n = 0 <=> found = <<>>)
         /\ \A i \in 1 .. n : keywords[i] \in Words /\ found[i] = Word(keywords[i], AllFields)
<1>1. DOMAIN keywords = 1 .. n /\ \A i \in 1 .. n : keywords[i] \in Words
  OBVIOUS
<1>2. found = [i \in 1 .. n |-> Word(keywords[i], AllFields)]
  BY <1>1 DEF Required
<1>3. \A i \in 1 .. n : Word(keywords[i], AllFields) \in WordTokens
  BY <1>1 DEF Word, WordTokens
<1>4. found \in Seq(WordTokens) /\ Len(found) = n
  BY <1>2, <1>3
<1> QED  BY <1>1, <1>2, <1>4

LEMMA RequiredIs ==
  ASSUME NEW S \in Seq(Tokens), NEW m \in Nat, m = Len(S),
         NEW keywords \in Seq(Words), keywords # <<>>, NEW found, found = Required(keywords),
         NEW T, T = addRequiredWords(S, keywords)
  PROVE  WithRequired(T, S, m, AnyOrAll, found)
<1>1. PICK n \in Nat : n = Len(keywords)
  OBVIOUS
<1>2. n # 0
  BY <1>1
<1>3. found \in Seq(WordTokens) /\ Len(found) = n /\ found # <<>>
  BY <1>1, <1>2, AllRequired
<1>4. PICK op \in {"&", "|"} : op = AnyOrAll
  BY DEF AnyOrAll
<1>5. Token("(") \in Tokens /\ Token(")") \in Tokens /\ Token("&") \in Tokens
  BY DEF Token, Tokens, Operators
<1>6. PICK y, b, r : y = Bracketed(S) /\ b = Block(op, found) /\ r = <<Token("&")>>
  OBVIOUS
<1>7. T = (y \o r) \o b
  BY <1>3, <1>4, <1>6 DEF addRequiredWords, Required, AnyOrAll, Block
<1>8. y \in Seq(Tokens) /\ Encloses(y, S, m)
  BY <1>5, <1>6, BracketedIs
<1>9. b \in Seq(Tokens)
  <2>1. Len(found) >= 1
    BY <1>2, <1>3
  <2> QED  BY <1>3, <1>6, <2>1, BlockIsText
<1>10. r \in Seq(Tokens) /\ Len(r) = 1 /\ r[1] = Token("&")
  BY <1>5, <1>6
<1>11. PICK z : z = y \o r
  OBVIOUS
<1>12. z \in Seq(Tokens) /\ Follows(z, y, r)
  BY <1>8, <1>10, <1>11, ConcatFollows
<1>13. T \in Seq(Tokens) /\ Follows(T, z, b)
  BY <1>7, <1>9, <1>11, <1>12, ConcatFollows
<1>14. Len(y) = m + 2 /\ Len(z) = m + 3
  BY <1>8, <1>10, <1>12 DEF Encloses, Follows
<1>15. \A k \in 1 .. m + 2 : T[k] = y[k]
  <2>1. \A k \in 1 .. m + 2 : z[k] = y[k]
    BY <1>12, <1>14 DEF Follows
  <2>2. \A k \in 1 .. m + 2 : k \in 1 .. m + 3
    OBVIOUS
  <2>3. \A k \in 1 .. m + 3 : T[k] = z[k]
    BY <1>13, <1>14 DEF Follows
  <2> QED  BY <2>1, <2>2, <2>3
<1>16. T[1].type = "(" /\ T[m + 2].type = ")"
  <2>1. 1 \in 1 .. m + 2 /\ m + 2 \in 1 .. m + 2
    OBVIOUS
  <2>2. T[1] = Token("(") /\ T[m + 2] = Token(")")
    BY <1>8, <1>15, <2>1 DEF Encloses
  <2> QED  BY <2>2 DEF Token
<1>17. LaidAt(T, S, 1, m + 1)
  <2>1. Len(T) \in Nat /\ Len(T) >= m + 3
    <3>1. Len(b) \in Nat /\ Len(T) = m + 3 + Len(b)
      BY <1>9, <1>13, <1>14 DEF Follows
    <3> QED  BY <3>1
  <2>2. ASSUME NEW j \in 1 .. m PROVE T[1 + j] = S[j]
    <3>1. 1 + j \in 1 .. m + 2 /\ 1 + j = j + 1
      OBVIOUS
    <3>2. T[1 + j] = y[j + 1]
      BY <1>15, <3>1
    <3> QED  BY <1>8, <3>2 DEF Encloses
  <2>3. m + 1 = 1 + Len(S) /\ m + 1 <= Len(T) /\ Len(S) \in Nat /\ 1 \in Nat
    BY <2>1
  <2>4. \A j \in 1 .. Len(S) : T[1 + j] = S[j]
    BY <2>2
  <2> QED  BY <2>3, <2>4 DEF LaidAt
<1>18. T[m + 3].type = "&"
  <2>1. 1 \in 1 .. Len(r) /\ m + 2 + 1 = m + 3 /\ m + 3 \in 1 .. m + 3
    BY <1>10
  <2>2. z[m + 3] = r[1]
    BY <1>12, <1>14, <2>1 DEF Follows
  <2>3. T[m + 3] = z[m + 3]
    BY <1>13, <1>14, <2>1 DEF Follows
  <2> QED  BY <1>10, <2>2, <2>3 DEF Token
<1>19. LaidAt(T, b, m + 3, Len(T))
  <2>1. Len(b) \in Nat /\ Len(T) = m + 3 + Len(b) /\ \A j \in 1 .. Len(b) : T[m + 3 + j] = b[j]
    BY <1>9, <1>13, <1>14 DEF Follows
  <2>2. m + 3 \in Nat /\ Len(T) <= Len(T)
    BY <2>1
  <2> QED  BY <2>1, <2>2 DEF LaidAt
<1> QED  BY <1>4, <1>6, <1>16, <1>17, <1>18, <1>19 DEF WithRequired

LEMMA RequiredMeans ==
  ASSUME NEW T, Len(T) \in Nat, NEW leaf, NEW M, Means(T, leaf, M), WordsFound(T, leaf),
         NEW op \in {"&", "|"}, NEW found \in Seq(WordTokens), NEW n \in Nat, n = Len(found), n >= 1,
         NEW S, NEW m \in Nat, WithRequired(T, S, m, op, found), NEW e, e = m + 1,
         NEW v, MeansThere(T, M, 1, e, v)
  PROVE  M[<<1, Len(T)>>] = Joined("&", v, BlockMeaning(op, found, n))
<1>1. /\ T[1].type = "(" /\ T[m + 2].type = ")" /\ T[m + 3].type = "&"
      /\ LaidAt(T, Block(op, found), m + 3, Len(T))
  BY DEF WithRequired
<1>2. Depth(T, 0) = 0 /\ ~InPhrase(T, 0) /\ 0 \in Nat /\ 0 + 1 = 1
  BY DepthStep, InPhraseStep
<1>3. Depth(T, 1) = 1 /\ ~InPhrase(T, 1)
  <2>1. T[0 + 1].type = "("
    BY <1>1, <1>2
  <2>2. ~InPhrase(T, 0 + 1) /\ Depth(T, 0 + 1) = Depth(T, 0) + 1
    BY <1>2, <2>1, NextWord
  <2> QED  BY <1>2, <2>2
<1>4. /\ 1 < e /\ ~InPhrase(T, e) /\ Depth(T, e) = 1
      /\ \A k \in 1 .. e : Depth(T, k) >= 1
      /\ M[<<1 + 1, e>>] = v
  BY <1>3 DEF MeansThere
<1>5. PICK h \in Nat : h = m + 2 /\ h = e + 1 /\ h - 1 = e /\ e \in Nat
  OBVIOUS
<1>6. PICK p \in Nat : p = m + 3 /\ p = h + 1 /\ p - 1 = h
  BY <1>5
<1>7. ~InPhrase(T, h) /\ Depth(T, h) = 0
  <2>1. T[e + 1].type = ")"
    BY <1>1, <1>5
  <2>2. ~InPhrase(T, e + 1) /\ Depth(T, e + 1) = Depth(T, e) - 1
    BY <1>4, <1>5, <2>1, NextWord
  <2> QED  BY <1>4, <1>5, <2>2
<1>8. ~InPhrase(T, p) /\ Depth(T, p) = 0
  <2>1. T[h + 1].type = "&"
    BY <1>1, <1>6
  <2>2. ~InPhrase(T, h + 1) /\ Depth(T, h + 1) = Depth(T, h)
    BY <1>7, <2>1, NextWord
  <2> QED  BY <1>6, <1>7, <2>2
<1>9. PICK y, b : y = Len(T) /\ b = BlockMeaning(op, found, n)
  OBVIOUS
<1>10. Operand(T, M, p, y, b)
  <2>1. LaidAt(T, Block(op, found), p, y)
    BY <1>1, <1>6, <1>9
  <2> QED  BY <1>8, <1>9, <2>1, BlockOperand
<1>11. y \in p + 1 .. Len(T) /\ At(T, p + 1, y, Operators, 0) = {} /\ M[<<p + 1, y>>] = b
  BY <1>8, <1>10 DEF Operand
<1>12. /\ 1 \in 1 .. Len(T) /\ y \in 1 .. Len(T) /\ p \in 1 .. y /\ h \in 1 .. Len(T)
       /\ p \in Nat /\ 1 - 1 = 0
  <2>1. y \in Nat /\ p < y
    BY <1>9, <1>11
  <2> QED  BY <1>6, <1>9, <2>1
<1>13. At(T, 1, h, Operators, 0) = {}
  <2>1. ASSUME NEW k \in At(T, 1, h, Operators, 0) PROVE FALSE
    <3>1. k \in 1 .. h /\ T[k].type \in Operators /\ Depth(T, k) = 0
      BY DEF At
    <3>2. k \in 1 .. e \/ k = h
      BY <1>5, <3>1
    <3>3. k # h
      BY <1>1, <1>5, <3>1 DEF Operators
    <3> QED  BY <1>4, <3>1, <3>2, <3>3
  <2> QED  BY <2>1
<1>14. M[<<1, h>>] = v
  <2>1. h - 1 = e /\ 1 + 1 = 2 /\ h \in 1 .. Len(T)
    BY <1>5, <1>12
  <2>2. M[<<1, h>>] = M[<<1 + 1, h - 1>>]
    BY <1>1, <1>2, <1>12, <1>13, IsBracket
  <2> QED  BY <1>4, <2>1, <2>2
<1>15. p \in At(T, 1, y, {"&", "!"}, 0)
  BY <1>1, <1>6, <1>8, <1>12 DEF At
<1>16. At(T, 1, y, {"|"}, 0) = {}
  <2>1. ASSUME NEW k \in At(T, 1, y, {"|"}, 0) PROVE FALSE
    <3>1. k \in 1 .. y /\ T[k].type = "|" /\ ~InPhrase(T, k) /\ Depth(T, k) = 0
      BY DEF At
    <3>2. k \in 1 .. h \/ k = p \/ k \in p + 1 .. y
      BY <1>6, <1>12, <3>1
    <3>3. k \notin 1 .. h
      BY <1>13, <3>1 DEF At, Operators
    <3>4. k # p
      BY <1>1, <1>6, <3>1
    <3>5. k \notin p + 1 .. y
      BY <1>11, <3>1 DEF At, Operators
    <3> QED  BY <3>2, <3>3, <3>4, <3>5
  <2> QED  BY <2>1
<1>17. M[<<1, y>>] = Joined(T[p].type, M[<<1, p - 1>>], M[<<p + 1, y>>])
  BY <1>2, <1>11, <1>12, <1>15, <1>16, SplitsAtTerm, SMTT(60)
<1>18. T[p].type = "&" /\ M[<<1, p - 1>>] = v
  BY <1>1, <1>6, <1>14
<1> QED  BY <1>9, <1>11, <1>17, <1>18

(* The documents with the keywords. *)
LEMMA KeywordFound ==
  ASSUME TypeOK, NEW w
  PROVE  FoundWith(Word(w, AllFields)) = {DocID(k) : k \in Occurrences(w)}
<1>1. Word(w, AllFields).word = w /\ Word(w, AllFields).fields = AllFields
  BY DEF Word
<1>2. {o \in Occurrences(w) : Flags(o) \in AllFields} = Occurrences(w)
  BY FoundHere
<1> QED  BY <1>1, <1>2 DEF FoundWith

LEMMA KeywordsFound ==
  ASSUME TypeOK, NEW keywords \in Seq(Words), NEW n \in Nat, n = Len(keywords), n >= 1,
         NEW found, found = Required(keywords)
  PROVE  BlockMeaning(AnyOrAll, found, n) = ResultList(KeywordsMeaning(keywords))
<1>1. \A i \in 1 .. n : found[i] = Word(keywords[i], AllFields)
  BY AllRequired
<1>2. \A i \in 1 .. n : FoundWith(found[i]) = {DocID(k) : k \in Occurrences(keywords[i])}
  BY <1>1, KeywordFound
<1>3. DOMAIN keywords = 1 .. n /\ 1 \in 1 .. n
  OBVIOUS
<1> DEFINE has(d) == {i \in DOMAIN keywords : \E k \in Occurrences(keywords[i]) : DocID(k) = d}
<1>4. \A d : \A i \in 1 .. n : i \in has(d) <=> d \in FoundWith(found[i])
  BY <1>2, <1>3
<1>5. \A d : has(d) \subseteq 1 .. n
  BY <1>3
<1>6. \A i \in 1 .. n : FoundWith(found[i]) \subseteq {DocID(k) : k \in index \ StatRecords}
  <2>1. \A w : Occurrences(w) \subseteq index \ StatRecords
    BY DEF Occurrences
  <2>2. ASSUME NEW i \in 1 .. n PROVE FoundWith(found[i]) \subseteq {DocID(k) : k \in index \ StatRecords}
    <3>1. PICK w : w = keywords[i] /\ FoundWith(found[i]) = {DocID(k) : k \in Occurrences(w)}
      BY <1>2
    <3> QED  BY <2>1, <3>1
  <2> QED  BY <2>2
<1>7. KeywordsMeaning(keywords) =
        {d \in Recorded \union {DocID(k) : k \in index \ StatRecords} :
           IF any_keywords THEN has(d) # {} ELSE has(d) = 1 .. n}
  BY <1>3 DEF KeywordsMeaning
<1> HIDE DEF has
<1>8. CASE any_keywords
  <2>1. AnyOf(found, n) = KeywordsMeaning(keywords)
    <3>1. ASSUME NEW d PROVE d \in AnyOf(found, n) <=> \E i \in 1 .. n : d \in FoundWith(found[i])
      BY DEF AnyOf
    <3>2. ASSUME NEW d PROVE has(d) # {} <=> \E i \in 1 .. n : d \in FoundWith(found[i])
      BY <1>4, <1>5
    <3> QED  BY <1>6, <1>7, <1>8, <3>1, <3>2
  <2> QED  BY <1>8, <2>1 DEF BlockMeaning, AnyOrAll
<1>9. CASE ~any_keywords
  <2>1. AllOf(found, n) = KeywordsMeaning(keywords)
    <3>1. ASSUME NEW d PROVE d \in AllOf(found, n) <=> \A i \in 1 .. n : d \in FoundWith(found[i])
      BY <1>3 DEF AllOf
    <3>2. ASSUME NEW d PROVE has(d) = 1 .. n <=> \A i \in 1 .. n : d \in FoundWith(found[i])
      BY <1>4, <1>5
    <3>3. ASSUME NEW d, \A i \in 1 .. n : d \in FoundWith(found[i])
          PROVE  d \in {DocID(k) : k \in index \ StatRecords}
      BY <1>3, <1>6, <3>3
    <3> QED  BY <1>7, <1>9, <3>1, <3>2, <3>3
  <2> QED  BY <1>9, <2>1 DEF BlockMeaning, AnyOrAll
<1> QED  BY <1>8, <1>9

(* The text means what was asked for. *)
Answer(q) ==
  IF q.keywords = <<>> THEN QueryMeaning(q).of
  ELSE IF QueryMeaning(q) = Ignored THEN KeywordsMeaning(q.keywords)
  ELSE QueryMeaning(q).of \intersect KeywordsMeaning(q.keywords)

LEMMA ReadLeafFinds ==
  ASSUME NEW T, Len(T) \in Nat, DOMAIN T = 1 .. Len(T)
  PROVE  WordsFound(T, ReadLeaf(T))
<1>1. ASSUME NEW k \in 1 .. Len(T), T[k].type = "word" PROVE ReadLeaf(T)[k] = ResultList(FoundWith(T[k]))
  <2>1. k \in DOMAIN T /\ T[k].type # "quote"
    BY <1>1
  <2> QED  BY <1>1, <2>1 DEF ReadLeaf
<1> QED  BY <1>1 DEF WordsFound

LEMMA TextMeansAsked ==
  ASSUME Fuzzy \in [Words -> Seq(Words)], TypeOK, NEW q, Askable(q), q.keywords \in Seq(Words),
         NEW T, T = addRequiredWords(setupWords(q), q.keywords), Readable(T)
  PROVE  Meaning(T, ReadLeaf(T))[<<1, Len(T)>>].of = Answer(q)
<1>1. PICK M : M = Meaning(T, ReadLeaf(T))
  OBVIOUS
<1>2. Len(T) \in Nat /\ DOMAIN T = 1 .. Len(T) /\ Means(T, ReadLeaf(T), M)
  BY <1>1, ReadableFacts
<1>3. PICK S : S = setupWords(q) /\ S \in Seq(Tokens)
  BY SetupIsText
<1>4. PICK m \in Nat : m = Len(S)
  BY <1>3
<1>5. PICK keywords : keywords = q.keywords /\ keywords \in Seq(Words)
  OBVIOUS
<1>6. CASE keywords = <<>>
  <2>1. T = S
    <3>1. 0 = Len(keywords)
      BY <1>6
    <3>2. Required(keywords) = <<>>
      BY <1>5, <3>1, AllRequired
    <3> QED  BY <1>3, <1>5, <3>2 DEF addRequiredWords, Required
  <2>2. LaidAt(T, S, 0, m)
    BY <1>2, <1>4, <2>1 DEF LaidAt
  <2>3. ~InPhrase(T, 0)
    BY InPhraseStep
  <2>4. MeansThere(T, M, 0, m, QueryMeaning(q))
    BY <1>2, <1>3, <2>2, <2>3, AskedMeans
  <2>5. M[<<1, Len(T)>>] = QueryMeaning(q)
    <3>1. 0 + 1 = 1
      OBVIOUS
    <3> QED  BY <1>4, <2>1, <2>4, <3>1 DEF MeansThere
  <2> QED  BY <1>1, <1>5, <1>6, <2>5 DEF Answer
<1>7. CASE keywords # <<>>
  <2>1. PICK n \in Nat : n = Len(keywords) /\ n >= 1
    BY <1>5, <1>7
  <2>2. PICK found : found = Required(keywords) /\ found \in Seq(WordTokens) /\ n = Len(found)
    BY <1>5, <2>1, AllRequired
  <2>3. PICK op \in {"&", "|"} : op = AnyOrAll
    BY DEF AnyOrAll
  <2>4. WithRequired(T, S, m, op, found)
    BY <1>3, <1>4, <1>5, <1>7, <2>2, <2>3, RequiredIs
  <2>5. PICK e : e = m + 1 /\ LaidAt(T, S, 1, e)
    BY <2>4 DEF WithRequired
  <2>6. ~InPhrase(T, 1)
    <3>1. ~InPhrase(T, 0) /\ T[0 + 1].type = "(" /\ 0 + 1 = 1 /\ 0 \in Nat
      BY <2>4, InPhraseStep DEF WithRequired
    <3>2. ~InPhrase(T, 0 + 1)
      BY <3>1, NextWord
    <3> QED  BY <3>1, <3>2
  <2>7. PICK v : v = QueryMeaning(q)
    OBVIOUS
  <2>8. MeansThere(T, M, 1, e, v)
    BY <1>2, <1>3, <2>5, <2>6, <2>7, AskedMeans
  <2>9. M[<<1, Len(T)>>] = Joined("&", v, BlockMeaning(op, found, n))
    <3>1. WordsFound(T, ReadLeaf(T))
      BY <1>2, ReadLeafFinds
    <3> QED  BY <1>2, <2>1, <2>2, <2>4, <2>5, <2>8, <3>1, RequiredMeans
  <2>10. BlockMeaning(op, found, n) = ResultList(KeywordsMeaning(keywords))
    BY <1>5, <2>1, <2>2, <2>3, KeywordsFound
  <2>11. PICK K : K = KeywordsMeaning(keywords)
    OBVIOUS
  <2>12. M[<<1, Len(T)>>] = Joined("&", v, ResultList(K))
    BY <2>9, <2>10, <2>11
  <2>13. Joined("&", v, ResultList(K)).of = IF v = Ignored THEN K ELSE v.of \intersect K
    BY ListIsNotIgnored DEF Joined
  <2> QED  BY <1>1, <1>5, <1>7, <2>7, <2>11, <2>12, <2>13 DEF Answer
<1> QED  BY <1>6, <1>7

LEMMA AnswerFollows ==
  ASSUME WellAsked, TypeOK, StackInv, ReadInv
  PROVE  AnswerIsMeaning
<1> SUFFICES ASSUME step = "parsed" PROVE AnswerIsMeaning
  BY DEF AnswerIsMeaning
<1>1. query \in DOMAIN Queries /\ ignoredWords = 0 /\ matches = TextMeaning[<<1, Len(Text)>>].of \intersect Normal
  BY DEF ReadInv
<1>2. stack = <<>>
  <2>1. Len(stack) = 0 /\ stack \in Seq(Operands)
    BY PendingNone DEF StackInv
  <2> QED  BY <2>1
<1>3. PICK q : q = Queries[query]
  OBVIOUS
<1>4. PICK T : T = Text /\ T = addRequiredWords(setupWords(q), q.keywords)
  BY <1>3 DEF Text
<1>5. Askable(q) /\ q.keywords \in Seq(Words) /\ Readable(T) /\ Fuzzy \in [Words -> Seq(Words)]
  BY <1>1, <1>3, <1>4 DEF WellAsked, Askable
<1>6. Meaning(T, ReadLeaf(T))[<<1, Len(T)>>].of = Answer(q)
  BY <1>4, <1>5, TextMeansAsked
<1>7. matches = Answer(q) \intersect Normal
  BY <1>1, <1>4, <1>6 DEF TextMeaning
<1> QED  BY <1>1, <1>2, <1>3, <1>7 DEF AnswerIsMeaning, Answer

(* Whatever the parser takes, as long as no alternative in brackets is      *)
(* ignored, no phrase goes on with ignored words behind its last other word *)
(* and a word without substitutes is asked for in any field: the documents  *)
(* found are those the query means.  Reading from left to right with one    *)
(* stack, a call of its own for each bracket and a counter for the words a  *)
(* phrase passes over (parser.cc:123-286, 431-550, 663-973) splits a text   *)
(* where its meaning does, and what setupWords, convertToBoolean, doFuzzy   *)
(* and addRequiredWords put in (hlsearch.cc:548-942) changes no meaning.    *)
THEOREM AnswersAreMeanings == WellAsked => (SearchSpec => []AnswerIsMeaning)
<1> SUFFICES ASSUME WellAsked PROVE SearchSpec => []AnswerIsMeaning
  OBVIOUS
<1>1. TypeOK /\ StackInv /\ ReadInv => AnswerIsMeaning
  BY AnswerFollows
<1>2. AllReadable
  BY DEF WellAsked, AllReadable
<1>3. SearchSpec => []ReadInv
  BY <1>2, ReadHolds
<1>4. SearchSpec => []TypeOK
  BY SearchesAreWalks, TypeCorrect, PTL
<1>5. SearchSpec => []StackInv
  BY StackHolds
<1> QED  BY <1>1, <1>3, <1>4, <1>5, PTL
================================================================================
