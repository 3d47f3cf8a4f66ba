---------------------------- MODULE HtHeapProofs ----------------------------
(****************************************************************************)
(* The heap behind the queue of a server implements the bag that module     *)
(* URLQueue describes, for any URLs and hop counts and whatever its size,   *)
(* and is ordered until something is removed from it.                       *)
(****************************************************************************)
EXTENDS HtHeap, FunctionTheorems, FiniteSetTheorems, SequenceTheorems, WellFoundedInduction, TLAPS

(* A non-empty set of numbers has a least member.                           *)
LEMMA LeastMember ==
  ASSUME NEW S \in SUBSET Nat, S # {}
  PROVE  \E i \in S : \A j \in S : i <= j
<1> DEFINE R == {ss \in Nat \X Nat : ss[1] < ss[2]}
<1>1. IsWellFoundedOn(R, Nat)
  BY NatLessThanWellFounded DEF OpToRel
<1>2. \E i \in S : \A j \in S : ~(<<j, i>> \in R)
  <2> HIDE DEF R
  <2> QED
    BY <1>1, WFMin, Zenon
<1>3. PICK i \in S : \A j \in S : ~(<<j, i>> \in R)
  BY <1>2
<1>4. ASSUME NEW j \in S PROVE i <= j
  <2>1. <<j, i>> \notin R
    BY <1>3
  <2>2. j \in Nat /\ i \in Nat
    OBVIOUS
  <2> QED
    BY <2>1, <2>2
<1> QED
  BY <1>4

----------------------------------------------------------------------------
(* Moving one element through a vector: percolateUp and pushDownRoot        *)

(* A move goes from x to next[x], where a measure is smaller, until stop;   *)
(* the element there comes to x, and the one that moves ends at stop.       *)
Moves(f, S, stop, next, v, value) ==
  f = [x \in S |-> IF x \in stop THEN Assign(v, x, value) ELSE Assign(f[next[x]], x, v[next[x]])]

Downhill(S, m, stop, next) ==
  /\ m \in [S -> Nat]
  /\ \A x \in S \ stop : next[x] \in S /\ m[next[x]] < m[x]

(* The recursive functions of the two operators exist. *)
LEMMA MovesExist ==
  ASSUME NEW S, NEW n \in Nat, NEW m, NEW stop, NEW next, Downhill(S, m, stop, next),
         \A x \in S : m[x] < n,
         NEW v, NEW value
  PROVE  \E f : Moves(f, S, stop, next, v, value)
<1> DEFINE Low(k) == {x \in S : m[x] < k}
           Bad == {k \in Nat : ~\E f : Moves(f, Low(k), stop, next, v, value)}
<1>1. SUFFICES Bad = {}
  <2>1. Low(n) = S
    OBVIOUS
  <2> QED
    BY <2>1
<1>2. SUFFICES ASSUME Bad # {} PROVE FALSE
  OBVIOUS
<1>3. PICK k \in Bad : \A j \in Bad : k <= j
  <2>1. Bad \in SUBSET Nat
    OBVIOUS
  <2> HIDE DEF Bad
  <2> QED
    BY <1>2, <2>1, LeastMember
<1>4. k \in Nat
  OBVIOUS
<1>5. CASE k = 0
  <2>1. Low(k) = {}
    BY <1>5 DEF Downhill
  <2>2. Moves([x \in {} |-> v], {}, stop, next, v, value)
    BY DEF Moves
  <2> QED
    BY <2>1, <2>2
<1>6. CASE k > 0
  <2>1. k - 1 \in Nat /\ ~(k <= k - 1)
    BY <1>4, <1>6
  <2>2. PICK h : Moves(h, Low(k - 1), stop, next, v, value)
    BY <1>3, <2>1
  <2> DEFINE Value(x, w) == IF x \in stop THEN Assign(v, x, value) ELSE Assign(w, x, v[next[x]])
             f == [x \in Low(k) |-> Value(x, h[next[x]])]
  <2>3. h = [x \in Low(k - 1) |-> Value(x, h[next[x]])]
    BY <2>2 DEF Moves
  <2>4. \A x \in Low(k - 1) : x \in Low(k) /\ h[x] = Value(x, h[next[x]])
    <3>1. \A x \in Low(k - 1) : x \in Low(k)
      BY <1>4 DEF Downhill
    <3> HIDE DEF Low, Value
    <3> QED
      BY <2>3, <3>1
  <2>5. \A x \in Low(k) : x \notin stop => next[x] \in Low(k - 1)
    BY <1>4 DEF Downhill
  <2>6. \A x \in Low(k) : x \notin stop => f[next[x]] = h[next[x]]
    <3> HIDE DEF Low, Value
    <3> QED
      BY <2>4, <2>5
  <2>7. \A x \in Low(k) : Value(x, f[next[x]]) = Value(x, h[next[x]])
    BY <2>6
  <2>8. f = [x \in Low(k) |-> Value(x, f[next[x]])]
    <3> HIDE DEF Low, Value
    <3> QED
      BY <2>7
  <2>9. Moves(f, Low(k), stop, next, v, value)
    BY <2>8 DEF Moves
  <2> QED
    BY <2>9
<1> QED
  BY <1>4, <1>5, <1>6

LEMMA AssignFacts ==
  \A v \in Seq(Items) : \A i \in 1 .. Len(v) : \A item \in Items :
    /\ Assign(v, i, item) \in Seq(Items) /\ Len(Assign(v, i, item)) = Len(v)
    /\ \A k \in 1 .. Len(v) : Assign(v, i, item)[k] = IF k = i THEN item ELSE v[k]
BY ExceptSeq DEF Assign

(* Vector s has the items of t, and the same at all positions in Fixed. *)
Shuffles(p, n) ==
  /\ p \in [1 .. n -> 1 .. n]
  /\ \A i, j \in 1 .. n : p[i] = p[j] => i = j
  /\ \A j \in 1 .. n : \E i \in 1 .. n : p[i] = j

Permuted(s, t, Fixed) ==
  /\ s \in Seq(Items) /\ Len(s) = Len(t)
  /\ \E p : /\ Shuffles(p, Len(t))
            /\ \A k \in 1 .. Len(t) : s[k] = t[p[k]]
            /\ \A k \in Fixed : p[k] = k

(* What a move leaves alone that comes by x. *)
Behind(v, S, m, x) == {k \in 1 .. Len(v) : k \in S => m[k] > m[x]}

(* One step of a move, after the rest of it. *)
LEMMA StepPermutes ==
  ASSUME NEW v \in Seq(Items), NEW i \in 1 .. Len(v), NEW p \in 1 .. Len(v), i # p,
         NEW value \in Items, NEW w, NEW Fixed \in SUBSET (1 .. Len(v)), i \in Fixed, p \notin Fixed,
         Permuted(w, Assign(v, p, value), Fixed)
  PROVE  Permuted(Assign(w, i, v[p]), Assign(v, i, value), Fixed \ {i})
<1> DEFINE n == Len(v)
           a == Assign(v, p, value)
           b == Assign(v, i, value)
           r == Assign(w, i, v[p])
<1>1. /\ n \in Nat /\ v[p] \in Items
      /\ a \in Seq(Items) /\ Len(a) = n /\ \A k \in 1 .. n : a[k] = IF k = p THEN value ELSE v[k]
      /\ b \in Seq(Items) /\ Len(b) = n /\ \A k \in 1 .. n : b[k] = IF k = i THEN value ELSE v[k]
  <2>1. n \in Nat /\ v[p] \in Items
    BY LenProperties, ElementOfSeq
  <2>2. a \in Seq(Items) /\ Len(a) = n /\ \A k \in 1 .. n : a[k] = IF k = p THEN value ELSE v[k]
    BY AssignFacts
  <2>3. b \in Seq(Items) /\ Len(b) = n /\ \A k \in 1 .. n : b[k] = IF k = i THEN value ELSE v[k]
    BY AssignFacts
  <2> HIDE DEF n, a, b
  <2> QED
    BY <2>1, <2>2, <2>3
<1>2. /\ w \in Seq(Items) /\ Len(w) = n
      /\ r \in Seq(Items) /\ Len(r) = n /\ \A k \in 1 .. n : r[k] = IF k = i THEN v[p] ELSE w[k]
  <2>1. w \in Seq(Items) /\ Len(w) = n
    BY <1>1 DEF Permuted
  <2>2. w \in Seq(Items) /\ i \in 1 .. Len(w) /\ v[p] \in Items
    BY <1>1, <2>1
  <2>3. ASSUME NEW item \in Items
        PROVE  /\ Assign(w, i, item) \in Seq(Items) /\ Len(Assign(w, i, item)) = Len(w)
               /\ \A k \in 1 .. Len(w) : Assign(w, i, item)[k] = IF k = i THEN item ELSE w[k]
    BY <2>2, AssignFacts
  <2> QED
    BY <2>1, <2>2, <2>3
<1>3. PICK q : /\ Shuffles(q, n)
               /\ \A k \in 1 .. n : w[k] = a[q[k]]
               /\ \A k \in Fixed : q[k] = k
  <2> HIDE DEF a
  <2> QED
    BY <1>1 DEF Permuted, a
<1> HIDE DEF a, b, r
<1> DEFINE turned == [k \in 1 .. n |-> IF q[k] = p THEN i ELSE IF q[k] = i THEN p ELSE q[k]]
<1>4. \A k \in 1 .. n : q[k] \in 1 .. n
  BY <1>3 DEF Shuffles
<1>5. Shuffles(turned, n)
  <2>1. turned \in [1 .. n -> 1 .. n]
    BY <1>4
  <2>2. \A k, j \in 1 .. n : turned[k] = turned[j] => q[k] = q[j]
    OBVIOUS
  <2>3. ASSUME NEW j \in 1 .. n PROVE \E k \in 1 .. n : turned[k] = j
    <3>1. PICK k \in 1 .. n : q[k] = IF j = i THEN p ELSE IF j = p THEN i ELSE j
      BY <1>3 DEF Shuffles
    <3> QED
      BY <3>1
  <2>4. \A k, j \in 1 .. n : q[k] = q[j] => k = j
    BY <1>3 DEF Shuffles
  <2> HIDE DEF turned
  <2>5. \A k, j \in 1 .. n : turned[k] = turned[j] => k = j
    BY <2>2, <2>4
  <2> QED
    BY <2>1, <2>3, <2>5 DEF Shuffles
<1>6. ASSUME NEW k \in 1 .. n PROVE r[k] = b[turned[k]]
  <2>1. q[i] = i /\ (q[k] = i => k = i)
    BY <1>3 DEF Shuffles
  <2>2. CASE k = i
    BY <1>1, <1>2, <2>1, <2>2
  <2>3. CASE k # i /\ q[k] = p
    BY <1>1, <1>2, <1>3, <1>4, <2>1, <2>3
  <2>4. CASE k # i /\ q[k] # p
    BY <1>1, <1>2, <1>3, <1>4, <2>1, <2>4
  <2> QED
    BY <2>2, <2>3, <2>4
<1>7. \A k \in Fixed \ {i} : turned[k] = k
  BY <1>3
<1> HIDE DEF turned
<1> QED
  BY <1>1, <1>2, <1>5, <1>6, <1>7 DEF Permuted, r, b

(* A move changes the order of the elements, and nothing else. *)
LEMMA MovesPermute ==
  ASSUME NEW v \in Seq(Items), NEW value \in Items, NEW S \in SUBSET (1 .. Len(v)),
         NEW m, NEW stop, NEW next, Downhill(S, m, stop, next),
         NEW f, Moves(f, S, stop, next, v, value),
         NEW x \in S
  PROVE  Permuted(f[x], Assign(v, x, value), Behind(v, S, m, x))
<1> DEFINE Good(y) == Permuted(f[y], Assign(v, y, value), Behind(v, S, m, y))
           Bad == {k \in Nat : \E y \in S : m[y] = k /\ ~Good(y)}
<1>1. SUFFICES Bad = {}
  BY DEF Downhill
<1>2. SUFFICES ASSUME Bad # {} PROVE FALSE
  OBVIOUS
<1>3. PICK k \in Bad : \A j \in Bad : k <= j
  <2>1. Bad \in SUBSET Nat
    OBVIOUS
  <2> HIDE DEF Bad
  <2> QED
    BY <1>2, <2>1, LeastMember
<1>4. PICK y \in S : m[y] = k /\ ~Good(y)
  OBVIOUS
<1>5. f[y] = IF y \in stop THEN Assign(v, y, value) ELSE Assign(f[next[y]], y, v[next[y]])
  BY DEF Moves
<1>6. ASSUME y \in stop PROVE Good(y)
  <2> DEFINE b == Assign(v, y, value)
             id == [j \in 1 .. Len(v) |-> j]
  <2>1. f[y] = b /\ b \in Seq(Items) /\ Len(b) = Len(v)
    BY <1>5, <1>6, AssignFacts
  <2>2. Shuffles(id, Len(v)) /\ \A j \in 1 .. Len(v) : b[j] = b[id[j]]
    BY DEF Shuffles
  <2>3. \A j \in Behind(v, S, m, y) : id[j] = j
    BY DEF Behind
  <2> HIDE DEF b, id
  <2>4. Permuted(b, b, Behind(v, S, m, y))
    BY <2>1, <2>2, <2>3 DEF Permuted
  <2> QED
    BY <2>1, <2>4 DEF b
<1>7. ASSUME y \notin stop PROVE Good(y)
  <2>1. next[y] \in S /\ m[next[y]] \in Nat /\ m[y] \in Nat /\ m[next[y]] < m[y]
    BY <1>7 DEF Downhill
  <2>2. Good(next[y])
    <3>1. m[next[y]] \notin Bad
      BY <1>3, <1>4, <2>1
    <3> QED
      BY <2>1, <3>1
  <2>3. /\ y \in Behind(v, S, m, next[y]) /\ next[y] \notin Behind(v, S, m, next[y])
        /\ Behind(v, S, m, next[y]) \in SUBSET (1 .. Len(v)) /\ y # next[y]
    BY <2>1 DEF Behind
  <2>4. Permuted(f[y], Assign(v, y, value), Behind(v, S, m, next[y]) \ {y})
    <3> DEFINE z == next[y]
               w == f[z]
               Fixed == Behind(v, S, m, z)
    <3>1. y \in 1 .. Len(v) /\ z \in 1 .. Len(v) /\ y # z
      BY <2>1, <2>3
    <3>2. /\ y \in Fixed /\ z \notin Fixed
          /\ Fixed \in SUBSET (1 .. Len(v))
      BY <2>3
    <3>3. Permuted(w, Assign(v, z, value), Fixed)
      BY <2>2
    <3>4. f[y] = Assign(w, y, v[z])
      BY <1>5, <1>7
    <3> HIDE DEF z, w, Fixed
    <3>5. Permuted(Assign(w, y, v[z]), Assign(v, y, value), Fixed \ {y})
      BY <3>1, <3>2, <3>3, StepPermutes
    <3> QED
      BY <3>4, <3>5 DEF Fixed, z
  <2>5. Behind(v, S, m, y) \subseteq Behind(v, S, m, next[y]) \ {y}
    BY <2>1 DEF Behind, Downhill
  <2> HIDE DEF Good
  <2>6. Permuted(f[y], Assign(v, y, value), Behind(v, S, m, y))
    BY <2>4, <2>5 DEF Permuted
  <2> QED
    BY <2>6 DEF Good
<1> QED
  BY <1>4, <1>6, <1>7

(* How often an item waits does not depend on the order. *)
Occurs(s, x) == Cardinality({k \in 1 .. Len(s) : s[k] = x})

LEMMA PermutedCount ==
  ASSUME NEW s, NEW t \in Seq(Items), NEW Fixed, Permuted(s, t, Fixed), NEW x
  PROVE  Occurs(s, x) = Occurs(t, x)
<1> DEFINE n == Len(t)
           A == {k \in 1 .. n : s[k] = x}
           B == {k \in 1 .. n : t[k] = x}
<1>1. n \in Nat /\ Len(s) = n
  BY LenProperties DEF Permuted
<1>2. PICK p : Shuffles(p, n) /\ \A k \in 1 .. n : s[k] = t[p[k]]
  BY DEF Permuted
<1> DEFINE g == [k \in A |-> p[k]]
<1>3. g \in [A -> B]
  BY <1>2 DEF Shuffles
<1>4. \A k, j \in A : g[k] = g[j] => k = j
  <2>1. \A k, j \in 1 .. n : p[k] = p[j] => k = j
    BY <1>2 DEF Shuffles
  <2>2. \A k \in A : g[k] = p[k] /\ k \in 1 .. n
    OBVIOUS
  <2> HIDE DEF g, A, n
  <2> QED
    BY <2>1, <2>2
<1>5. ASSUME NEW j \in B PROVE \E k \in A : g[k] = j
  <2>1. j \in 1 .. n /\ t[j] = x
    OBVIOUS
  <2>2. PICK k \in 1 .. n : p[k] = j
    BY <1>2, <2>1 DEF Shuffles
  <2>3. k \in A
    BY <1>2, <2>1, <2>2
  <2> HIDE DEF A
  <2> QED
    BY <2>2, <2>3
<1>6. IsFiniteSet(A)
  <2>1. IsFiniteSet(1 .. n)
    BY <1>1, FS_Interval
  <2> QED
    BY <2>1, FS_Subset
<1> HIDE DEF g, A, B
<1>7. g \in Bijection(A, B)
  BY <1>3, <1>4, <1>5, Fun_IsBij
<1>8. ExistsBijection(A, B)
  BY <1>7 DEF ExistsBijection
<1>9. Cardinality(B) = Cardinality(A)
  BY <1>6, <1>8, FS_Bijection
<1> QED
  BY <1>1, <1>9 DEF A, B, Occurs

----------------------------------------------------------------------------
(* percolateUp *)

LEMMA ParentFacts ==
  /\ \A i \in Nat : i > 1 => parentOf(i) \in 1 .. i - 1
  /\ \A i, j \in Nat : j < i => parentOf(j) <= parentOf(i)
BY DEF parentOf

LEMMA ParentBelow ==
  ASSUME NEW leaf \in Nat, NEW i \in 1 .. leaf, NEW k \in 2 .. i
  PROVE  /\ k \in 1 .. leaf /\ parentOf(k) \in 1 .. leaf
         /\ parentOf(k) < k /\ parentOf(k) # i /\ parentOf(k) <= parentOf(i)
<1>1. k \in Nat /\ i \in Nat /\ k > 1 /\ k <= i /\ i <= leaf
  OBVIOUS
<1>2. parentOf(k) \in 1 .. k - 1
  BY <1>1, ParentFacts
<1>3. k < i \/ k = i
  BY <1>1
<1>4. parentOf(k) <= parentOf(i)
  BY <1>1, <1>2, <1>3, ParentFacts
<1> QED
  BY <1>1, <1>2, <1>4

LEMMA HopFacts == \A i \in Items : Hop[i] \in Nat
BY HtHeapAssumption

Rises(v, leaf, i) == i > 1 /\ Hop[v[leaf]] < Hop[v[parentOf(i)]]

LEMMA UpMoves ==
  ASSUME NEW v \in Seq(Items), NEW leaf \in 1 .. Len(v)
  PROVE  LET S    == 1 .. leaf
             m    == [i \in S |-> i]
             stop == {i \in S : ~Rises(v, leaf, i)}
             next == [i \in S |-> parentOf(i)]
         IN /\ Downhill(S, m, stop, next)
            /\ \E f : /\ Moves(f, S, stop, next, v, v[leaf])
                      /\ percolateUp(v, leaf) = f[leaf]
<1> DEFINE S    == 1 .. leaf
           m    == [i \in S |-> i]
           stop == {i \in S : ~Rises(v, leaf, i)}
           next == [i \in S |-> parentOf(i)]
           Up(f) == f = [i \in S |->
                          IF i > 1 /\ Hop[v[leaf]] < Hop[v[parentOf(i)]]
                          THEN Assign(f[parentOf(i)], i, v[parentOf(i)])
                          ELSE Assign(v, i, v[leaf])]
<1>0. leaf \in Nat /\ Len(v) \in Nat
  BY LenProperties
<1>1. Downhill(S, m, stop, next)
  <2>1. \A i \in S \ stop : i > 1
    BY DEF Rises
  <2>2. \A i \in S \ stop : parentOf(i) \in S /\ parentOf(i) < i
    BY <1>0, <2>1, ParentFacts
  <2> QED
    BY <2>2 DEF Downhill
<1>2. PICK f : Moves(f, S, stop, next, v, v[leaf])
  <2>1. leaf + 1 \in Nat /\ \A i \in S : m[i] < leaf + 1
    BY <1>0
  <2> HIDE DEF S, m, stop, next
  <2> QED
    BY <1>1, <2>1, MovesExist
<1>3. ASSUME NEW g PROVE Moves(g, S, stop, next, v, v[leaf]) <=> Up(g)
  <2>1. \A i \in S :
          (IF i \in stop THEN Assign(v, i, v[leaf]) ELSE Assign(g[next[i]], i, v[next[i]]))
            = IF i > 1 /\ Hop[v[leaf]] < Hop[v[parentOf(i)]]
              THEN Assign(g[parentOf(i)], i, v[parentOf(i)])
              ELSE Assign(v, i, v[leaf])
    BY DEF Rises
  <2>2. [i \in S |-> IF i \in stop THEN Assign(v, i, v[leaf]) ELSE Assign(g[next[i]], i, v[next[i]])]
          = [i \in S |-> IF i > 1 /\ Hop[v[leaf]] < Hop[v[parentOf(i)]]
                         THEN Assign(g[parentOf(i)], i, v[parentOf(i)])
                         ELSE Assign(v, i, v[leaf])]
    <3> HIDE DEF S, stop, next
    <3> QED
      BY <2>1
  <2> QED
    BY <2>2 DEF Moves
<1>4. \E g : Up(g) /\ percolateUp(v, leaf) = g[leaf]
  <2>1. Up(f)
    BY <1>2, <1>3
  <2>2. percolateUp(v, leaf) = (CHOOSE g : Up(g))[leaf]
    BY DEF percolateUp
  <2> HIDE DEF Up
  <2> QED
    BY <2>1, <2>2
<1> QED
  BY <1>1, <1>3, <1>4

Ordered(s) == \A i \in 2 .. Len(s) : Hop[s[parentOf(i)]] <= Hop[s[i]]

(* A new last element finds its place. *)
LEMMA UpOrders ==
  ASSUME NEW v \in Seq(Items), NEW leaf, leaf = Len(v), leaf > 0,
         \A i \in 2 .. leaf - 1 : Hop[v[parentOf(i)]] <= Hop[v[i]]
  PROVE  Ordered(percolateUp(v, leaf))
<1> DEFINE S    == 1 .. leaf
           stop == {i \in S : ~Rises(v, leaf, i)}
           next == [i \in S |-> parentOf(i)]
           value == v[leaf]
<1>0. leaf \in Nat /\ leaf \in 1 .. Len(v) /\ value \in Items
      /\ \A i \in S : v[i] \in Items /\ Hop[v[i]] \in Nat
  <2>1. leaf \in Nat
    BY LenProperties
  <2>2. \A i \in S : v[i] \in Items
    BY ElementOfSeq
  <2> QED
    BY <2>1, <2>2, HopFacts
<1>1. PICK f : Moves(f, S, stop, next, v, v[leaf]) /\ percolateUp(v, leaf) = f[leaf]
  BY <1>0, UpMoves
<1> DEFINE Good(i) ==
             /\ f[i] \in Seq(Items) /\ Len(f[i]) = leaf
             /\ \A k \in i + 1 .. leaf : f[i][k] = v[k]
             /\ \A k \in 2 .. i : Hop[f[i][parentOf(k)]] <= Hop[f[i][k]]
             /\ \A k \in 1 .. i : k < i \/ Hop[value] < Hop[v[i]] => Hop[f[i][k]] <= Hop[v[k]]
<1>2. ASSUME NEW i \in S, ~Rises(v, leaf, i) PROVE Good(i)
  <2> DEFINE r == Assign(v, i, value)
  <2>1. f[i] = r
    BY <1>1, <1>2 DEF Moves
  <2>2. r \in Seq(Items) /\ Len(r) = leaf /\ \A k \in S : r[k] = IF k = i THEN value ELSE v[k]
    <3>1. i \in 1 .. Len(v) /\ value \in Items
      BY <1>0
    <3> HIDE DEF value
    <3>2. /\ r \in Seq(Items) /\ Len(r) = Len(v)
          /\ \A k \in 1 .. Len(v) : r[k] = IF k = i THEN value ELSE v[k]
      BY <3>1, AssignFacts
    <3> HIDE DEF r
    <3> QED
      BY <3>2
  <2> HIDE DEF r, value
  <2>3. ASSUME NEW k \in 2 .. i PROVE Hop[r[parentOf(k)]] <= Hop[r[k]]
    <3>1. k \in S /\ parentOf(k) \in S /\ parentOf(k) < k /\ parentOf(k) # i
      BY <1>0, ParentBelow
    <3>2. CASE k = i
      <4>1. ~(Hop[value] < Hop[v[parentOf(i)]])
        BY <1>2, <3>2 DEF Rises, value
      <4>2. r[k] = value /\ r[parentOf(k)] = v[parentOf(i)]
        BY <2>2, <3>1, <3>2
      <4>3. Hop[value] \in Nat /\ Hop[v[parentOf(i)]] \in Nat
        BY <1>0, <3>1, <3>2, HopFacts
      <4> QED
        BY <4>1, <4>2, <4>3
    <3>3. CASE k # i
      <4>1. r[k] = v[k] /\ r[parentOf(k)] = v[parentOf(k)]
        BY <2>2, <3>1, <3>3
      <4>2. k \in 2 .. leaf - 1
        BY <1>0, <3>3
      <4> QED
        BY <4>1, <4>2
    <3> QED
      BY <3>2, <3>3
  <2>4. ASSUME NEW k \in 1 .. i, k < i \/ Hop[value] < Hop[v[i]] PROVE Hop[r[k]] <= Hop[v[k]]
    <3>1. k \in S /\ Hop[v[k]] \in Nat /\ Hop[value] \in Nat
      BY <1>0, HopFacts
    <3>2. CASE k = i
      BY <1>0, <2>2, <2>4, <3>1, <3>2
    <3>3. CASE k # i
      BY <2>2, <3>1, <3>3
    <3> QED
      BY <3>2, <3>3
  <2>5. \A k \in i + 1 .. leaf : r[k] = v[k]
    BY <1>0, <2>2
  <2> QED
    BY <2>1, <2>2, <2>3, <2>4, <2>5
<1>3. ASSUME NEW i \in S, Rises(v, leaf, i), Good(parentOf(i)) PROVE Good(i)
  <2> DEFINE p == parentOf(i)
             w == f[p]
             r == Assign(w, i, v[p])
  <2>0. p \in S /\ p < i /\ i > 1 /\ Hop[value] < Hop[v[p]]
    BY <1>0, <1>3, ParentFacts DEF Rises
  <2>1. f[i] = r
    BY <1>1, <1>3 DEF Moves
  <2> HIDE DEF value
  <2>2. /\ w \in Seq(Items) /\ Len(w) = leaf
        /\ \A k \in p + 1 .. leaf : w[k] = v[k]
        /\ \A k \in 2 .. p : Hop[w[parentOf(k)]] <= Hop[w[k]]
        /\ \A k \in 1 .. p : Hop[w[k]] <= Hop[v[k]]
    BY <1>3, <2>0
  <2> HIDE DEF p
  <2> HIDE DEF w
  <2>3. r \in Seq(Items) /\ Len(r) = leaf /\ \A k \in S : r[k] = IF k = i THEN v[p] ELSE w[k]
    <3>1. i \in 1 .. Len(w) /\ v[p] \in Items
      BY <1>0, <2>0, <2>2
    <3>2. /\ r \in Seq(Items) /\ Len(r) = Len(w)
          /\ \A k \in 1 .. Len(w) : r[k] = IF k = i THEN v[p] ELSE w[k]
      <4>1. ASSUME NEW item \in Items
            PROVE  /\ Assign(w, i, item) \in Seq(Items) /\ Len(Assign(w, i, item)) = Len(w)
                   /\ \A k \in 1 .. Len(w) : Assign(w, i, item)[k] = IF k = i THEN item ELSE w[k]
        BY <2>2, <3>1, AssignFacts
      <4> QED
        BY <3>1, <4>1
    <3> HIDE DEF r
    <3> QED
      BY <2>2, <3>2
  <2> HIDE DEF r
  <2>4. \A k \in S : w[k] \in Items /\ Hop[w[k]] \in Nat
    BY <2>2, ElementOfSeq, HopFacts
  <2>5. ASSUME NEW k \in 2 .. i PROVE Hop[r[parentOf(k)]] <= Hop[r[k]]
    <3>1. /\ k \in S /\ parentOf(k) \in S /\ parentOf(k) < k /\ parentOf(k) # i
          /\ parentOf(k) <= p
      BY <1>0, ParentBelow DEF p
    <3>2. r[parentOf(k)] = w[parentOf(k)]
      BY <2>3, <3>1
    <3>3. CASE k = i
      <4>1. r[k] = v[p] /\ parentOf(k) = p
        BY <2>3, <3>1, <3>3 DEF p
      <4>2. p \in 1 .. p
        BY <1>0, <2>0
      <4> QED
        BY <2>2, <3>2, <4>1, <4>2
    <3>4. CASE k <= p
      <4>1. r[k] = w[k] /\ k \in 2 .. p
        BY <1>0, <2>0, <2>3, <3>1, <3>4
      <4> QED
        BY <2>2, <3>2, <4>1
    <3>5. CASE k > p /\ k # i
      <4>1. k \in p + 1 .. leaf /\ k \in 2 .. leaf - 1 /\ parentOf(k) \in 1 .. p
        BY <1>0, <2>0, <3>1, <3>5
      <4>2. r[k] = v[k]
        BY <2>2, <2>3, <3>1, <3>5, <4>1
      <4>3. Hop[w[parentOf(k)]] <= Hop[v[parentOf(k)]] /\ Hop[v[parentOf(k)]] <= Hop[v[k]]
        BY <2>2, <4>1
      <4>4. /\ Hop[w[parentOf(k)]] \in Nat /\ Hop[v[parentOf(k)]] \in Nat /\ Hop[v[k]] \in Nat
        BY <1>0, <2>4, <3>1, HopFacts
      <4> QED
        BY <3>2, <4>2, <4>3, <4>4
    <3> QED
      BY <1>0, <2>0, <3>1, <3>3, <3>4, <3>5
  <2>6. ASSUME NEW k \in 1 .. i, k < i \/ Hop[value] < Hop[v[i]] PROVE Hop[r[k]] <= Hop[v[k]]
    <3>1. k \in S /\ Hop[v[k]] \in Nat
      BY <1>0
    <3>2. CASE k = i
      <4>1. i # leaf
        BY <1>0, <2>6, <3>1, <3>2 DEF value
      <4>2. i \in 2 .. leaf - 1
        BY <1>0, <2>0, <4>1
      <4>3. Hop[v[p]] <= Hop[v[i]]
        BY <4>2 DEF p
      <4> QED
        BY <2>3, <3>1, <3>2, <4>3
    <3>3. CASE k # i /\ k <= p
      <4>1. k \in 1 .. p
        BY <1>0, <2>0, <3>3
      <4> QED
        BY <2>2, <2>3, <3>1, <3>3, <4>1
    <3>4. CASE k # i /\ k > p
      <4>1. k \in p + 1 .. leaf
        BY <1>0, <2>0, <3>1, <3>4
      <4> QED
        BY <2>2, <2>3, <3>1, <3>4, <4>1
    <3> QED
      BY <1>0, <2>0, <3>1, <3>2, <3>3, <3>4
  <2>7. \A k \in i + 1 .. leaf : r[k] = v[k]
    <3> TAKE k \in i + 1 .. leaf
    <3>1. k \in S /\ k # i /\ k \in p + 1 .. leaf
      BY <1>0, <2>0
    <3> QED
      BY <2>2, <2>3, <3>1
  <2> QED
    BY <2>1, <2>3, <2>5, <2>6, <2>7
<1> HIDE DEF Good
<1> DEFINE Bad == {i \in S : ~Good(i)}
<1>4. Bad = {}
  <2> SUFFICES ASSUME Bad # {} PROVE FALSE
    OBVIOUS
  <2>1. PICK i \in Bad : \A j \in Bad : i <= j
    <3>1. Bad \in SUBSET Nat
      BY <1>0
    <3> HIDE DEF Bad
    <3> QED
      BY <3>1, LeastMember
  <2>2. i \in S /\ Rises(v, leaf, i)
    BY <1>2
  <2>3. parentOf(i) \in S /\ parentOf(i) < i
    BY <1>0, <2>2, ParentFacts DEF Rises
  <2>4. Good(parentOf(i))
    BY <1>0, <2>1, <2>3
  <2> QED
    BY <1>3, <2>2, <2>4
<1>5. Good(leaf)
  BY <1>0, <1>4
<1> QED
  BY <1>1, <1>5 DEF Good, Ordered

----------------------------------------------------------------------------
(* pushDownRoot *)

Sinks(v, root, i) == 2 * i < Len(v) /\ Hop[v[smallerChild(v, i)]] < Hop[v[root]]

LEMMA ChildFacts ==
  ASSUME NEW v \in Seq(Items), NEW i \in 1 .. Len(v), 2 * i < Len(v)
  PROVE  smallerChild(v, i) \in i + 1 .. Len(v)
<1>1. Len(v) \in Nat
  BY LenProperties
<1> QED
  BY <1>1 DEF smallerChild

LEMMA DownMoves ==
  ASSUME NEW v \in Seq(Items), NEW root \in 1 .. Len(v)
  PROVE  LET S    == root .. Len(v)
             m    == [i \in S |-> Len(v) - i]
             stop == {i \in S : ~Sinks(v, root, i)}
             next == [i \in S |-> smallerChild(v, i)]
         IN /\ Downhill(S, m, stop, next)
            /\ \E f : /\ Moves(f, S, stop, next, v, v[root])
                      /\ pushDownRoot(v, root) = f[root]
<1> DEFINE S    == root .. Len(v)
           m    == [i \in S |-> Len(v) - i]
           stop == {i \in S : ~Sinks(v, root, i)}
           next == [i \in S |-> smallerChild(v, i)]
           Down(f) == f = [i \in S |->
                            IF 2 * i < Len(v) /\ Hop[v[smallerChild(v, i)]] < Hop[v[root]]
                            THEN Assign(f[smallerChild(v, i)], i, v[smallerChild(v, i)])
                            ELSE Assign(v, i, v[root])]
<1>0. root \in Nat /\ Len(v) \in Nat /\ root > 0
  BY LenProperties
<1>1. Downhill(S, m, stop, next)
  <2>1. ASSUME NEW i \in S \ stop
        PROVE  smallerChild(v, i) \in S /\ Len(v) - smallerChild(v, i) < Len(v) - i
    <3>1. i \in 1 .. Len(v) /\ 2 * i < Len(v)
      BY <1>0 DEF Sinks
    <3>2. smallerChild(v, i) \in i + 1 .. Len(v)
      BY <3>1, ChildFacts
    <3> QED
      BY <1>0, <3>1, <3>2
  <2>2. m \in [S -> Nat]
    BY <1>0
  <2>3. \A i \in S \ stop : next[i] \in S /\ m[next[i]] < m[i]
    BY <2>1
  <2> QED
    BY <2>2, <2>3 DEF Downhill
<1>2. PICK f : Moves(f, S, stop, next, v, v[root])
  <2>1. Len(v) \in Nat /\ \A i \in S : m[i] < Len(v)
    BY <1>0
  <2> HIDE DEF S, m, stop, next
  <2> QED
    BY <1>1, <2>1, MovesExist
<1>3. ASSUME NEW g PROVE Moves(g, S, stop, next, v, v[root]) <=> Down(g)
  <2>1. \A i \in S :
          (IF i \in stop THEN Assign(v, i, v[root]) ELSE Assign(g[next[i]], i, v[next[i]]))
            = IF 2 * i < Len(v) /\ Hop[v[smallerChild(v, i)]] < Hop[v[root]]
              THEN Assign(g[smallerChild(v, i)], i, v[smallerChild(v, i)])
              ELSE Assign(v, i, v[root])
    BY DEF Sinks
  <2>2. [i \in S |-> IF i \in stop THEN Assign(v, i, v[root]) ELSE Assign(g[next[i]], i, v[next[i]])]
          = [i \in S |-> IF 2 * i < Len(v) /\ Hop[v[smallerChild(v, i)]] < Hop[v[root]]
                         THEN Assign(g[smallerChild(v, i)], i, v[smallerChild(v, i)])
                         ELSE Assign(v, i, v[root])]
    <3> HIDE DEF S, stop, next
    <3> QED
      BY <2>1
  <2> QED
    BY <2>2 DEF Moves
<1>4. \E g : Down(g) /\ pushDownRoot(v, root) = g[root]
  <2>1. Down(f)
    BY <1>2, <1>3
  <2>2. pushDownRoot(v, root) = (CHOOSE g : Down(g))[root]
    BY DEF pushDownRoot
  <2> HIDE DEF Down
  <2> QED
    BY <2>1, <2>2
<1> QED
  BY <1>1, <1>3, <1>4

----------------------------------------------------------------------------
(* The bag of items in the vector *)

LEMMA OccursNat ==
  ASSUME NEW s \in Seq(Items), NEW x
  PROVE  /\ Occurs(s, x) \in Nat
         /\ IsFiniteSet({k \in 1 .. Len(s) : s[k] = x})
<1>1. IsFiniteSet(1 .. Len(s))
  <2>1. Len(s) \in Nat
    BY LenProperties
  <2> QED
    BY <2>1, FS_Interval
<1>2. IsFiniteSet({k \in 1 .. Len(s) : s[k] = x})
  BY <1>1, FS_Subset
<1> QED
  BY <1>2, FS_CardinalityType DEF Occurs

LEMMA SameItems ==
  ASSUME NEW v \in Seq(Items), NEW S \in SUBSET (1 .. Len(v)), NEW i \in S,
         NEW m, NEW stop, NEW next, Downhill(S, m, stop, next),
         NEW f, Moves(f, S, stop, next, v, v[i])
  PROVE  f[i] \in Seq(Items) /\ Len(f[i]) = Len(v) /\ \A x : Occurs(f[i], x) = Occurs(v, x)
<1>1. v[i] \in Items /\ i \in 1 .. Len(v)
  BY ElementOfSeq
<1>2. Assign(v, i, v[i]) = v
  <2>1. v \in [1 .. Len(v) -> Items]
    BY LenProperties
  <2> QED
    BY <1>1, <2>1 DEF Assign
<1>3. Permuted(f[i], v, Behind(v, S, m, i))
  <2>1. Permuted(f[i], Assign(v, i, v[i]), Behind(v, S, m, i))
    BY <1>1, MovesPermute
  <2> QED
    BY <1>2, <2>1
<1>4. \A x : Occurs(f[i], x) = Occurs(v, x)
  BY <1>3, PermutedCount
<1> QED
  BY <1>3, <1>4 DEF Permuted

(* Neither loop loses an item or doubles one. *)
LEMMA UpKeeps ==
  ASSUME NEW v \in Seq(Items), NEW leaf \in 1 .. Len(v)
  PROVE  /\ percolateUp(v, leaf) \in Seq(Items) /\ Len(percolateUp(v, leaf)) = Len(v)
         /\ \A x : Occurs(percolateUp(v, leaf), x) = Occurs(v, x)
<1> DEFINE S    == 1 .. leaf
           m    == [i \in S |-> i]
           stop == {i \in S : ~Rises(v, leaf, i)}
           next == [i \in S |-> parentOf(i)]
<1>1. S \in SUBSET (1 .. Len(v)) /\ leaf \in S
  BY LenProperties
<1>2. /\ Downhill(S, m, stop, next)
      /\ \E f : Moves(f, S, stop, next, v, v[leaf]) /\ percolateUp(v, leaf) = f[leaf]
  BY UpMoves
<1> HIDE DEF S, m, stop, next
<1>3. PICK f : Moves(f, S, stop, next, v, v[leaf]) /\ percolateUp(v, leaf) = f[leaf]
  BY <1>2
<1> QED
  BY <1>1, <1>2, <1>3, SameItems

LEMMA DownKeeps ==
  ASSUME NEW v \in Seq(Items), NEW root \in 1 .. Len(v)
  PROVE  /\ pushDownRoot(v, root) \in Seq(Items) /\ Len(pushDownRoot(v, root)) = Len(v)
         /\ \A x : Occurs(pushDownRoot(v, root), x) = Occurs(v, x)
<1> DEFINE S    == root .. Len(v)
           m    == [i \in S |-> Len(v) - i]
           stop == {i \in S : ~Sinks(v, root, i)}
           next == [i \in S |-> smallerChild(v, i)]
<1>1. S \in SUBSET (1 .. Len(v)) /\ root \in S
  BY LenProperties
<1>2. /\ Downhill(S, m, stop, next)
      /\ \E f : Moves(f, S, stop, next, v, v[root]) /\ pushDownRoot(v, root) = f[root]
  BY DownMoves
<1> HIDE DEF S, m, stop, next
<1>3. PICK f : Moves(f, S, stop, next, v, v[root]) /\ pushDownRoot(v, root) = f[root]
  BY <1>2
<1> QED
  BY <1>1, <1>2, <1>3, SameItems

LEMMA AppendOccurs ==
  ASSUME NEW s \in Seq(Items), NEW item \in Items, NEW x
  PROVE  Occurs(Append(s, item), x) = IF x = item THEN Occurs(s, x) + 1 ELSE Occurs(s, x)
<1> DEFINE n == Len(s)
           t == Append(s, item)
           A == {k \in 1 .. n : s[k] = x}
           B == {k \in 1 .. n + 1 : t[k] = x}
<1>1. /\ n \in Nat /\ Len(t) = n + 1 /\ t[n + 1] = item
      /\ \A k \in 1 .. n : t[k] = s[k]
  BY LenProperties, AppendProperties
<1>2. IsFiniteSet(A) /\ Occurs(s, x) = Cardinality(A) /\ Occurs(t, x) = Cardinality(B)
  BY <1>1, OccursNat DEF Occurs
<1> HIDE DEF t
<1>3. n + 1 \notin A
  BY <1>1
<1>4. CASE x = item
  <2>1. B = A \cup {n + 1}
    BY <1>1, <1>4
  <2>2. Cardinality(A \cup {n + 1}) = Cardinality(A) + 1
    BY <1>2, <1>3, FS_AddElement
  <2> QED
    BY <1>2, <1>4, <2>1, <2>2 DEF t
<1>5. CASE x # item
  <2>1. B = A
    BY <1>1, <1>5
  <2> QED
    BY <1>2, <1>5, <2>1 DEF t
<1> QED
  BY <1>4, <1>5

(* The last item comes to the place of the first. *)
LEMMA RemoveOccurs ==
  ASSUME NEW s \in Seq(Items), s # <<>>, NEW x
  PROVE  LET t == SubSeq(Assign(s, 1, s[Len(s)]), 1, Len(s) - 1)
         IN /\ t \in Seq(Items) /\ Len(t) = Len(s) - 1
            /\ x = Head(s) => Occurs(s, x) > 0
            /\ Occurs(t, x) = IF x = Head(s) THEN Occurs(s, x) - 1 ELSE Occurs(s, x)
<1> DEFINE n == Len(s)
           a == Assign(s, 1, s[n])
           t == SubSeq(a, 1, n - 1)
           A == {k \in 1 .. n : s[k] = x}
           B == {k \in 1 .. n - 1 : t[k] = x}
<1>1. n \in Nat \ {0} /\ 1 \in 1 .. n /\ n \in 1 .. n
  BY EmptySeq, LenProperties
<1>2. Head(s) = s[1] /\ s[n] \in Items
  BY <1>1, ElementOfSeq
<1>3. a \in Seq(Items) /\ Len(a) = n /\ \A k \in 1 .. n : a[k] = IF k = 1 THEN s[n] ELSE s[k]
  BY <1>1, <1>2, AssignFacts
<1> HIDE DEF a
<1>4. /\ t \in Seq(Items) /\ Len(t) = n - 1
      /\ \A k \in 1 .. n - 1 : t[k] = a[k]
  <2>1. 1 \in Int /\ n - 1 \in Int /\ \A k \in 1 .. n - 1 : a[k] \in Items
    BY <1>1, <1>3, ElementOfSeq
  <2>2. /\ t \in Seq(Items) /\ Len(t) = (IF 1 <= n - 1 THEN (n - 1) - 1 + 1 ELSE 0)
        /\ \A k \in 1 .. (n - 1) - 1 + 1 : t[k] = a[1 + k - 1]
    BY <2>1, SubSeqProperties
  <2> HIDE DEF t
  <2>3. \A k \in 1 .. n - 1 : k \in 1 .. (n - 1) - 1 + 1 /\ 1 + k - 1 = k
    BY <1>1
  <2>4. Len(t) = n - 1
    <3>1. n \in Nat /\ n # 0
      BY <1>1
    <3>2. Len(t) = IF 1 <= n - 1 THEN (n - 1) - 1 + 1 ELSE 0
      BY <2>2
    <3> HIDE DEF n
    <3> QED
      BY ONLY <3>1, <3>2
  <2> QED
    BY <2>2, <2>3, <2>4
<1> HIDE DEF t
<1>5. /\ Occurs(s, x) = Cardinality(A) /\ Occurs(t, x) = Cardinality(B)
      /\ IsFiniteSet(A) /\ IsFiniteSet(B) /\ Cardinality(A) \in Nat
  <2>1. Occurs(s, x) = Cardinality(A) /\ IsFiniteSet(A) /\ Cardinality(A) \in Nat
    BY OccursNat DEF Occurs
  <2>2. Occurs(t, x) = Cardinality(B) /\ IsFiniteSet(B)
    BY <1>4, OccursNat DEF Occurs
  <2> QED
    BY <2>1, <2>2
<1>6. Cardinality(A \ {1}) = Cardinality(B)
  <2> DEFINE g == [k \in B |-> IF k = 1 THEN n ELSE k]
  <2>1. g \in [B -> A \ {1}]
    <3>1. ASSUME NEW k \in B PROVE (IF k = 1 THEN n ELSE k) \in A \ {1}
      BY <1>1, <1>3, <1>4
    <3> HIDE DEF A, B
    <3> QED
      BY <3>1
  <2>2. \A k, j \in B : g[k] = g[j] => k = j
    BY <1>1
  <2>3. ASSUME NEW j \in A \ {1} PROVE \E k \in B : g[k] = j
    <3>1. CASE j = n
      <4>1. 1 \in B
        BY <1>1, <1>3, <1>4, <3>1
      <4>2. g[1] = n
        BY <4>1
      <4> QED
        BY <3>1, <4>1, <4>2
    <3>2. CASE j # n
      <4>1. j \in B /\ j # 1
        BY <1>1, <1>3, <1>4, <3>2
      <4>2. g[j] = j
        BY <4>1
      <4> QED
        BY <4>1, <4>2
    <3> QED
      BY <3>1, <3>2
  <2> HIDE DEF g, A, B
  <2>4. g \in Bijection(B, A \ {1})
    BY <2>1, <2>2, <2>3, Fun_IsBij
  <2>5. ExistsBijection(B, A \ {1})
    BY <2>4 DEF ExistsBijection
  <2> QED
    BY <1>5, <2>5, FS_Bijection
<1>7. 1 \in A <=> x = Head(s)
  BY <1>1, <1>2
<1>8. Cardinality(A \ {1}) = IF 1 \in A THEN Cardinality(A) - 1 ELSE Cardinality(A)
  BY <1>5, FS_RemoveElement
<1>9. x = Head(s) => Cardinality(A) > 0
  <2>1. 1 \in A => Cardinality(A) # 0
    <3> HIDE DEF A
    <3> QED
      BY <1>5, FS_EmptySet
  <2> HIDE DEF A
  <2> QED
    BY <1>5, <1>7, <2>1
<1> HIDE DEF A, B
<1> QED
  BY <1>4, <1>5, <1>6, <1>7, <1>8, <1>9 DEF t, a

----------------------------------------------------------------------------
(* The queue *)

HeapInv == data \in Seq(Items) /\ (grownOnly => Ordered(data))

LEMMA CountOccurs ==
  /\ data \in Seq(Items) => \A i : Count(i) = Occurs(data, i)
  /\ data' \in Seq(Items) => \A i : Count(i)' = Occurs(data', i)
<1>1. data \in Seq(Items) => DOMAIN data = 1 .. Len(data)
  BY LenProperties
<1>2. data' \in Seq(Items) => DOMAIN data' = 1 .. Len(data')
  BY LenProperties
<1> QED
  BY <1>1, <1>2 DEF Count, Occurs

LEMMA AddHeap ==
  ASSUME HeapInv, NEW item \in Items, Add(item)
  PROVE  /\ HeapInv'
         /\ \A i \in Items : Count(i)' = IF i = item THEN Count(i) + 1 ELSE Count(i)
         /\ min' = min
<1> DEFINE v == Append(data, item)
           n == Len(data) + 1
<1>1. /\ data \in Seq(Items) /\ (grownOnly => Ordered(data)) /\ grownOnly' = grownOnly
      /\ data' = percolateUp(v, n) /\ min' = min
  BY DEF Add, HeapInv
<1>2. /\ v \in Seq(Items) /\ n = Len(v) /\ n \in 1 .. Len(v) /\ Len(data) \in Nat /\ n > 0
      /\ \A k \in 1 .. Len(data) : v[k] = data[k]
  BY <1>1, LenProperties, AppendProperties
<1> HIDE DEF v, n
<1>3. data' \in Seq(Items) /\ \A x : Occurs(data', x) = Occurs(v, x)
  BY <1>1, <1>2, UpKeeps
<1>4. ASSUME grownOnly PROVE Ordered(data')
  <2>1. ASSUME NEW i \in 2 .. n - 1 PROVE Hop[v[parentOf(i)]] <= Hop[v[i]]
    <3>1. i \in 1 .. Len(data) /\ i \in 2 .. Len(data)
      BY <1>2 DEF n
    <3>2. parentOf(i) \in 1 .. Len(data)
      BY <1>2, <3>1, ParentBelow
    <3> QED
      BY <1>1, <1>2, <1>4, <3>1, <3>2 DEF Ordered
  <2> QED
    BY <1>1, <1>2, <2>1, UpOrders
<1>5. ASSUME NEW i \in Items PROVE Count(i)' = IF i = item THEN Count(i) + 1 ELSE Count(i)
  <2>1. Count(i) = Occurs(data, i) /\ Count(i)' = Occurs(data', i)
    BY <1>1, <1>3, CountOccurs
  <2>2. Occurs(v, i) = IF i = item THEN Occurs(data, i) + 1 ELSE Occurs(data, i)
    BY <1>1, AppendOccurs DEF v
  <2> QED
    BY <1>3, <2>1, <2>2
<1> QED
  BY <1>1, <1>3, <1>4, <1>5 DEF HeapInv

LEMMA RemoveHeap ==
  ASSUME HeapInv, Remove
  PROVE  /\ HeapInv'
         /\ min' \in Items /\ Count(min') > 0
         /\ \A i \in Items : Count(i)' = IF i = min' THEN Count(i) - 1 ELSE Count(i)
<1> DEFINE moved == SubSeq(Assign(data, 1, data[Len(data)]), 1, Len(data) - 1)
<1>1. /\ data \in Seq(Items) /\ data # <<>> /\ min' = Head(data)
      /\ data' = IF Len(moved) > 1 THEN pushDownRoot(moved, 1) ELSE moved
      /\ grownOnly' = (data' = <<>>)
  BY DEF Remove, HeapInv
<1>2. min' \in Items
  BY <1>1, HeadTailProperties
<1>3. ASSUME NEW x
      PROVE  /\ moved \in Seq(Items)
             /\ x = Head(data) => Occurs(data, x) > 0
             /\ Occurs(moved, x) = IF x = Head(data) THEN Occurs(data, x) - 1 ELSE Occurs(data, x)
  BY <1>1, RemoveOccurs
<1>4. moved \in Seq(Items) /\ Len(moved) \in Nat
  BY <1>3, LenProperties
<1> HIDE DEF moved
<1>5. data' \in Seq(Items) /\ \A x : Occurs(data', x) = Occurs(moved, x)
  <2>1. CASE Len(moved) > 1
    <3>1. 1 \in 1 .. Len(moved)
      BY <1>4, <2>1
    <3> QED
      BY <1>1, <1>4, <2>1, <3>1, DownKeeps
  <2>2. CASE ~(Len(moved) > 1)
    BY <1>1, <1>4, <2>2
  <2> QED
    BY <2>1, <2>2
<1>6. grownOnly' => Ordered(data')
  <2> SUFFICES ASSUME data' = <<>> PROVE Ordered(data')
    BY <1>1
  <2>1. Len(data') = 0
    BY EmptySeq
  <2> QED
    BY <2>1 DEF Ordered
<1>7. \A i : Count(i) = Occurs(data, i) /\ Count(i)' = Occurs(data', i)
  BY <1>1, <1>5, CountOccurs
<1>8. Count(min') > 0
  BY <1>1, <1>3, <1>7
<1>9. \A i \in Items : Count(i)' = IF i = min' THEN Count(i) - 1 ELSE Count(i)
  BY <1>1, <1>3, <1>5, <1>7
<1> QED
  BY <1>2, <1>5, <1>6, <1>8, <1>9 DEF HeapInv

LEMMA HeapStays == HeapInv /\ [Next]_vars => HeapInv'
<1> SUFFICES ASSUME HeapInv, [Next]_vars PROVE HeapInv'
  OBVIOUS
<1>1. CASE RemoveEmpty \/ UNCHANGED vars
  BY <1>1 DEF RemoveEmpty, vars, HeapInv
<1> QED
  BY <1>1, AddHeap, RemoveHeap DEF Next

LEMMA HeapInit == Init => HeapInv
<1>1. <<>> \in Seq(Items) /\ Len(<<>>) = 0
  BY EmptySeq
<1> QED
  BY <1>1 DEF Init, HeapInv, Ordered

(* As long as nothing was removed since the heap was last empty, no child   *)
(* precedes its parent: percolateUp puts a new element where it belongs.    *)
THEOREM GrowsInOrder == Spec => []OrderedWhileGrowing
<1>1. HeapInv => OrderedWhileGrowing
  <2> SUFFICES ASSUME HeapInv, grownOnly,
                      NEW i \in DOMAIN data \ {1}
               PROVE  Hop[data[parentOf(i)]] <= Hop[data[i]]
    BY DEF OrderedWhileGrowing
  <2>1. DOMAIN data = 1 .. Len(data) /\ Len(data) \in Nat
    BY LenProperties DEF HeapInv
  <2>2. i \in 2 .. Len(data)
    BY <2>1
  <2> QED
    BY <2>2 DEF HeapInv, Ordered
<1> QED
  BY <1>1, HeapInit, HeapStays, PTL DEF Spec

LEMMA InitQueue == Init => abstract!Init
<1> SUFFICES ASSUME Init PROVE abstract!Init
  OBVIOUS
<1>1. \A i \in Items : Count(i) = 0
  <2>1. \A i : {k \in DOMAIN data : data[k] = i} = {}
    BY DEF Init
  <2> QED
    BY <2>1, FS_EmptySet DEF Count
<1> QED
  BY <1>1 DEF Init, abstract!Init

LEMMA StepQueues ==
  ASSUME HeapInv, [Next]_vars
  PROVE  [abstract!Next]_(<<[i \in Items |-> Count(i)], min>>)
<1> DEFINE queue == [i \in Items |-> Count(i)]
<1>1. CASE UNCHANGED vars
  BY <1>1 DEF vars, Count
<1>2. ASSUME NEW item \in Items, Add(item) PROVE abstract!Push(item)
  <2>1. /\ \A i \in Items : Count(i)' = IF i = item THEN Count(i) + 1 ELSE Count(i)
        /\ min' = min
    BY <1>2, AddHeap
  <2> QED
    BY <2>1 DEF abstract!Push
<1>3. ASSUME Remove PROVE min' \in Items /\ abstract!Pop(min')
  <2>1. /\ min' \in Items /\ Count(min') > 0
        /\ \A i \in Items : Count(i)' = IF i = min' THEN Count(i) - 1 ELSE Count(i)
    BY <1>3, RemoveHeap
  <2> QED
    BY <2>1 DEF abstract!Pop
<1>4. ASSUME RemoveEmpty PROVE abstract!PopEmpty
  <2>1. \A i \in Items : Count(i) = 0
    <3>1. \A i : {k \in DOMAIN data : data[k] = i} = {}
      BY <1>4 DEF RemoveEmpty
    <3> QED
      BY <3>1, FS_EmptySet DEF Count
  <2> QED
    BY <1>4, <2>1 DEF RemoveEmpty, abstract!PopEmpty, Count
<1> QED
  BY <1>1, <1>2, <1>3, <1>4 DEF Next, abstract!Next

(* The heap is the queue a Server takes it for: nothing that was added is   *)
(* lost and nothing comes out twice, whatever percolateUp, pushDownRoot and *)
(* the moving of the last element to the top do with the order.             *)
THEOREM HeapIsQueue == Spec => QueueSpec
<1>1. HeapInv /\ [Next]_vars => [abstract!Next]_(<<[i \in Items |-> Count(i)], min>>)
  BY StepQueues
<1> QED
  BY <1>1, HeapInit, HeapStays, InitQueue, PTL DEF Spec, QueueSpec, abstract!Spec
=============================================================================
