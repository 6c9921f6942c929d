---------------------------- MODULE StatementsProof ----------------------------
(****************************************************************************)
(* What is proved of the statements and of the pages the dashboard is made  *)
(* of: for every number of accounts, movements and writers, every length of *)
(* the books, every query, and days of any whole number of seconds.         *)
(****************************************************************************)
EXTENDS Dashboard, PostingProof, FiniteSetTheorems, SequenceTheorems, TLAPS

(***************************************************************************)
(* Orders.                                                                 *)
(***************************************************************************)

LEMMA OrderHas ==
  ASSUME NEW S, IsFiniteSet(S), NEW R, NEW o \in Orders(S, R)
  PROVE  /\ o \in Seq(S) /\ Len(o) = Cardinality(S) /\ Len(o) \in Nat
         /\ DOMAIN o = 1..Len(o) /\ \A i \in 1..Len(o) : o[i] \in S
         /\ \A i, j \in 1..Len(o) : o[i] = o[j] => i = j
         /\ \A i, j \in 1..Len(o) : i < j => <<o[i], o[j]>> \in R
         /\ \A x \in S : \E i \in 1..Len(o) : o[i] = x
<1> DEFINE n == Cardinality(S)
<1>1. n \in Nat
  BY FS_CardinalityType
<1>2. /\ o \in [1..n -> S]
      /\ \A i, j \in 1..n : i # j => o[i] # o[j]
      /\ \A i, j \in DOMAIN o : i < j => <<o[i], o[j]>> \in R
  BY DEF Orders, SetToSeqs
<1> HIDE DEF n
<1>3. o \in Seq(S) /\ Len(o) = n /\ DOMAIN o = 1..n
  BY <1>1, <1>2
<1>4. ASSUME NEW x \in S
      PROVE  \E i \in 1..n : o[i] = x
  <2> SUFFICES ASSUME \A i \in 1..n : o[i] # x
               PROVE  FALSE
    OBVIOUS
  <2> DEFINE T == S \ {x}
  <2>1. o \in [1..n -> T]
    BY <1>2
  <2>2. IsFiniteSet(T) /\ Cardinality(T) = n - 1
    BY FS_RemoveElement DEF n
  <2>3. IsFiniteSet(1..n) /\ Cardinality(1..n) = n
    <3>1. 1 \in Int /\ n \in Int
      BY <1>1
    <3>2. IsFiniteSet(1..n) /\ Cardinality(1..n) = IF 1 > n THEN 0 ELSE n - 1 + 1
      BY <3>1, FS_Interval
    <3> QED
      BY <1>1, <3>2
  <2>4. \E i, j \in 1..n : i # j /\ o[i] = o[j]
    <3> HIDE DEF T
    <3> QED
      BY <1>1, <2>1, <2>2, <2>3, FS_PigeonHole
  <2> QED
    BY <1>2, <2>4
<1> QED
  BY <1>1, <1>2, <1>3, <1>4 DEF n

\* T: what list o has from place m to place n, nothing twice.
IsStretch(T, o, m, n) ==
  /\ m \in Nat /\ n \in Nat /\ m <= n + 1
  /\ \A t : t \in T <=> \E j \in m..n : t = o[j]
  /\ \A j, k \in m..n : o[j] = o[k] => j = k

\* It has as many members as places.
LEMMA StretchCounts ==
  ASSUME NEW T, NEW o, NEW m, NEW n, IsStretch(T, o, m, n)
  PROVE  IsFiniteSet(T) /\ Cardinality(T) = (n - m) + 1
<1> USE DEF IsStretch
<1> DEFINE c == (n - m) + 1
           g == [j \in 1..c |-> o[(m + j) - 1]]
<1>1. c \in Nat
  OBVIOUS
<1>2. \A j \in 1..c : (m + j) - 1 \in m..n
  BY <1>1
<1>3. g \in [1..c -> T]
  BY <1>2
<1>4. ASSUME NEW t \in T
      PROVE  \E j \in 1..c : g[j] = t
  <2>1. PICK k \in m..n : t = o[k]
    OBVIOUS
  <2>2. (k - m) + 1 \in 1..c /\ (m + ((k - m) + 1)) - 1 = k
    BY <1>1
  <2> QED
    BY <2>1, <2>2
<1>5. \A j, k \in 1..c : g[j] = g[k] => j = k
  <2> SUFFICES ASSUME NEW j \in 1..c, NEW k \in 1..c, g[j] = g[k]
               PROVE  j = k
    OBVIOUS
  <2>1. o[(m + j) - 1] = o[(m + k) - 1]
    OBVIOUS
  <2>2. (m + j) - 1 = (m + k) - 1
    BY <1>2, <2>1
  <2>3. j \in Int /\ k \in Int
    BY <1>1
  <2> QED
    BY <2>2, <2>3
<1>6. g \in Bijection(1..c, T)
  <2>1. DOMAIN g = 1..c
    OBVIOUS
  <2> HIDE DEF g
  <2> QED
    BY <1>3, <1>4, <1>5, <2>1 DEF Bijection, Injection, Surjection, IsInjective
<1>7. ExistsBijection(1..c, T)
  BY <1>6 DEF ExistsBijection
<1> HIDE DEF c, g
<1>8. IsFiniteSet(T) /\ Cardinality(T) = c
  BY <1>1, <1>7, FS_CountingElements, FS_NatBijection
<1> QED
  BY <1>8 DEF c

(***************************************************************************)
(* What rows come to.                                                      *)
(***************************************************************************)

Tx3 == [row : Row, id : Nat, at : Nat]

Weights(book, a, I) ==
  [k \in 1..Len(book) |-> IF k \in I THEN Delta(book[k].row, a) ELSE 0]

LEMMA DeltaType ==
  ASSUME NEW r \in Row, NEW a
  PROVE  Delta(r, a) \in Int
<1>1. r.value \in Int
  BY PostingAssumption DEF Row
<1> QED
  BY <1>1 DEF Delta

LEMMA BookRow ==
  ASSUME NEW book \in Seq(Tx3), NEW k \in 1..Len(book)
  PROVE  book[k].row \in Row /\ book[k].id \in Nat /\ book[k].at \in Nat
<1>1. book[k] \in Tx3
  OBVIOUS
<1> QED
  BY <1>1 DEF Tx3

LEMMA WeightsType ==
  ASSUME NEW book \in Seq(Tx3), NEW a, NEW I
  PROVE  \A k \in 1..Len(book) : Weights(book, a, I)[k] \in Int
<1> SUFFICES ASSUME NEW k \in 1..Len(book)
             PROVE  Weights(book, a, I)[k] \in Int
  OBVIOUS
<1>1. book[k].row \in Row
  BY BookRow
<1> QED
  BY <1>1, DeltaType DEF Weights

LEMMA SumOfIsSum ==
  ASSUME NEW book \in Seq(Tx3), NEW a, NEW I
  PROVE  \E f \in [0..Len(book) -> Int] :
           /\ IsSum(f, Weights(book, a, I), Len(book))
           /\ SumOf(book, a, I) = f[Len(book)]
<1> DEFINE d == Weights(book, a, I)
           G(f) == f = [k \in 0..Len(book) |->
                          IF k = 0 THEN 0
                          ELSE f[k - 1] + (IF k \in I
                                           THEN Delta(book[k].row, a) ELSE 0)]
<1>1. Len(book) \in Nat /\ \A k \in 1..Len(book) : d[k] \in Int
  BY WeightsType
<1>2. PICK f \in [0..Len(book) -> Int] : IsSum(f, d, Len(book))
  BY <1>1, SumExists
<1>3. \A h : G(h) <=> IsSum(h, d, Len(book))
  <2> SUFFICES ASSUME NEW h
               PROVE  G(h) <=> IsSum(h, d, Len(book))
    OBVIOUS
  <2> DEFINE u == [k \in 0..Len(book) |->
                     IF k = 0 THEN 0
                     ELSE h[k - 1] + (IF k \in I
                                      THEN Delta(book[k].row, a) ELSE 0)]
             w == [k \in 0..Len(book) |-> IF k = 0 THEN 0 ELSE h[k - 1] + d[k]]
  <2>1. \A k \in 1..Len(book) :
          d[k] = IF k \in I THEN Delta(book[k].row, a) ELSE 0
    BY DEF Weights
  <2> HIDE DEF d
  <2>2. ASSUME NEW k \in 0..Len(book)
        PROVE  u[k] = w[k]
    BY <1>1, <2>1
  <2>3. u = w
    BY <2>2
  <2> QED
    BY <2>3 DEF IsSum
<1>4. G(CHOOSE h : G(h))
  <2>1. G(f)
    BY <1>2, <1>3
  <2> HIDE DEF G
  <2> QED
    BY <2>1
<1>5. SumOf(book, a, I) = (CHOOSE h : G(h))[Len(book)]
  BY DEF SumOf
<1>6. IsSum(CHOOSE h : G(h), d, Len(book))
  BY <1>3, <1>4
<1>7. f[Len(book)] = (CHOOSE h : G(h))[Len(book)]
  <2> HIDE DEF d, G
  <2> QED
    BY <1>1, <1>2, <1>6, SumUnique
<1> QED
  BY <1>1, <1>2, <1>5, <1>7

LEMMA SumOfType ==
  ASSUME NEW book \in Seq(Tx3), NEW a, NEW I
  PROVE  SumOf(book, a, I) \in Int
BY SumOfIsSum

\* Any sums of the weights end at SumOf.
LEMMA SumOfEnds ==
  ASSUME NEW book \in Seq(Tx3), NEW a, NEW I,
         NEW f, SumsTo(f, Weights(book, a, I), Len(book))
  PROVE  SumOf(book, a, I) = f[Len(book)]
<1>1. PICK g : /\ IsSum(g, Weights(book, a, I), Len(book))
               /\ SumOf(book, a, I) = g[Len(book)]
  BY SumOfIsSum
<1>2. Len(book) \in Nat /\ Len(book) \in 0..Len(book)
  OBVIOUS
<1>3. SumsTo(g, Weights(book, a, I), Len(book))
  BY <1>1, <1>2, IsSumSumsTo
<1>4. Agree(Weights(book, a, I), Weights(book, a, I), Len(book))
  BY DEF Agree
<1> QED
  BY <1>1, <1>2, <1>3, <1>4, SumsAgree

\* Rows no one looks at come to nothing.
LEMMA SumOfNone ==
  ASSUME NEW book \in Seq(Tx3), NEW a, NEW I, \A k \in 1..Len(book) : k \notin I
  PROVE  SumOf(book, a, I) = 0
<1> DEFINE f == [k \in 0..Len(book) |-> 0]
<1>1. SumsTo(f, Weights(book, a, I), Len(book))
  BY DEF SumsTo, Weights
<1>2. SumOf(book, a, I) = f[Len(book)]
  <2> HIDE DEF f
  <2> QED
    BY <1>1, SumOfEnds
<1> QED
  BY <1>2

\* J and K are the two parts of I.
Parts(I, J, K, n) ==
  \A k \in 1..n : /\ k \in I <=> k \in J \/ k \in K
                  /\ ~(k \in J /\ k \in K)

LEMMA SumOfParts ==
  ASSUME NEW book \in Seq(Tx3), NEW a, NEW I, NEW J, NEW K,
         Parts(I, J, K, Len(book))
  PROVE  SumOf(book, a, I) = SumOf(book, a, J) + SumOf(book, a, K)
<1> DEFINE n == Len(book)
<1>1. PICK f \in [0..n -> Int] : /\ IsSum(f, Weights(book, a, J), n)
                                 /\ SumOf(book, a, J) = f[n]
  BY SumOfIsSum
<1>2. PICK g \in [0..n -> Int] : /\ IsSum(g, Weights(book, a, K), n)
                                 /\ SumOf(book, a, K) = g[n]
  BY SumOfIsSum
<1>3. n \in Nat /\ n \in 0..n
  OBVIOUS
<1> DEFINE h == [k \in 0..n |-> f[k] + g[k]]
<1>4. SumsTo(f, Weights(book, a, J), n) /\ SumsTo(g, Weights(book, a, K), n)
  BY <1>1, <1>2, <1>3, IsSumSumsTo
<1>5. /\ f[0] = 0 /\ g[0] = 0
      /\ \A k \in 1..n : /\ f[k] = f[k - 1] + Weights(book, a, J)[k]
                         /\ g[k] = g[k - 1] + Weights(book, a, K)[k]
  BY <1>4 DEF SumsTo
<1>6. ASSUME NEW k \in 1..n
      PROVE  h[k] = h[k - 1] + Weights(book, a, I)[k]
  <2>0. k \in 0..n /\ k - 1 \in 0..n
    BY <1>3
  <2>1. /\ f[k - 1] \in Int /\ g[k - 1] \in Int
        /\ h[k] = f[k] + g[k] /\ h[k - 1] = f[k - 1] + g[k - 1]
    BY <2>0
  <2>2. Weights(book, a, J)[k] \in Int /\ Weights(book, a, K)[k] \in Int
    BY WeightsType
  <2>3. Weights(book, a, I)[k]
          = Weights(book, a, J)[k] + Weights(book, a, K)[k]
    <3>1. Delta(book[k].row, a) \in Int
      BY DeltaType, BookRow
    <3> QED
      BY <3>1 DEF Parts, Weights
  <2> QED
    BY <1>5, <2>1, <2>2, <2>3
<1>7. SumsTo(h, Weights(book, a, I), n)
  <2>1. h[0] = 0
    BY <1>3, <1>5
  <2> HIDE DEF h
  <2> QED
    BY <1>6, <2>1 DEF SumsTo
<1>8. SumOf(book, a, I) = h[n]
  <2> HIDE DEF h
  <2> QED
    BY <1>7, SumOfEnds
<1> QED
  BY <1>1, <1>2, <1>3, <1>8

\* One row comes to its delta.
LEMMA SumOfOne ==
  ASSUME NEW book \in Seq(Tx3), NEW a, NEW i \in 1..Len(book), NEW I,
         \A k \in 1..Len(book) : k \in I <=> k = i
  PROVE  SumOf(book, a, I) = Delta(book[i].row, a)
<1> DEFINE n == Len(book)
           v == Delta(book[i].row, a)
           f == [k \in 0..n |-> IF k < i THEN 0 ELSE v]
<1>1. v \in Int /\ n \in Nat /\ i \in 1..n
  BY DeltaType, BookRow
<1>2. \A k \in 1..n : Weights(book, a, I)[k] = IF k = i THEN v ELSE 0
  BY DEF Weights
<1> HIDE DEF v
<1>3. SumsTo(f, Weights(book, a, I), n)
  <2>1. f[0] = 0
    BY <1>1
  <2>2. ASSUME NEW k \in 1..n
        PROVE  f[k] = f[k - 1] + Weights(book, a, I)[k]
    <3>1. k - 1 \in 0..n /\ k \in 0..n
      BY <1>1
    <3> QED
      BY <1>1, <1>2, <3>1
  <2> HIDE DEF f
  <2> QED
    BY <2>1, <2>2 DEF SumsTo
<1>4. SumOf(book, a, I) = f[n]
  <2> HIDE DEF f
  <2> QED
    BY <1>3, SumOfEnds
<1>5. f[n] = v
  BY <1>1
<1> QED
  BY <1>4, <1>5 DEF v

\* The books hold what they held, and may have grown.
Extends(book, more) ==
  /\ Len(book) <= Len(more)
  /\ \A k \in 1..Len(book) : more[k] = book[k]

\* So rows there were come to what they came to.
LEMMA SumOfMore2 ==
  ASSUME NEW book \in Seq(Tx3), NEW more \in Seq(Tx3), NEW a, NEW I,
         Extends(book, more), \A k \in 1..Len(more) : k \in I => k <= Len(book)
  PROVE  SumOf(more, a, I) = SumOf(book, a, I)
<1> DEFINE n == Len(book)
           m == Len(more)
<1>1. PICK f \in [0..n -> Int] : /\ IsSum(f, Weights(book, a, I), n)
                                 /\ SumOf(book, a, I) = f[n]
  BY SumOfIsSum
<1>2. n \in Nat /\ n \in 0..n /\ m \in Nat /\ n <= m
  BY DEF Extends
<1>3. SumsTo(f, Weights(book, a, I), n)
  BY <1>1, <1>2, IsSumSumsTo
<1> DEFINE h == [k \in 0..m |-> IF k <= n THEN f[k] ELSE f[n]]
<1>4. ASSUME NEW k \in 1..m
      PROVE  h[k] = h[k - 1] + Weights(more, a, I)[k]
  <2>1. k \in 0..m /\ k - 1 \in 0..m
    BY <1>2
  <2>2. CASE k <= n
    <3>1. k \in 1..n /\ k - 1 <= n
      BY <1>2, <2>2
    <3>2. Weights(more, a, I)[k] = Weights(book, a, I)[k]
      BY <3>1 DEF Weights, Extends
    <3>3. f[k] = f[k - 1] + Weights(book, a, I)[k]
      BY <1>3, <3>1 DEF SumsTo
    <3> QED
      BY <2>1, <2>2, <3>1, <3>2, <3>3
  <2>3. CASE ~(k <= n)
    <3>1. Weights(more, a, I)[k] = 0
      BY <2>3 DEF Weights
    <3>2. h[k] = f[n] /\ h[k - 1] = f[n] /\ f[n] \in Int
      BY <1>2, <2>1, <2>3
    <3> QED
      BY <3>1, <3>2
  <2> QED
    BY <2>2, <2>3
<1>5. h[0] = 0
  BY <1>2, <1>3 DEF SumsTo
<1>6. SumsTo(h, Weights(more, a, I), m)
  <2> HIDE DEF h
  <2> QED
    BY <1>4, <1>5 DEF SumsTo
<1>7. SumOf(more, a, I) = h[m]
  <2> HIDE DEF h
  <2> QED
    BY <1>6, SumOfEnds
<1>8. h[m] = f[n]
  BY <1>2
<1> QED
  BY <1>1, <1>7, <1>8

(***************************************************************************)
(* The walk over the rows of an account.                                   *)
(***************************************************************************)

IsWalk(h, c, d, n) ==
  h = [k \in 0..n |-> IF k = 0 THEN c ELSE h[k - 1] + d[k]]

\* f adds up what a walk over d goes through.
WalkSums(f, c, d, n) ==
  /\ n \in Nat /\ c \in Int /\ f \in [0..n -> Int]
  /\ \A k \in 1..n : d[k] \in Int
  /\ SumsTo(f, d, n)

LEMMA WalkIs ==
  ASSUME NEW n, NEW c, NEW d, NEW f, WalkSums(f, c, d, n)
  PROVE  \A k \in 0..n : (CHOOSE h : IsWalk(h, c, d, n))[k] = c + f[k]
<1>0. /\ n \in Nat /\ c \in Int /\ f \in [0..n -> Int]
      /\ \A k \in 1..n : d[k] \in Int
  BY DEF WalkSums
<1> USE <1>0
<1>1. f[0] = 0 /\ \A k \in 1..n : f[k] = f[k - 1] + d[k]
  BY DEF SumsTo, WalkSums
<1> DEFINE u == [k \in 0..n |-> c + f[k]]
<1>2. IsWalk(u, c, d, n)
  <2>1. ASSUME NEW k \in 0..n
        PROVE  u[k] = IF k = 0 THEN c ELSE u[k - 1] + d[k]
    <3>1. CASE k = 0
      BY <1>1, <3>1
    <3>2. CASE k # 0
      <4>1. k \in 1..n /\ k - 1 \in 0..n
        BY <3>2
      <4>2. u[k] = c + f[k] /\ u[k - 1] = c + f[k - 1] /\ f[k - 1] \in Int
        BY <4>1
      <4> QED
        BY <1>1, <3>2, <4>1, <4>2
    <3> QED
      BY <3>1, <3>2
  <2> DEFINE w == [k \in 0..n |-> IF k = 0 THEN c ELSE u[k - 1] + d[k]]
  <2>2. u = w
    BY <2>1
  <2> QED
    BY <2>2 DEF IsWalk
<1> DEFINE h == CHOOSE x : IsWalk(x, c, d, n)
<1>3. IsWalk(h, c, d, n)
  <2> HIDE DEF u
  <2> QED
    BY <1>2
<1> HIDE DEF h
<1>4. \A k \in 0..n : h[k] = IF k = 0 THEN c ELSE h[k - 1] + d[k]
  BY <1>3 DEF IsWalk
<1> DEFINE S == {k \in Nat : k <= n => h[k] = c + f[k]}
<1>5. 0 \in S
  BY <1>1, <1>4
<1>6. ASSUME NEW k \in S PROVE k + 1 \in S
  <2> SUFFICES ASSUME k + 1 <= n PROVE h[k + 1] = c + f[k + 1]
    OBVIOUS
  <2>1. k + 1 \in 1..n /\ k + 1 \in 0..n /\ (k + 1) - 1 = k /\ k \in 0..n
    OBVIOUS
  <2>2. h[k + 1] = h[k] + d[k + 1] /\ h[k] = c + f[k]
    BY <1>4, <2>1
  <2>3. f[k + 1] = f[k] + d[k + 1] /\ f[k] \in Int /\ d[k + 1] \in Int
    BY <1>1, <2>1
  <2> QED
    BY <2>2, <2>3
<1>7. S = Nat
  <2>1. S \in SUBSET Nat
    OBVIOUS
  <2> HIDE DEF S
  <2> QED
    BY <1>5, <1>6, <2>1, AllNumbers
<1> QED
  BY <1>7 DEF h

\* The first k places of a list.
Places(asc, k) == {asc[j] : j \in 1..k}

\* A list of different places of the books.
IsList(asc, book) ==
  /\ asc \in Seq(1..Len(book))
  /\ \A j, k \in 1..Len(asc) : asc[j] = asc[k] => j = k

DeltasOf(asc, book, a) ==
  [k \in 1..Len(asc) |-> Delta(book[asc[k]].row, a)]

LEMMA DeltasType ==
  ASSUME NEW book \in Seq(Tx3), NEW asc, IsList(asc, book), NEW a
  PROVE  \A k \in 1..Len(asc) : DeltasOf(asc, book, a)[k] \in Int
<1> SUFFICES ASSUME NEW k \in 1..Len(asc)
             PROVE  DeltasOf(asc, book, a)[k] \in Int
  OBVIOUS
<1>1. asc[k] \in 1..Len(book)
  BY DEF IsList
<1>2. book[asc[k]].row \in Row
  BY <1>1, BookRow
<1> QED
  BY <1>2, DeltaType DEF DeltasOf

\* The sums along a list are those of its first places.
LEMMA PrefixSums ==
  ASSUME NEW book \in Seq(Tx3), NEW asc, IsList(asc, book), NEW a,
         NEW f, SumsTo(f, DeltasOf(asc, book, a), Len(asc))
  PROVE  \A k \in 0..Len(asc) : f[k] = SumOf(book, a, Places(asc, k))
<1> DEFINE n == Len(asc)
           S == {k \in Nat : k <= n => f[k] = SumOf(book, a, Places(asc, k))}
<1>1. n \in Nat /\ f[0] = 0
      /\ \A k \in 1..n : f[k] = f[k - 1] + DeltasOf(asc, book, a)[k]
  BY DEF SumsTo, IsList
<1>2. 0 \in S
  <2>1. \A k \in 1..Len(book) : k \notin Places(asc, 0)
    BY DEF Places
  <2> QED
    BY <1>1, <2>1, SumOfNone
<1>3. ASSUME NEW k \in S PROVE k + 1 \in S
  <2> SUFFICES ASSUME k + 1 <= n
               PROVE  f[k + 1] = SumOf(book, a, Places(asc, k + 1))
    OBVIOUS
  <2>1. k \in Nat /\ k + 1 \in 1..n /\ (k + 1) - 1 = k
    BY <1>1
  <2> DEFINE one == {asc[k + 1]}
  <2>2. asc[k + 1] \in 1..Len(book)
    BY <2>1 DEF IsList
  <2>3. Parts(Places(asc, k + 1), Places(asc, k), one, Len(book))
    <3>1. \A i : i \in Places(asc, k + 1)
                   <=> (i \in Places(asc, k) \/ i = asc[k + 1])
      BY <2>1 DEF Places
    <3>2. asc[k + 1] \notin Places(asc, k)
      BY <2>1 DEF IsList, Places
    <3> QED
      BY <3>1, <3>2 DEF Parts
  <2>4. SumOf(book, a, Places(asc, k + 1))
          = SumOf(book, a, Places(asc, k)) + SumOf(book, a, one)
    <3> HIDE DEF one
    <3> QED
      BY <2>3, SumOfParts
  <2>5. SumOf(book, a, one) = Delta(book[asc[k + 1]].row, a)
    <3>1. \A i \in 1..Len(book) : i \in one <=> i = asc[k + 1]
      OBVIOUS
    <3> HIDE DEF one
    <3> QED
      BY <2>2, <3>1, SumOfOne
  <2>6. DeltasOf(asc, book, a)[k + 1] = Delta(book[asc[k + 1]].row, a)
    BY <2>1 DEF DeltasOf
  <2>7. f[k] = SumOf(book, a, Places(asc, k))
    BY <2>1
  <2> QED
    BY <1>1, <2>1, <2>4, <2>5, <2>6, <2>7
<1>4. S = Nat
  <2>1. S \in SUBSET Nat
    OBVIOUS
  <2> HIDE DEF S
  <2> QED
    BY <1>2, <1>3, <2>1, AllNumbers
<1> QED
  BY <1>4

Listed(book, asc) == [k \in DOMAIN asc |-> book[asc[k]]]

\* What the walk makes of a list of rows of a.
AreEntries(es, book, asc, a, current) ==
  /\ DOMAIN es = 1..Len(asc)
  /\ \A k \in 1..Len(asc) :
       /\ es[k].tx = book[asc[k]]
       /\ es[k].delta = Delta(book[asc[k]].row, a)
       /\ es[k].after = (current - SumOf(book, a, Places(asc, Len(asc))))
                          + SumOf(book, a, Places(asc, k))

\* f adds up the shares of a, given as d.
IsNet(rs, a, d, f) ==
  /\ rs \in Seq(Row) /\ Agree(Shares(rs, a), d, Len(rs))
  /\ SumsTo(f, d, Len(rs))

LEMMA NetIs ==
  ASSUME NEW rs, NEW a, NEW d, NEW f, IsNet(rs, a, d, f)
  PROVE  NetOf(rs, a) = f[Len(rs)]
<1> DEFINE n == Len(rs)
           e == Shares(rs, a)
<1>1. rs \in Seq(Row) /\ n \in Nat /\ n \in 0..n
      /\ Agree(e, d, n) /\ SumsTo(f, d, n)
  BY DEF IsNet
<1>2. \E g : IsSum(g, e, n) /\ NetOf(rs, a) = g[n]
  BY <1>1, NetOfIsSum
<1> HIDE DEF n, e
<1>3. PICK g : IsSum(g, e, n) /\ NetOf(rs, a) = g[n]
  BY <1>2
<1>4. SumsTo(g, e, n)
  BY <1>1, <1>3, IsSumSumsTo
<1>5. g[n] = f[n]
  BY <1>1, <1>4, SumsAgree
<1> QED
  BY <1>3, <1>5 DEF n

LEMMA EntriesAre ==
  ASSUME NEW book \in Seq(Tx3), NEW asc, IsList(asc, book), NEW a,
         NEW current \in Int,
         \A k \in 1..Len(asc) : Names(book[asc[k]].row, a)
  PROVE  AreEntries(Entries(a, current, Listed(book, asc)), book, asc, a,
                    current)
<1> DEFINE n == Len(asc)
           txs == Listed(book, asc)
           d == DeltasOf(asc, book, a)
           rs == [k \in DOMAIN txs |-> txs[k].row]
<1>1. n \in Nat /\ DOMAIN asc = 1..n /\ \A k \in 1..n : asc[k] \in 1..Len(book)
  BY DEF IsList
<1>2. /\ DOMAIN txs = 1..n /\ Len(txs) = n
      /\ \A k \in 1..n : txs[k] = book[asc[k]]
  BY <1>1 DEF Listed
<1>3. rs \in Seq(Row) /\ Len(rs) = n /\ \A k \in 1..n : rs[k] = book[asc[k]].row
  <2>1. \A k \in 1..n : book[asc[k]].row \in Row
    BY <1>1, BookRow
  <2> HIDE DEF txs
  <2> QED
    BY <1>1, <1>2, <2>1
<1>4. \A k \in 1..n : d[k] \in Int /\ d[k] = Delta(txs[k].row, a)
  BY <1>2, DeltasType DEF DeltasOf
<1>5. PICK f \in [0..n -> Int] : IsSum(f, d, n)
  BY <1>1, <1>4, SumExists
<1>6. SumsTo(f, d, n)
  <2>1. n \in 0..n
    BY <1>1
  <2> QED
    BY <1>1, <1>5, <2>1, IsSumSumsTo
<1>7. \A k \in 0..n : f[k] = SumOf(book, a, Places(asc, k))
  BY <1>6, PrefixSums
<1>8. NetOf(rs, a) = f[n]
  <2> HIDE DEF rs
  <2>1. Agree(Shares(rs, a), d, n)
    <3>1. ASSUME NEW k \in 1..n
          PROVE  Shares(rs, a)[k] = d[k]
      <4>1. Shares(rs, a)[k] = Share(rs[k], a)
        BY <1>3 DEF Shares
      <4>2. Share(rs[k], a) = Delta(rs[k], a)
        BY <1>3 DEF Share
      <4> QED
        BY <1>2, <1>3, <1>4, <4>1, <4>2
    <3> QED
      BY <3>1 DEF Agree
  <2>2. IsNet(rs, a, d, f)
    BY <1>3, <1>6, <2>1 DEF IsNet
  <2>3. NetOf(rs, a) = f[Len(rs)]
    BY <2>2, NetIs
  <2> QED
    BY <1>3, <2>3
<1> DEFINE delta == [k \in DOMAIN txs |-> Delta(txs[k].row, a)]
           c == current - NetOf(rs, a)
           walk == CHOOSE h : IsWalk(h, c, delta, Len(txs))
<1>9. Entries(a, current, txs) =
        [k \in DOMAIN txs |->
           [tx |-> txs[k], delta |-> delta[k], after |-> walk[k]]]
  <2> HIDE DEF txs
  <2> QED
    BY DEF Entries, IsWalk
<1>10. c \in Int /\ c = current - SumOf(book, a, Places(asc, n))
  <2>1. n \in 0..n /\ NetOf(rs, a) \in Int
    BY <1>1, <1>5, <1>8
  <2> QED
    BY <1>7, <1>8, <2>1
<1>11. \A k \in 0..n : walk[k] = c + f[k]
  <2>1. (\A k \in 1..n : delta[k] = d[k] /\ delta[k] \in Int) /\ Len(txs) = n
    BY <1>2, <1>4
  <2>2. SumsTo(f, delta, n)
    BY <1>6, <2>1 DEF SumsTo
  <2> HIDE DEF delta, c
  <2>3. WalkSums(f, c, delta, n)
    BY <1>1, <1>10, <2>1, <2>2 DEF WalkSums
  <2>4. \A k \in 0..n : (CHOOSE h : IsWalk(h, c, delta, n))[k] = c + f[k]
    BY <2>3, WalkIs
  <2> QED
    BY <2>1, <2>4
<1>12. ASSUME NEW k \in 1..n
       PROVE  LET e == Entries(a, current, txs)[k]
              IN /\ e.tx = book[asc[k]]
                 /\ e.delta = Delta(book[asc[k]].row, a)
                 /\ e.after = (current - SumOf(book, a, Places(asc, n)))
                                + SumOf(book, a, Places(asc, k))
  <2>1. k \in 0..n /\ k \in DOMAIN txs /\ delta[k] = Delta(book[asc[k]].row, a)
    BY <1>2
  <2>2. walk[k] = c + SumOf(book, a, Places(asc, k))
    BY <1>7, <1>11, <2>1
  <2> HIDE DEF delta, walk, c, txs
  <2> QED
    BY <1>2, <1>9, <1>10, <2>1, <2>2
<1>13. DOMAIN Entries(a, current, txs) = 1..n
  <2> HIDE DEF delta, walk, c, txs
  <2> QED
    BY <1>2, <1>9
<1> QED
  BY <1>12, <1>13 DEF AreEntries

(***************************************************************************)
(* Rows in the order of their dates.                                       *)
(***************************************************************************)

\* The ids of the books follow the commits.
IsBook(book) ==
  book \in Seq(Tx3) /\ \A i \in 1..Len(book) : book[i].id = i

\* o names the places I in the order of their dates.
IsByDate(o, I, book) ==
  /\ IsList(o, book)
  /\ \A i : i \in I <=> \E k \in 1..Len(o) : o[k] = i
  /\ \A j, k \in 1..Len(o) : Earlier(book[o[j]], book[o[k]]) <=> j < k

LEMMA EarlierOrder ==
  ASSUME NEW x \in Tx3, NEW y \in Tx3
  PROVE  ~(Earlier(x, y) /\ Earlier(y, x)) /\ ~Earlier(x, x)
<1>1. x.at \in Nat /\ y.at \in Nat /\ x.id \in Nat /\ y.id \in Nat
  BY DEF Tx3
<1> QED
  BY <1>1 DEF Earlier

LEMMA PlacesFinite ==
  ASSUME NEW n \in Nat, NEW I \in SUBSET (1..n)
  PROVE  IsFiniteSet(I) /\ Cardinality(I) \in Nat
<1>1. IsFiniteSet(1..n)
  BY FS_Interval
<1> QED
  BY <1>1, FS_Subset, FS_CardinalityType

LEMMA ByDateSorts ==
  ASSUME NEW book, IsBook(book), NEW I \in SUBSET (1..Len(book)),
         NEW o \in ByDate(I, book)
  PROVE  IsByDate(o, I, book)
<1> DEFINE R == {p \in I \X I : Earlier(book[p[1]], book[p[2]])}
<1>1. IsFiniteSet(I)
  <2>1. Len(book) \in Nat
    BY DEF IsBook
  <2> QED
    BY <2>1, PlacesFinite
<1>2. o \in Orders(I, R)
  BY DEF ByDate
<1> HIDE DEF R
<1>3. /\ o \in Seq(I) /\ Len(o) \in Nat
      /\ \A i \in 1..Len(o) : o[i] \in I
      /\ \A i, j \in 1..Len(o) : o[i] = o[j] => i = j
      /\ \A i, j \in 1..Len(o) : i < j => <<o[i], o[j]>> \in R
      /\ \A x \in I : \E i \in 1..Len(o) : o[i] = x
  BY <1>1, <1>2, OrderHas
<1>4. IsList(o, book)
  <2>1. o \in Seq(1..Len(book))
    <3>1. o = [i \in 1..Len(o) |-> o[i]] /\ \A i \in 1..Len(o) : o[i] \in 1..Len(book)
      BY <1>3
    <3> QED
      BY <1>3, <3>1
  <2> QED
    BY <1>3, <2>1 DEF IsList
<1>5. ASSUME NEW j \in 1..Len(o), NEW k \in 1..Len(o)
      PROVE  Earlier(book[o[j]], book[o[k]]) <=> j < k
  <2>1. book[o[j]] \in Tx3 /\ book[o[k]] \in Tx3
    <3>1. o[j] \in 1..Len(book) /\ o[k] \in 1..Len(book) /\ book \in Seq(Tx3)
      BY <1>3 DEF IsBook
    <3> QED
      BY <3>1
  <2>2. j < k => Earlier(book[o[j]], book[o[k]])
    BY <1>3 DEF R
  <2>3. k < j => Earlier(book[o[k]], book[o[j]])
    BY <1>3 DEF R
  <2>4. j \in Int /\ k \in Int
    BY <1>3
  <2>5. CASE j < k
    BY <2>2, <2>5
  <2>6. CASE k < j
    BY <2>1, <2>3, <2>4, <2>6, EarlierOrder
  <2>7. CASE j = k
    BY <2>1, <2>4, <2>7, EarlierOrder
  <2> QED
    BY <2>4, <2>5, <2>6, <2>7
<1>6. \A i : i \in I <=> \E k \in 1..Len(o) : o[k] = i
  BY <1>3
<1> QED
  BY <1>4, <1>5, <1>6 DEF IsByDate

\* The places of I that come before the x-th row, and after it.
Below(I, book, x) == {i \in I : Earlier(book[i], book[x])}
Above(I, book, x) == {i \in I : Later(book[i], book[x])}

\* As many come before a row, or after it, as its place says.
LEMMA Ranks ==
  ASSUME NEW book, NEW I, NEW o, IsByDate(o, I, book), NEW k \in 1..Len(o)
  PROVE  /\ IsFiniteSet(I) /\ Cardinality(I) = Len(o)
         /\ Cardinality(Below(I, book, o[k])) = k - 1
         /\ Cardinality(Above(I, book, o[k])) = Len(o) - k
<1> DEFINE n == Len(o)
           Low == {i \in I : Earlier(book[i], book[o[k]])}
           High == {i \in I : Later(book[i], book[o[k]])}
<1>1. n \in Nat /\ k \in Nat /\ k - 1 \in Nat /\ k + 1 \in Nat /\ k <= n
  BY DEF IsByDate, IsList
<1>2. /\ \A i, j \in 1..n : o[i] = o[j] => i = j
      /\ \A i, j \in 1..n : Earlier(book[o[i]], book[o[j]]) <=> i < j
      /\ \A i : i \in I <=> \E j \in 1..n : o[j] = i
  BY DEF IsByDate, IsList
<1>3. IsFiniteSet(I) /\ Cardinality(I) = n
  <2>1. \A i : i \in I <=> \E j \in 1..n : i = o[j]
    BY <1>2
  <2>2. 1 \in Nat /\ 1 <= n + 1 /\ (n - 1) + 1 = n
    BY <1>1
  <2>0. IsStretch(I, o, 1, n)
    BY <1>1, <1>2, <2>1, <2>2 DEF IsStretch
  <2> HIDE DEF n
  <2>3. IsFiniteSet(I) /\ Cardinality(I) = (n - 1) + 1
    BY <2>0, StretchCounts
  <2> QED
    BY <2>2, <2>3
<1>4. Cardinality(Low) = k - 1
  <2> DEFINE m == k - 1
  <2>1. ASSUME NEW i
        PROVE  i \in Low <=> \E j \in 1..m : i = o[j]
    <3>1. ASSUME i \in Low
          PROVE  \E j \in 1..m : i = o[j]
      <4>1. PICK j \in 1..n : o[j] = i
        BY <1>2, <3>1
      <4>2. j < k
        BY <1>2, <3>1, <4>1
      <4> QED
        BY <1>1, <4>1, <4>2
    <3>2. ASSUME NEW j \in 1..m, i = o[j]
          PROVE  i \in Low
      <4>1. j \in 1..n /\ j < k
        BY <1>1
      <4> QED
        BY <1>2, <3>2, <4>1
    <3> QED
      BY <3>1, <3>2
  <2>2. \A i, j \in 1..m : o[i] = o[j] => i = j
    BY <1>1, <1>2
  <2>3. m \in Nat /\ 1 <= m + 1 /\ (m - 1) + 1 = m
    BY <1>1
  <2> HIDE DEF m, Low
  <2>5. IsStretch(Low, o, 1, m)
    BY <2>1, <2>2, <2>3 DEF IsStretch
  <2>4. Cardinality(Low) = (m - 1) + 1
    BY <2>5, StretchCounts
  <2> QED
    BY <2>3, <2>4 DEF m
<1>5. Cardinality(High) = n - k
  <2> DEFINE m == k + 1
  <2>1. ASSUME NEW i
        PROVE  i \in High <=> \E j \in m..n : i = o[j]
    <3>1. ASSUME i \in High
          PROVE  \E j \in m..n : i = o[j]
      <4>1. PICK j \in 1..n : o[j] = i
        BY <1>2, <3>1
      <4>2. k < j
        BY <1>2, <3>1, <4>1 DEF Later
      <4> QED
        BY <1>1, <4>1, <4>2
    <3>2. ASSUME NEW j \in m..n, i = o[j]
          PROVE  i \in High
      <4>1. j \in 1..n /\ k < j
        BY <1>1
      <4> QED
        BY <1>2, <3>2, <4>1 DEF Later
    <3> QED
      BY <3>1, <3>2
  <2>2. \A i, j \in m..n : o[i] = o[j] => i = j
    BY <1>1, <1>2
  <2>3. m \in Nat /\ m <= n + 1 /\ (n - m) + 1 = n - k
    BY <1>1
  <2> HIDE DEF m, High, n
  <2>5. IsStretch(High, o, m, n)
    BY <1>1, <2>1, <2>2, <2>3 DEF IsStretch
  <2>4. Cardinality(High) = (n - m) + 1
    BY <2>5, StretchCounts
  <2> QED
    BY <2>3, <2>4
<1> QED
  BY <1>3, <1>4, <1>5 DEF Below, Above

(***************************************************************************)
(* What a statement says.                                                  *)
(***************************************************************************)

LEMMA Stretch ==
  ASSUME NEW S, NEW s, NEW m \in Int, NEW n \in Int,
         \A i \in m..n : s[i] \in S
  PROVE  /\ SubSeq(s, m, n) \in Seq(S)
         /\ Len(SubSeq(s, m, n)) = IF m <= n THEN n - m + 1 ELSE 0
         /\ \A i \in 1..(n - m + 1) : SubSeq(s, m, n)[i] = s[m + i - 1]
BY SubSeqProperties

LEMMA OffsetLimit ==
  ASSUME NEW b, NEW q \in Query
  PROVE  Offset(q) \in Nat /\ Limit(b, q) \in Nat
<1>1. q.offset \in Int \cup {Absent} /\ q.limit \in Int \cup {Absent}
  BY DEF Query
<1> QED
  BY <1>1, StatementsAssumption DEF Offset, Limit

\* Where the list of all that is to be shown, oldest first, has item i.
PlaceOf(q, total, i) ==
  IF q.newest THEN (total - (Offset(q) + i)) + 1 ELSE Offset(q) + i

LastOf(b, q, total) ==
  IF Offset(q) + Limit(b, q) < total THEN Offset(q) + Limit(b, q) ELSE total

\* res shows the page of asc that is asked for.
Shows(res, b, q, asc) ==
  LET total == Len(asc)
  IN /\ res.total = total
     /\ Len(res.items) = IF Offset(q) + 1 <= LastOf(b, q, total)
                         THEN LastOf(b, q, total) - Offset(q) ELSE 0
     /\ \A i \in 1..Len(res.items) :
          /\ Offset(q) + i \in 1..total
          /\ res.items[i] = asc[PlaceOf(q, total, i)]
     /\ (res.bounds = <<>>) <=> (total = 0)
     /\ total # 0 =>
          /\ res.bounds[1] = asc[1].after - asc[1].delta
          /\ res.bounds[2] = asc[total].after

Picked(entries, kept) == [k \in DOMAIN kept |-> entries[kept[k]]]

LEMMA StatementShows ==
  ASSUME NEW b, NEW q \in Query, NEW entries, NEW kept,
         Len(kept) \in Nat, DOMAIN kept = 1..Len(kept)
  PROVE  Shows(Statement(b, q, entries, kept), b, q, Picked(entries, kept))
<1> DEFINE asc == Picked(entries, kept)
           n == Len(kept)
           off == Offset(q)
           last == LastOf(b, q, n)
           shown == IF q.newest THEN Reverse(asc) ELSE asc
           res == Statement(b, q, entries, kept)
<1>1. n \in Nat /\ off \in Nat /\ Limit(b, q) \in Nat
  BY OffsetLimit
<1>2. last \in Nat /\ last <= n
  BY <1>1 DEF LastOf
<1>3. /\ asc = [k \in 1..n |-> entries[kept[k]]]
      /\ Len(asc) = n /\ DOMAIN asc = 1..n
  BY <1>1 DEF Picked
<1>4. /\ Len(shown) = n
      /\ \A k \in 1..n : shown[k] = asc[IF q.newest THEN (n - k) + 1 ELSE k]
  <2>0. Len(asc) = n
    BY <1>3
  <2> HIDE DEF asc, n
  <2>1. Reverse(asc) = [k \in 1..n |-> asc[(n - k) + 1]]
    BY <2>0, Zenon DEF Reverse
  <2>2. Len(Reverse(asc)) = n
    BY <1>1, <2>1
  <2> QED
    BY <1>1, <1>3, <2>1, <2>2
<1>5. /\ res.items = Page(b, q, shown) /\ res.total = Len(asc)
      /\ res.bounds = IF asc = <<>> THEN <<>>
                      ELSE <<asc[1].after - asc[1].delta, asc[Len(asc)].after>>
  BY DEF Statement, Picked
<1> HIDE DEF asc, n, off, last, shown, res
<1>6. Page(b, q, shown) = SubSeq(shown, off + 1, last)
  BY <1>4 DEF Page, LastOf, off, last
<1>7. /\ Len(res.items) = IF off + 1 <= last THEN last - off ELSE 0
      /\ \A i \in 1..(last - off) : res.items[i] = shown[off + i]
  <2> DEFINE S == {shown[k] : k \in 1..n}
             m == off + 1
  <2>1. m \in Int /\ last \in Int /\ \A k \in m..last : shown[k] \in S
    BY <1>1, <1>2
  <2> HIDE DEF S, m
  <2>2. /\ Len(SubSeq(shown, m, last)) = IF m <= last THEN last - m + 1 ELSE 0
        /\ \A i \in 1..(last - m + 1) :
             SubSeq(shown, m, last)[i] = shown[m + i - 1]
    BY <2>1, Stretch
  <2>3. (last - m) + 1 = last - off
    BY <1>1, <1>2 DEF m
  <2>4. \A i \in 1..(last - off) : (m + i) - 1 = off + i
    BY <1>1, <1>2 DEF m
  <2> QED
    BY <1>1, <1>2, <1>5, <1>6, <2>2, <2>3, <2>4 DEF m
<1>8. ASSUME NEW i \in 1..Len(res.items)
      PROVE  /\ off + i \in 1..n
             /\ res.items[i] = asc[IF q.newest THEN (n - (off + i)) + 1
                                   ELSE off + i]
  <2>1. i \in 1..(last - off) /\ off + i \in 1..n
    BY <1>1, <1>2, <1>7
  <2> QED
    BY <1>4, <1>7, <2>1
<1>9. (asc = <<>>) <=> (n = 0)
  BY <1>1, <1>3
<1>10. /\ (res.bounds = <<>>) <=> (n = 0)
       /\ n # 0 => /\ res.bounds[1] = asc[1].after - asc[1].delta
                   /\ res.bounds[2] = asc[n].after
  BY <1>3, <1>5, <1>9
<1> QED
  BY <1>3, <1>5, <1>7, <1>8, <1>10
     DEF Shows, PlaceOf, asc, n, off, last, res

\* The entries that are kept, by the places of their rows in the books.
LEMMA KeptSorted ==
  ASSUME NEW b, NEW book, IsBook(book), NEW q \in Query, NEW current \in Int,
         NEW asc \in ByDate(ListOf(book, q.account), book),
         NEW entries, AreEntries(entries, book, asc, q.account, current),
         NEW kept \in ByDate(Kept(b, q, entries), Listed(book, asc))
  PROVE  /\ kept \in Seq(1..Len(asc))
         /\ IsByDate(Picked(asc, kept), Wanted(b, book, Len(book), q), book)
<1> DEFINE a == q.account
           txs == Listed(book, asc)
           K == Kept(b, q, entries)
           R == {p \in K \X K : Earlier(txs[p[1]], txs[p[2]])}
           o == Picked(asc, kept)
           W == Wanted(b, book, Len(book), q)
<1>1. book \in Seq(Tx3) /\ Len(book) \in Nat /\ DOMAIN book = 1..Len(book)
  BY DEF IsBook
<1>2. IsByDate(asc, ListOf(book, a), book)
  <2>1. ListOf(book, a) \in SUBSET (1..Len(book))
    BY <1>1 DEF ListOf
  <2> QED
    BY <2>1, ByDateSorts
<1>3. /\ asc \in Seq(1..Len(book)) /\ Len(asc) \in Nat /\ DOMAIN asc = 1..Len(asc)
      /\ \A j, k \in 1..Len(asc) : asc[j] = asc[k] => j = k
      /\ \A i : i \in ListOf(book, a) <=> \E k \in 1..Len(asc) : asc[k] = i
      /\ \A j, k \in 1..Len(asc) : Earlier(book[asc[j]], book[asc[k]]) <=> j < k
  BY <1>2 DEF IsByDate, IsList
<1>4. \A k : k \in K <=> k \in 1..Len(asc) /\ Matches(b, q, book[asc[k]])
  BY DEF Kept, AreEntries
<1>5. IsFiniteSet(K)
  <2>1. K \in SUBSET (1..Len(asc))
    BY <1>4
  <2> HIDE DEF K
  <2> QED
    BY <1>3, <2>1, PlacesFinite
<1>6. kept \in Orders(K, R)
  BY DEF ByDate
<1>7. \A p : p \in R => p[1] \in 1..Len(asc) /\ p[2] \in 1..Len(asc) /\ p[1] < p[2]
  <2> SUFFICES ASSUME NEW j \in K, NEW k \in K, Earlier(txs[j], txs[k])
               PROVE  j \in 1..Len(asc) /\ k \in 1..Len(asc) /\ j < k
    OBVIOUS
  <2>1. j \in 1..Len(asc) /\ k \in 1..Len(asc)
    BY <1>4
  <2>2. txs[j] = book[asc[j]] /\ txs[k] = book[asc[k]]
    BY <1>3, <2>1 DEF Listed
  <2> QED
    BY <1>3, <2>1, <2>2
<1> HIDE DEF K, R
<1>8. /\ kept \in Seq(K) /\ Len(kept) \in Nat /\ DOMAIN kept = 1..Len(kept)
      /\ \A i \in 1..Len(kept) : kept[i] \in K
      /\ \A i, j \in 1..Len(kept) : kept[i] = kept[j] => i = j
      /\ \A i, j \in 1..Len(kept) : i < j => <<kept[i], kept[j]>> \in R
      /\ \A x \in K : \E i \in 1..Len(kept) : kept[i] = x
  BY <1>5, <1>6, OrderHas
<1>9. kept \in Seq(1..Len(asc))
  <2>1. /\ kept = [i \in 1..Len(kept) |-> kept[i]]
        /\ \A i \in 1..Len(kept) : kept[i] \in 1..Len(asc)
    BY <1>4, <1>8
  <2> QED
    BY <1>8, <2>1
<1>10. /\ DOMAIN o = 1..Len(kept) /\ Len(o) = Len(kept)
       /\ \A k \in 1..Len(kept) : o[k] = asc[kept[k]] /\ o[k] \in 1..Len(book)
  <2>1. \A k \in 1..Len(kept) : kept[k] \in 1..Len(asc)
    BY <1>4, <1>8
  <2>2. o = [k \in 1..Len(kept) |-> asc[kept[k]]]
    BY <1>8 DEF Picked
  <2> HIDE DEF o
  <2> QED
    BY <1>3, <1>8, <2>1, <2>2
<1>11. IsList(o, book)
  <2>1. o \in Seq(1..Len(book))
    <3>1. o = [k \in 1..Len(kept) |-> o[k]]
      BY <1>10 DEF Picked
    <3> HIDE DEF o
    <3> QED
      BY <1>8, <1>10, <3>1
  <2>2. ASSUME NEW j \in 1..Len(o), NEW k \in 1..Len(o), o[j] = o[k]
        PROVE  j = k
    <3>1. kept[j] \in 1..Len(asc) /\ kept[k] \in 1..Len(asc)
          /\ asc[kept[j]] = asc[kept[k]]
      BY <1>4, <1>8, <1>10, <2>2
    <3> HIDE DEF o
    <3> QED
      BY <1>3, <1>8, <1>10, <3>1
  <2> HIDE DEF o
  <2> QED
    BY <2>1, <2>2 DEF IsList
<1>12. ASSUME NEW i
       PROVE  i \in W <=> \E k \in 1..Len(o) : o[k] = i
  <2>1. i \in W <=> i \in ListOf(book, a) /\ Matches(b, q, book[i])
    BY <1>1 DEF Wanted, Booked, ListOf
  <2>2. ASSUME i \in W
        PROVE  \E k \in 1..Len(o) : o[k] = i
    <3>1. PICK j \in 1..Len(asc) : asc[j] = i
      BY <1>3, <2>1, <2>2
    <3>2. j \in K
      BY <1>4, <2>1, <2>2, <3>1
    <3>3. PICK k \in 1..Len(kept) : kept[k] = j
      BY <1>8, <3>2
    <3> QED
      BY <1>10, <3>1, <3>3
  <2>3. ASSUME NEW k \in 1..Len(o), o[k] = i
        PROVE  i \in W
    <3>1. kept[k] \in K /\ asc[kept[k]] = i
      BY <1>8, <1>10, <2>3
    <3>2. kept[k] \in 1..Len(asc) /\ Matches(b, q, book[i])
      BY <1>4, <3>1
    <3>3. i \in ListOf(book, a)
      BY <1>3, <3>1, <3>2
    <3> QED
      BY <2>1, <3>2, <3>3
  <2> HIDE DEF o, W
  <2> QED
    BY <2>2, <2>3
<1>13. ASSUME NEW j \in 1..Len(o), NEW k \in 1..Len(o)
       PROVE  Earlier(book[o[j]], book[o[k]]) <=> j < k
  <2>1. j \in 1..Len(kept) /\ k \in 1..Len(kept) /\ j \in Int /\ k \in Int
    BY <1>10
  <2>2. /\ kept[j] \in 1..Len(asc) /\ kept[k] \in 1..Len(asc)
        /\ kept[j] \in Int /\ kept[k] \in Int
    BY <1>4, <1>8, <2>1
  <2>3. Earlier(book[o[j]], book[o[k]]) <=> kept[j] < kept[k]
    BY <1>3, <1>10, <2>1, <2>2
  <2>4. j < k => kept[j] < kept[k]
    <3>1. j < k => <<kept[j], kept[k]>> \in R
      BY <1>8, <2>1
    <3>2. <<kept[j], kept[k]>>[1] = kept[j] /\ <<kept[j], kept[k]>>[2] = kept[k]
      OBVIOUS
    <3> QED
      BY <1>7, <3>1, <3>2, Zenon
  <2>5. k < j => kept[k] < kept[j]
    <3>1. k < j => <<kept[k], kept[j]>> \in R
      BY <1>8, <2>1
    <3>2. <<kept[k], kept[j]>>[1] = kept[k] /\ <<kept[k], kept[j]>>[2] = kept[j]
      OBVIOUS
    <3> QED
      BY <1>7, <3>1, <3>2, Zenon
  <2>6. j = k => kept[j] = kept[k]
    OBVIOUS
  <2> HIDE DEF o
  <2> QED
    BY <2>1, <2>2, <2>3, <2>4, <2>5, <2>6
<1>14. IsByDate(o, W, book)
  <2> HIDE DEF o, W
  <2> QED
    BY <1>11, <1>12, <1>13 DEF IsByDate
<1> QED
  BY <1>9, <1>14

\* A statement of the books, of an account that had `current` when the first m
\* rows were there.
IsReading(b, book, q, m, current, asc, entries, kept) ==
  /\ IsBook(book) /\ q \in Query /\ current \in Int
  /\ m \in 0..Len(book) /\ q.account # Bank
  /\ current = Opening[q.account]
                 + SumOf(book, q.account, Booked(book, m, q.account))
  /\ asc \in ByDate(ListOf(book, q.account), book)
  /\ entries = Entries(q.account, current, Listed(book, asc))
  /\ kept \in ByDate(Kept(b, q, entries), Listed(book, asc))

LEMMA ReadingSorted ==
  ASSUME NEW book, IsBook(book), NEW a, NEW asc \in ByDate(ListOf(book, a), book)
  PROVE  /\ IsByDate(asc, Booked(book, Len(book), a), book)
         /\ Len(asc) \in Nat /\ DOMAIN asc = 1..Len(asc)
         /\ \A k \in 1..Len(asc) : /\ asc[k] \in 1..Len(book)
                                   /\ Names(book[asc[k]].row, a)
<1>1. /\ ListOf(book, a) \in SUBSET (1..Len(book))
      /\ ListOf(book, a) = Booked(book, Len(book), a)
  BY DEF IsBook, ListOf, Booked
<1>2. IsByDate(asc, ListOf(book, a), book)
  BY <1>1, ByDateSorts
<1>3. /\ asc \in Seq(1..Len(book))
      /\ \A k \in 1..Len(asc) : asc[k] \in ListOf(book, a)
  BY <1>2 DEF IsByDate, IsList
<1>4. Len(asc) \in Nat /\ DOMAIN asc = 1..Len(asc)
  BY <1>3
<1>5. \A k \in 1..Len(asc) : asc[k] \in 1..Len(book) /\ Names(book[asc[k]].row, a)
  BY <1>1, <1>3 DEF ListOf
<1> QED
  BY <1>1, <1>2, <1>4, <1>5

\* Each entry has the balance after it, less what was missed.
LEMMA EntriesExplained ==
  ASSUME NEW b, NEW book, NEW q, NEW m, NEW current, NEW asc, NEW entries,
         NEW kept, IsReading(b, book, q, m, current, asc, entries, kept)
  PROVE  LET n == Len(book)
             a == q.account
         IN /\ AreEntries(entries, book, asc, a, current)
            /\ \A k \in 1..Len(asc) :
                 entries[k].after = BalanceAfter(book, n, a, book[asc[k]])
                                      - Missed(book, m, n, a)
<1> DEFINE n == Len(book)
           a == q.account
<1>1. /\ IsBook(book) /\ q \in Query /\ current \in Int /\ m \in 0..n
      /\ current = Opening[a] + SumOf(book, a, Booked(book, m, a))
      /\ asc \in ByDate(ListOf(book, a), book)
      /\ entries = Entries(a, current, Listed(book, asc))
  BY DEF IsReading
<1>2. book \in Seq(Tx3) /\ n \in Nat /\ a \in Accounts
  BY <1>1 DEF IsBook, Query
<1>3. /\ IsByDate(asc, Booked(book, n, a), book)
      /\ Len(asc) \in Nat /\ DOMAIN asc = 1..Len(asc)
      /\ \A k \in 1..Len(asc) : /\ asc[k] \in 1..n
                                /\ Names(book[asc[k]].row, a)
  BY <1>1, ReadingSorted
<1>4. /\ IsList(asc, book)
      /\ \A i : i \in Booked(book, n, a) <=> \E k \in 1..Len(asc) : asc[k] = i
      /\ \A j, k \in 1..Len(asc) : Earlier(book[asc[j]], book[asc[k]]) <=> j < k
  BY <1>3 DEF IsByDate
<1>5. AreEntries(entries, book, asc, a, current)
  BY <1>1, <1>2, <1>3, <1>4, EntriesAre
<1>6. Places(asc, Len(asc)) = Booked(book, n, a)
  <2>1. \A i : i \in Places(asc, Len(asc)) <=> \E k \in 1..Len(asc) : asc[k] = i
    BY DEF Places
  <2> QED
    BY <1>4, <2>1
<1>7. ASSUME NEW k \in 1..Len(asc)
      PROVE  Places(asc, k) = UpToTx(book, n, a, book[asc[k]])
  <2>1. ASSUME NEW i
        PROVE  i \in Places(asc, k) <=> i \in UpToTx(book, n, a, book[asc[k]])
    <3>1. i \in UpToTx(book, n, a, book[asc[k]])
            <=> i \in Booked(book, n, a) /\ ~Earlier(book[asc[k]], book[i])
      BY DEF UpToTx, Later
    <3>2. ASSUME i \in Places(asc, k)
          PROVE  i \in Booked(book, n, a) /\ ~Earlier(book[asc[k]], book[i])
      <4>1. PICK j \in 1..k : asc[j] = i
        BY <3>2 DEF Places
      <4>2. j \in 1..Len(asc) /\ ~(k < j)
        BY <1>3, <4>1
      <4> QED
        BY <1>4, <4>1, <4>2
    <3>3. ASSUME i \in Booked(book, n, a), ~Earlier(book[asc[k]], book[i])
          PROVE  i \in Places(asc, k)
      <4>1. PICK j \in 1..Len(asc) : asc[j] = i
        BY <1>4, <3>3
      <4>2. ~(k < j)
        BY <1>4, <3>3, <4>1
      <4>3. j \in 1..k
        BY <1>3, <4>1, <4>2
      <4> QED
        BY <4>1, <4>3 DEF Places
    <3> QED
      BY <3>1, <3>2, <3>3
  <2> QED
    BY <2>1
<1>8. SumOf(book, a, Booked(book, n, a))
        = SumOf(book, a, Booked(book, m, a)) + Missed(book, m, n, a)
  <2>1. Parts(Booked(book, n, a), Booked(book, m, a),
              Booked(book, n, a) \ (1..m), n)
    BY <1>1, <1>2 DEF Parts, Booked
  <2> QED
    BY <1>2, <2>1, SumOfParts DEF Missed
<1>9. ASSUME NEW k \in 1..Len(asc)
      PROVE  entries[k].after = BalanceAfter(book, n, a, book[asc[k]])
                                  - Missed(book, m, n, a)
  <2>1. entries[k].after = (current - SumOf(book, a, Booked(book, n, a)))
                             + SumOf(book, a, UpToTx(book, n, a, book[asc[k]]))
    BY <1>5, <1>6, <1>7 DEF AreEntries
  <2>2. /\ SumOf(book, a, Booked(book, m, a)) \in Int
        /\ SumOf(book, a, UpToTx(book, n, a, book[asc[k]])) \in Int
        /\ Missed(book, m, n, a) \in Int
    BY <1>2, SumOfType DEF Missed
  <2>3. Opening[a] \in Int
    BY <1>2, PostingAssumption
  <2>4. BalanceAfter(book, n, a, book[asc[k]])
          = Opening[a] + SumOf(book, a, UpToTx(book, n, a, book[asc[k]]))
    BY DEF BalanceAfter
  <2>5. /\ current = Opening[a] + SumOf(book, a, Booked(book, m, a))
        /\ SumOf(book, a, Booked(book, n, a))
             = SumOf(book, a, Booked(book, m, a)) + Missed(book, m, n, a)
    BY <1>1, <1>8
  <2> DEFINE s == SumOf(book, a, Booked(book, m, a))
             all == SumOf(book, a, Booked(book, n, a))
             u == SumOf(book, a, UpToTx(book, n, a, book[asc[k]]))
             late == Missed(book, m, n, a)
             first == Opening[a]
  <2> HIDE DEF s, all, u, late, first
  <2>6. (current - all) + u = (first + u) - late
    BY <2>2, <2>3, <2>5 DEF s, all, u, late, first
  <2> QED
    BY <2>1, <2>4, <2>6 DEF all, u, late, first
<1> QED
  BY <1>5, <1>9

\* What there is to know of the list that is shown.
LEMMA ReadingShown ==
  ASSUME NEW b, NEW book, NEW q, NEW m, NEW current, NEW asc, NEW entries,
         NEW kept, IsReading(b, book, q, m, current, asc, entries, kept)
  PROVE  LET n == Len(book)
             a == q.account
             all == Picked(entries, kept)
             o == Picked(asc, kept)
         IN /\ Shows(Statement(b, q, entries, kept), b, q, all)
            /\ IsByDate(o, Wanted(b, book, n, q), book)
            /\ Len(all) = Len(o) /\ Len(o) \in Nat
            /\ \A k \in 1..Len(o) :
                 /\ all[k].tx = book[o[k]]
                 /\ all[k].delta = Delta(book[o[k]].row, a)
                 /\ all[k].after = BalanceAfter(book, n, a, book[o[k]])
                                     - Missed(book, m, n, a)
<1> DEFINE n == Len(book)
           a == q.account
           all == Picked(entries, kept)
           o == Picked(asc, kept)
<1>1. /\ IsBook(book) /\ q \in Query /\ current \in Int
      /\ asc \in ByDate(ListOf(book, a), book)
      /\ kept \in ByDate(Kept(b, q, entries), Listed(book, asc))
  BY DEF IsReading
<1>2. /\ AreEntries(entries, book, asc, a, current)
      /\ \A k \in 1..Len(asc) :
           entries[k].after = BalanceAfter(book, n, a, book[asc[k]])
                                - Missed(book, m, n, a)
  BY EntriesExplained
<1>3. /\ kept \in Seq(1..Len(asc))
      /\ IsByDate(o, Wanted(b, book, n, q), book)
  BY <1>1, <1>2, KeptSorted
<1>4. Len(kept) \in Nat /\ DOMAIN kept = 1..Len(kept)
      /\ \A k \in 1..Len(kept) : kept[k] \in 1..Len(asc)
  BY <1>3
<1>5. Shows(Statement(b, q, entries, kept), b, q, all)
  BY <1>1, <1>4, StatementShows
<1>6. /\ Len(all) = Len(kept) /\ Len(o) = Len(kept)
      /\ \A k \in 1..Len(kept) : all[k] = entries[kept[k]] /\ o[k] = asc[kept[k]]
  BY <1>4 DEF Picked
<1>7. ASSUME NEW k \in 1..Len(o)
      PROVE  /\ all[k].tx = book[o[k]]
             /\ all[k].delta = Delta(book[o[k]].row, a)
             /\ all[k].after = BalanceAfter(book, n, a, book[o[k]])
                                 - Missed(book, m, n, a)
  <2>1. kept[k] \in 1..Len(asc) /\ all[k] = entries[kept[k]] /\ o[k] = asc[kept[k]]
    BY <1>4, <1>6
  <2> HIDE DEF all, o
  <2> QED
    BY <1>2, <2>1 DEF AreEntries
<1> HIDE DEF all, o
<1> QED
  BY <1>3, <1>4, <1>5, <1>6, <1>7 DEF all, o

LEMMA SortedCounts ==
  ASSUME NEW book, NEW I, NEW o, IsByDate(o, I, book)
  PROVE  Cardinality(I) = Len(o) /\ IsFiniteSet(I)
<1>1. Len(o) \in Nat
  BY DEF IsByDate, IsList
<1>2. CASE Len(o) = 0
  <2>1. I = {}
    BY <1>2 DEF IsByDate
  <2> QED
    BY <1>2, <2>1, FS_EmptySet
<1>3. CASE Len(o) # 0
  <2>1. 1 \in 1..Len(o)
    BY <1>1, <1>3
  <2> QED
    BY <2>1, Ranks
<1> QED
  BY <1>2, <1>3

\* What is shown of the page that begins after `off` rows.
LEMMA PageCounts ==
  ASSUME NEW off \in Nat, NEW lim \in Nat, NEW n \in Nat
  PROVE  LET last == IF off + lim < n THEN off + lim ELSE n
         IN Cardinality(((off + 1)..(off + lim)) \cap (1..n))
              = IF off + 1 <= last THEN last - off ELSE 0
<1> DEFINE last == IF off + lim < n THEN off + lim ELSE n
           I == ((off + 1)..(off + lim)) \cap (1..n)
<1>1. last \in Int /\ off + 1 \in Int
  OBVIOUS
<1>2. I = (off + 1)..last
  OBVIOUS
<1> HIDE DEF last, I
<1>3. Cardinality((off + 1)..last)
        = IF off + 1 > last THEN 0 ELSE (last - (off + 1)) + 1
  BY <1>1, FS_Interval
<1>4. (IF off + 1 > last THEN 0 ELSE (last - (off + 1)) + 1)
        = IF off + 1 <= last THEN last - off ELSE 0
  BY <1>1
<1>5. Cardinality(I) = IF off + 1 <= last THEN last - off ELSE 0
  BY <1>2, <1>3, <1>4
<1> QED
  BY <1>5 DEF I, last

\* The page has the rows of the ranks asked for.
LEMMA ReadingPaged ==
  ASSUME NEW b, NEW book, NEW q, NEW m, NEW current, NEW asc, NEW entries,
         NEW kept, IsReading(b, book, q, m, current, asc, entries, kept)
  PROVE  PagedBy(b, book, q, Statement(b, q, entries, kept), Len(book))
<1> DEFINE n == Len(book)
           all == Picked(entries, kept)
           o == Picked(asc, kept)
           W == Wanted(b, book, n, q)
           res == Statement(b, q, entries, kept)
           N == Len(o)
           off == Offset(q)
           lim == Limit(b, q)
           last == LastOf(b, q, N)
<1>1. /\ Shows(res, b, q, all) /\ IsByDate(o, W, book)
      /\ Len(all) = N /\ N \in Nat
      /\ \A k \in 1..N : all[k].tx = book[o[k]]
  BY ReadingShown
<1>2. off \in Nat /\ lim \in Nat
  BY OffsetLimit DEF IsReading
<1> HIDE DEF all, o, W, res, N
<1>3. Cardinality(W) = N
  BY <1>1, SortedCounts DEF N
<1>4. /\ res.total = N
      /\ Len(res.items) = IF off + 1 <= last THEN last - off ELSE 0
      /\ \A i \in 1..Len(res.items) :
           /\ off + i \in 1..N
           /\ res.items[i] = all[PlaceOf(q, N, i)]
  BY <1>1 DEF Shows
<1> HIDE DEF off, lim
<1>5. last = IF off + lim < N THEN off + lim ELSE N
  BY DEF LastOf, off, lim
<1> HIDE DEF last
<1>6. Len(res.items) = Cardinality(((off + 1)..(off + lim)) \cap (1..res.total))
  <2>1. Cardinality(((off + 1)..(off + lim)) \cap (1..N))
          = IF off + 1 <= last THEN last - off ELSE 0
    BY <1>1, <1>2, <1>5, PageCounts
  <2> QED
    BY <1>4, <2>1
<1>7. ASSUME NEW i \in W,
             Cardinality(Ahead(b, book, n, q, i)) + 1 \in (off + 1)..(off + lim)
      PROVE  res.items[(Cardinality(Ahead(b, book, n, q, i)) + 1) - off].tx
               = book[i]
  <2>1. PICK k \in 1..N : o[k] = i
    BY <1>1 DEF IsByDate, N
  <2>2. /\ Cardinality(Below(W, book, o[k])) = k - 1
        /\ Cardinality(Above(W, book, o[k])) = N - k
    <3>1. IsByDate(o, W, book) /\ k \in 1..Len(o)
      BY <1>1, <2>1 DEF N
    <3>2. /\ Cardinality(Below(W, book, o[k])) = k - 1
          /\ Cardinality(Above(W, book, o[k])) = Len(o) - k
      BY <3>1, Ranks
    <3> QED
      BY <3>2 DEF N
  <2> DEFINE rank == Cardinality(Ahead(b, book, n, q, i)) + 1
             x == rank - off
  <2>3. rank = IF q.newest THEN (N - k) + 1 ELSE k
    <3>1. CASE q.newest
      <4>1. Ahead(b, book, n, q, i) = Above(W, book, o[k])
        BY <2>1, <3>1 DEF Ahead, Above, W
      <4> QED
        BY <2>2, <3>1, <4>1
    <3>2. CASE ~q.newest
      <4>1. Ahead(b, book, n, q, i) = Below(W, book, o[k])
        BY <2>1, <3>2 DEF Ahead, Below, W
      <4>2. (k - 1) + 1 = k
        BY <1>1
      <4> QED
        BY <2>2, <3>2, <4>1, <4>2
    <3> QED
      BY <3>1, <3>2
  <2>4. rank \in (off + 1)..(off + lim)
    BY <1>7
  <2> HIDE DEF rank
  <2>5. rank \in 1..N /\ rank \in Int
    BY <1>1, <2>3
  <2>6. last \in Int /\ rank <= last /\ off + 1 <= last
    <3>1. last \in Int
      BY <1>1, <1>2, <1>5
    <3>2. rank <= off + lim /\ rank <= N /\ off + 1 <= rank
      BY <1>1, <1>2, <2>4, <2>5
    <3>3. rank <= last
      BY <1>5, <3>2
    <3> QED
      BY <1>2, <2>5, <3>1, <3>2, <3>3
  <2>7. x \in 1..Len(res.items) /\ off + x = rank
    BY <1>2, <1>4, <2>4, <2>5, <2>6
  <2>8. PlaceOf(q, N, x) = k
    <3>1. off + x = rank /\ (N - ((N - k) + 1)) + 1 = k
      BY <1>1, <2>7
    <3> QED
      BY <2>3, <3>1 DEF PlaceOf, off
  <2>9. res.items[x] = all[k]
    BY <1>4, <2>7, <2>8
  <2> QED
    BY <1>1, <2>1, <2>9 DEF rank
<1> QED
  BY <1>3, <1>4, <1>6, <1>7 DEF PagedBy, W, off, lim, res

\* Every balance that is shown is explained by the books.
LEMMA ReadingExplained ==
  ASSUME NEW b, NEW book, NEW q, NEW m, NEW current, NEW asc, NEW entries,
         NEW kept, IsReading(b, book, q, m, current, asc, entries, kept)
  PROVE  ExplainedBy(b, book, q, Statement(b, q, entries, kept), m, Len(book))
<1> DEFINE n == Len(book)
           a == q.account
           all == Picked(entries, kept)
           o == Picked(asc, kept)
           W == Wanted(b, book, n, q)
           res == Statement(b, q, entries, kept)
           N == Len(o)
           After(t) == BalanceAfter(book, n, a, t) - Missed(book, m, n, a)
<1>1. /\ Shows(res, b, q, all) /\ IsByDate(o, W, book)
      /\ Len(all) = N /\ N \in Nat
      /\ \A k \in 1..N : /\ all[k].tx = book[o[k]]
                         /\ all[k].delta = Delta(book[o[k]].row, a)
                         /\ all[k].after = After(book[o[k]])
  BY ReadingShown
<1>2. Offset(q) \in Nat
  BY OffsetLimit DEF IsReading
<1> HIDE DEF all, o, W, res, After
<1>3. /\ \A i : i \in W <=> \E k \in 1..N : o[k] = i
      /\ \A j, k \in 1..N : Earlier(book[o[j]], book[o[k]]) <=> j < k
  BY <1>1 DEF IsByDate
<1> HIDE DEF N
<1>4. ASSUME NEW k \in 1..Len(res.items)
      PROVE  res.items[k].after = After(res.items[k].tx)
  <2>1. Offset(q) + k \in 1..N /\ res.items[k] = all[PlaceOf(q, N, k)]
    BY <1>1 DEF Shows
  <2>2. PlaceOf(q, N, k) \in 1..N
    BY <1>1, <1>2, <2>1 DEF PlaceOf
  <2> QED
    BY <1>1, <2>1, <2>2
<1>5. (res.bounds = <<>>) <=> (W = {})
  <2>1. (res.bounds = <<>>) <=> (N = 0)
    BY <1>1 DEF Shows
  <2>2. N # 0 => 1 \in 1..N
    BY <1>1
  <2> QED
    BY <1>3, <2>1, <2>2
<1>6. ASSUME NEW i \in W, \A j \in W : ~Earlier(book[j], book[i])
      PROVE  res.bounds[1] = After(book[i]) - Delta(book[i].row, a)
  <2>1. PICK k \in 1..N : o[k] = i
    BY <1>3
  <2>2. 1 \in 1..N /\ N # 0 /\ ~(1 < k)
    BY <1>1, <1>3, <1>6, <2>1
  <2>3. k = 1
    BY <1>1, <2>2
  <2>4. res.bounds[1] = all[1].after - all[1].delta
    BY <1>1, <2>2 DEF Shows
  <2> QED
    BY <1>1, <2>1, <2>2, <2>3, <2>4
<1>7. ASSUME NEW i \in W, \A j \in W : ~Later(book[j], book[i])
      PROVE  res.bounds[2] = After(book[i])
  <2>1. PICK k \in 1..N : o[k] = i
    BY <1>3
  <2>2. N \in 1..N /\ N # 0 /\ ~(k < N)
    BY <1>1, <1>3, <1>7, <2>1 DEF Later
  <2>3. k = N
    BY <1>1, <2>2
  <2>4. res.bounds[2] = all[N].after
    BY <1>1, <2>2 DEF Shows
  <2> QED
    BY <1>1, <2>1, <2>2, <2>3, <2>4
<1> QED
  BY <1>4, <1>5, <1>6, <1>7 DEF ExplainedBy, W, res, After

(***************************************************************************)
(* Days of whole seconds.                                                  *)
(***************************************************************************)

\* What a time of k units of d and a rest is not later than.
LEMMA Units ==
  ASSUME NEW d \in Nat \ {0}, NEW k \in Int, NEW r \in 0..(d - 1), NEW j \in Int
  PROVE  (d * k + r >= d * j <=> k >= j) /\ d * k \in Int /\ d * j \in Int
<1>1. d * k \in Int /\ d * j \in Int
  OBVIOUS
<1>2. ASSUME k >= j
      PROVE  d * k + r >= d * j
  <2>1. k - j \in Nat
    BY <1>2
  <2>2. d * (k - j) \in Nat
    BY <2>1
  <2>3. d * (k - j) = d * k - d * j
    OBVIOUS
  <2> QED
    BY <1>1, <2>2, <2>3
<1>3. ASSUME ~(k >= j)
      PROVE  ~(d * k + r >= d * j)
  <2>1. (j - k) - 1 \in Nat
    BY <1>3
  <2>2. d * ((j - k) - 1) \in Nat
    BY <2>1
  <2>3. d * ((j - k) - 1) = (d * j - d * k) - d
    OBVIOUS
  <2> QED
    BY <1>1, <2>2, <2>3
<1> QED
  BY <1>1, <1>2, <1>3

LEMMA Parted ==
  ASSUME NEW d \in Nat \ {0}, NEW x \in Nat
  PROVE  /\ x \div d \in Nat /\ x % d \in 0..(d - 1)
         /\ d * (x \div d) \in Int /\ x = d * (x \div d) + (x % d)
OBVIOUS

\* A time that is kept in whole seconds, by the C service, is in the same range
\* of whole units of D, but for what is lost of the last second of one.
Rounded(b, at) == IF b = "C" THEN at - (at % TicksPerSecond) ELSE at

LEMMA UnitsAre ==
  ASSUME NEW b \in {"C", "Rust"}, NEW D \in Nat \ {0}, D % TicksPerSecond = 0,
         NEW at \in Nat, NEW j \in Int
  PROVE  /\ Rounded(b, at) \in Int /\ at \div D \in Nat
         /\ j * D \in Int /\ (j + 1) * D \in Int
         /\ Rounded(b, at) >= j * D <=> at \div D >= j
         /\ Rounded(b, at) <= (j + 1) * D - TicksPerSecond
              <=> at \div D <= j /\ ~(at \div D = j /\ Lost(b, at, D))
<1> DEFINE S == TicksPerSecond
           day == at \div D
           m == D \div S
           u == at \div S
           shown == Rounded(b, at)
<1>1. S \in Nat \ {0} /\ D \in Nat \ {0} /\ D % S = 0
  BY StatementsAssumption
<1>2. /\ day \in Nat /\ at % D \in 0..(D - 1)
      /\ D * day \in Int /\ at = D * day + (at % D)
  BY <1>1, Parted
<1>3. /\ u \in Nat /\ at % S \in 0..(S - 1)
      /\ S * u \in Int /\ at = S * u + (at % S)
  BY <1>1, Parted
<1>4. m \in Nat /\ D = S * m
  BY <1>1, Parted
<1>5. S <= D
  <2>1. m >= 1
    BY <1>1, <1>4
  <2>2. S * (m - 1) \in Nat /\ S * (m - 1) = S * m - S
    BY <1>1, <1>4, <2>1
  <2> QED
    BY <1>1, <1>4, <2>2
<1>6. ASSUME NEW i \in Int
      PROVE  S * (m * i) = i * D /\ m * i \in Int /\ i * D \in Int /\ D * i = i * D
  BY <1>1, <1>4
<1> DEFINE rd == at % D
           rs == at % S
<1>12. shown = IF b = "C" THEN S * u ELSE at
  BY <1>3 DEF Rounded
<1> HIDE DEF m, day, u, rd, rs, shown, S
<1>13. ASSUME NEW i \in Int
       PROVE  at >= D * i <=> day >= i
  <2>1. day \in Int /\ rd \in 0..(D - 1) /\ at = D * day + rd
    BY <1>2 DEF rd
  <2> QED
    BY <1>1, <2>1, Units
<1>14. ASSUME NEW i \in Int
       PROVE  /\ at >= S * i <=> u >= i
              /\ S * u >= S * i <=> u >= i
              /\ S * i >= S * u <=> i >= u
  <2>1. u \in Int /\ rs \in 0..(S - 1) /\ at = S * u + rs
    BY <1>3 DEF rs
  <2>2. S * u + rs >= S * i <=> u >= i
    BY <1>1, <2>1, Units
  <2>3. 0 \in 0..(S - 1)
    BY <1>1
  <2>4. (S * u + 0 >= S * i <=> u >= i) /\ (S * i + 0 >= S * u <=> i >= u)
    BY <1>1, <2>1, <2>3, Units
  <2>5. S * u \in Int /\ S * i \in Int
    BY <1>1, <2>1
  <2> QED
    BY <2>1, <2>2, <2>4, <2>5
<1>7. shown >= j * D <=> day >= j
  <2>1. at >= j * D <=> day >= j
    BY <1>6, <1>13
  <2>2. S * u >= j * D <=> u >= m * j
    BY <1>6, <1>14
  <2>3. at >= j * D <=> u >= m * j
    BY <1>6, <1>14
  <2> QED
    BY <1>12, <2>1, <2>2, <2>3
<1>8. shown <= (j + 1) * D - S <=> day <= j /\ ~(day = j /\ Lost(b, at, D))
  <2>0. (j + 1) \in Int /\ (j + 1) * D \in Int /\ (j + 1) * D = j * D + D
    BY <1>1
  <2>1. at >= (j + 1) * D <=> day >= j + 1
    BY <1>6, <1>13, <2>0
  <2>2. CASE b = "C"
    <3>1. shown = S * u
      BY <1>12, <2>2
    <3>2. m * (j + 1) \in Int /\ S * (m * (j + 1)) = (j + 1) * D
      BY <1>6, <2>0
    <3>3. at >= (j + 1) * D <=> u >= m * (j + 1)
      BY <1>14, <3>2
    <3>4. S * (m * (j + 1) - 1) >= S * u <=> m * (j + 1) - 1 >= u
      BY <1>14, <3>2
    <3>5. S * (m * (j + 1) - 1) = (j + 1) * D - S
      <4>1. PICK k \in Int : k = m * (j + 1)
        BY <3>2
      <4>2. S * (k - 1) = S * k - S
        BY <1>1, <4>1
      <4> QED
        BY <3>2, <4>1, <4>2
    <3>6. ~Lost(b, at, D)
      BY <2>2 DEF Lost
    <3>7. shown <= (j + 1) * D - S <=> ~(u >= m * (j + 1))
      BY <1>1, <1>3, <2>0, <3>1, <3>2, <3>4, <3>5
    <3> QED
      BY <1>2, <2>0, <2>1, <3>3, <3>6, <3>7
  <2>3. CASE b # "C"
    <3>1. shown = at /\ b = "Rust"
      BY <1>12, <2>3
    <3>2. Lost(b, at, D) <=> rd > D - S
      BY <3>1 DEF Lost, rd, S
    <3>3. at >= j * D <=> day >= j
      BY <1>6, <1>13
    <3>4. day = j => at = j * D + rd
      BY <1>2, <1>6 DEF rd
    <3> DEFINE x == j * D
    <3>5. x \in Int /\ rd \in Int /\ (j + 1) * D = x + D
      BY <1>2, <1>6, <2>0 DEF rd
    <3> HIDE DEF x
    <3>6. CASE day < j
      BY <1>1, <1>2, <1>5, <3>1, <3>3, <3>5, <3>6 DEF x
    <3>7. CASE day = j
      BY <1>1, <1>2, <3>1, <3>2, <3>4, <3>5, <3>7 DEF x
    <3>8. CASE day > j
      BY <1>1, <1>2, <2>1, <3>1, <3>5, <3>8 DEF x
    <3> QED
      BY <1>2, <3>6, <3>7, <3>8
  <2> QED
    BY <2>2, <2>3
<1>9. shown \in Int /\ j * D \in Int /\ (j + 1) * D \in Int
  BY <1>1, <1>3, <1>12
<1> QED
  BY <1>2, <1>7, <1>8, <1>9 DEF shown, day, S

\* A range that is compared in whole seconds is one of whole days, but for what
\* the Rust service loses of its last second.
LEMMA DaysAre ==
  ASSUME NEW b \in {"C", "Rust"}, NEW q \in Query, NEW at \in Nat
  PROVE  LET day == at \div TicksPerDay
         IN InDates(b, q, at)
              <=> /\ q.from # Absent => day >= q.from
                  /\ q.to # Absent =>
                       day <= q.to
                         /\ ~(day = q.to /\ Lost(b, at, TicksPerDay))
<1>1. /\ q.from # Absent => q.from \in Int
      /\ q.to # Absent => q.to \in Int
  BY DEF Query
<1>2. TicksPerDay \in Nat \ {0} /\ TicksPerDay % TicksPerSecond = 0
  BY StatementsAssumption
<1>3. q.from # Absent =>
        (Rounded(b, at) >= q.from * TicksPerDay <=> at \div TicksPerDay >= q.from)
  BY <1>1, <1>2, UnitsAre
<1>4. q.to # Absent =>
        (Rounded(b, at) <= (q.to + 1) * TicksPerDay - TicksPerSecond
           <=> at \div TicksPerDay <= q.to
                 /\ ~(at \div TicksPerDay = q.to /\ Lost(b, at, TicksPerDay)))
  BY <1>1, <1>2, UnitsAre
<1> QED
  BY <1>3, <1>4 DEF InDates, FirstOf, LastSecondOf, Rounded

\* So the rows that match are those of the days.
LEMMA WantedAre ==
  ASSUME NEW b \in {"C", "Rust"}, NEW book, IsBook(book), NEW q \in Query,
         NEW n \in 0..Len(book)
  PROVE  Wanted(b, book, n, q)
           = {i \in Booked(book, n, q.account) :
                OfDays(q, book[i]) /\ ~Cut(b, q, book[i])}
<1>1. ASSUME NEW i \in Booked(book, n, q.account)
      PROVE  Matches(b, q, book[i]) <=> OfDays(q, book[i]) /\ ~Cut(b, q, book[i])
  <2>1. i \in 1..Len(book) /\ book \in Seq(Tx3)
    BY DEF IsBook, Booked
  <2>2. book[i].at \in Nat
    BY <2>1, BookRow
  <2> QED
    BY <2>2, DaysAre DEF Matches, OfDays, Cut
<1> QED
  BY <1>1 DEF Wanted

(***************************************************************************)
(* Books that grow.                                                        *)
(***************************************************************************)

IsGrown(book, more, n) ==
  /\ book \in Seq(Tx3) /\ more \in Seq(Tx3) /\ Extends(book, more)
  /\ n \in 0..Len(book)

\* What was in the books stays in them as it is.
LEMMA GrownSame ==
  ASSUME NEW book, NEW more, NEW n, IsGrown(book, more, n)
  PROVE  /\ \A i \in 1..n : more[i] = book[i]
         /\ \A a : Booked(more, n, a) = Booked(book, n, a)
         /\ \A a, t : UpToTx(more, n, a, t) = UpToTx(book, n, a, t)
         /\ \A b, q : Wanted(b, more, n, q) = Wanted(b, book, n, q)
<1>1. \A i \in 1..n : more[i] = book[i] /\ i \in 1..Len(book)
  BY DEF IsGrown, Extends
<1>2. \A a : Booked(more, n, a) = Booked(book, n, a)
  BY <1>1 DEF Booked
<1>3. \A a : \A i \in Booked(book, n, a) : more[i] = book[i]
  BY <1>1 DEF Booked
<1>4. ASSUME NEW a, NEW t
      PROVE  UpToTx(more, n, a, t) = UpToTx(book, n, a, t)
  BY <1>2, <1>3 DEF UpToTx
<1>5. ASSUME NEW b, NEW q
      PROVE  Wanted(b, more, n, q) = Wanted(b, book, n, q)
  BY <1>2, <1>3 DEF Wanted
<1> QED
  BY <1>1, <1>2, <1>4, <1>5

LEMMA GrownSums ==
  ASSUME NEW book, NEW more, NEW n, IsGrown(book, more, n), NEW a
  PROVE  /\ SumOf(more, a, Booked(more, n, a)) = SumOf(book, a, Booked(book, n, a))
         /\ \A t : BalanceAfter(more, n, a, t) = BalanceAfter(book, n, a, t)
         /\ \A m : Missed(more, m, n, a) = Missed(book, m, n, a)
<1>1. /\ book \in Seq(Tx3) /\ more \in Seq(Tx3) /\ Extends(book, more)
      /\ n \in 0..Len(book)
  BY DEF IsGrown
<1>2. ASSUME NEW I, \A k \in I : k \in Booked(book, n, a)
      PROVE  SumOf(more, a, I) = SumOf(book, a, I)
  <2>1. \A k \in 1..Len(more) : k \in I => k <= Len(book)
    BY <1>1, <1>2 DEF Booked
  <2> QED
    BY <1>1, <2>1, SumOfMore2
<1>3. Booked(more, n, a) = Booked(book, n, a)
  BY GrownSame
<1>4. SumOf(more, a, Booked(more, n, a)) = SumOf(book, a, Booked(book, n, a))
  BY <1>2, <1>3
<1>5. ASSUME NEW t
      PROVE  BalanceAfter(more, n, a, t) = BalanceAfter(book, n, a, t)
  <2>1. UpToTx(more, n, a, t) = UpToTx(book, n, a, t)
    BY GrownSame
  <2>2. \A k \in UpToTx(book, n, a, t) : k \in Booked(book, n, a)
    BY DEF UpToTx
  <2>3. SumOf(more, a, UpToTx(book, n, a, t)) = SumOf(book, a, UpToTx(book, n, a, t))
    BY <1>2, <2>2
  <2> QED
    BY <2>1, <2>3 DEF BalanceAfter
<1>6. ASSUME NEW m
      PROVE  Missed(more, m, n, a) = Missed(book, m, n, a)
  <2> DEFINE I == Booked(book, n, a) \ (1..m)
  <2>1. \A k \in I : k \in Booked(book, n, a)
    OBVIOUS
  <2>2. SumOf(more, a, I) = SumOf(book, a, I)
    <3> HIDE DEF I
    <3> QED
      BY <1>2, <2>1
  <2> QED
    BY <1>3, <2>2 DEF Missed
<1> QED
  BY <1>4, <1>5, <1>6

LEMMA GrownExplained ==
  ASSUME NEW book, NEW more, NEW n, IsGrown(book, more, n),
         NEW b, NEW q, NEW res, NEW m, ExplainedBy(b, book, q, res, m, n)
  PROVE  ExplainedBy(b, more, q, res, m, n)
<1> DEFINE a == q.account
           W == Wanted(b, book, n, q)
           After(t) == BalanceAfter(book, n, a, t) - Missed(book, m, n, a)
           NewAfter(t) == BalanceAfter(more, n, a, t) - Missed(more, m, n, a)
<1>1. \A t : NewAfter(t) = After(t)
  BY GrownSums
<1>2. Wanted(b, more, n, q) = W /\ \A i \in 1..n : more[i] = book[i]
  BY GrownSame
<1>3. \A i \in W : i \in 1..n
  BY DEF Wanted, Booked
<1>4. /\ \A k \in 1..Len(res.items) : res.items[k].after = After(res.items[k].tx)
      /\ (res.bounds = <<>>) <=> (W = {})
      /\ \A i \in W :
           /\ (\A j \in W : ~Earlier(book[j], book[i])) =>
                res.bounds[1] = After(book[i]) - Delta(book[i].row, a)
           /\ (\A j \in W : ~Later(book[j], book[i])) =>
                res.bounds[2] = After(book[i])
  BY DEF ExplainedBy
<1> HIDE DEF W, After, NewAfter
<1>5. /\ \A k \in 1..Len(res.items) :
           res.items[k].after = NewAfter(res.items[k].tx)
      /\ \A i \in W :
           /\ (\A j \in W : ~Earlier(more[j], more[i])) =>
                res.bounds[1] = NewAfter(more[i]) - Delta(more[i].row, a)
           /\ (\A j \in W : ~Later(more[j], more[i])) =>
                res.bounds[2] = NewAfter(more[i])
  BY <1>1, <1>2, <1>3, <1>4
<1> QED
  BY <1>2, <1>4, <1>5 DEF ExplainedBy, NewAfter

LEMMA GrownPaged ==
  ASSUME NEW book, NEW more, NEW n, IsGrown(book, more, n),
         NEW b, NEW q, NEW res, PagedBy(b, book, q, res, n)
  PROVE  PagedBy(b, more, q, res, n)
<1> DEFINE W == Wanted(b, book, n, q)
<1>1. Wanted(b, more, n, q) = W /\ \A i \in 1..n : more[i] = book[i]
  BY GrownSame
<1>2. \A i \in W : i \in 1..n
  BY DEF Wanted, Booked
<1>3. \A i \in W : Ahead(b, more, n, q, i) = Ahead(b, book, n, q, i)
  BY <1>1, <1>2 DEF Ahead
<1>4. \A i \in W : more[i] = book[i]
  BY <1>1, <1>2
<1> HIDE DEF W
<1> QED
  BY <1>1, <1>3, <1>4 DEF PagedBy, W

(***************************************************************************)
(* The books of a state.                                                   *)
(***************************************************************************)

LEMMA BookIs ==
  ASSUME BooksSound
  PROVE  /\ IsBook(Book) /\ Book \in Seq(Tx3) /\ Len(Book) = Len(rows)
         /\ Len(rows) \in 0..MaxRows /\ DOMAIN rows = 1..Len(rows)
         /\ \A i \in 1..Len(rows) : Book[i] = Entered(i) /\ rows[i] \in Row
<1>1. /\ rows \in Seq(Row) /\ stamps \in Seq([id : Nat, at : 0..MaxClock])
      /\ Len(stamps) = Len(rows) /\ Len(rows) <= MaxRows
      /\ \A i \in 1..Len(rows) : stamps[i].id = i
  BY DEF BooksSound, JournalTypeOK
<1>2. Len(rows) \in Nat /\ MaxRows \in Nat /\ MaxClock \in Nat
  BY <1>1, JournalAssumption
<1>3. ASSUME NEW i \in 1..Len(rows)
      PROVE  Entered(i) \in Tx3 /\ rows[i] \in Row
  <2>0. rows[i] \in Row
    BY <1>1
  <2> DEFINE Stamp == [id : Nat, at : 0..MaxClock]
  <2>1. stamps[i] \in Stamp
    <3>1. stamps \in Seq(Stamp) /\ i \in 1..Len(stamps)
      BY <1>1
    <3> HIDE DEF Stamp
    <3> QED
      BY <3>1
  <2>2. stamps[i].id \in Nat /\ stamps[i].at \in Nat
    BY <1>2, <2>1
  <2> QED
    BY <2>0, <2>2 DEF Entered, Tx3
<1>4. Book \in Seq(Tx3) /\ Len(Book) = Len(rows)
  BY <1>2, <1>3 DEF Book
<1>5. \A i \in 1..Len(rows) : Book[i] = Entered(i)
  BY DEF Book
<1>6. ASSUME NEW i \in 1..Len(rows)
      PROVE  Book[i].id = i
  <2>1. Entered(i).id = stamps[i].id
    BY DEF Entered
  <2> QED
    BY <1>1, <1>5, <2>1
<1> QED
  BY <1>1, <1>2, <1>3, <1>4, <1>5, <1>6 DEF IsBook

\* The rows explain the balances, in the words of a statement.
LEMMA BalanceIs ==
  ASSUME BooksSound, NEW a \in Accounts \ {Bank}
  PROVE  balance[a] = Opening[a] + SumOf(Book, a, Booked(Book, Len(rows), a))
<1> DEFINE n == Len(rows)
           B == Booked(Book, n, a)
<1>1. /\ Book \in Seq(Tx3) /\ Len(Book) = n /\ n \in Nat
      /\ \A i \in 1..n : Book[i] = Entered(i)
  BY BookIs
<1>2. rows \in Seq(Row) /\ balance[a] = Opening[a] + NetOf(rows, a)
  BY DEF BooksSound, JournalTypeOK, Reconciled
<1>3. PICK f \in [0..n -> Int] : IsSum(f, Shares(rows, a), n) /\ NetOf(rows, a) = f[n]
  BY <1>2, NetOfIsSum
<1>4. SumsTo(f, Shares(rows, a), n)
  <2>1. n \in 0..n
    BY <1>1
  <2> QED
    BY <1>1, <1>3, <2>1, IsSumSumsTo
<1>5. ASSUME NEW k \in 1..n
      PROVE  Shares(rows, a)[k] = Weights(Book, a, B)[k]
  <2>1. Book[k].row = rows[k]
    <3>1. Entered(k).row = rows[k]
      BY DEF Entered
    <3> QED
      BY <1>1, <3>1
  <2>2. k \in B <=> Names(rows[k], a)
    BY <2>1 DEF Booked
  <2>3. Weights(Book, a, B)[k] = IF k \in B THEN Delta(rows[k], a) ELSE 0
    BY <1>1, <2>1 DEF Weights
  <2>4. Shares(rows, a)[k] = IF Names(rows[k], a) THEN Delta(rows[k], a) ELSE 0
    BY <1>2 DEF Shares, Share
  <2> QED
    BY <2>2, <2>3, <2>4
<1>6. SumsTo(f, Weights(Book, a, B), Len(Book))
  BY <1>1, <1>4, <1>5 DEF SumsTo
<1>7. SumOf(Book, a, B) = f[n]
  <2> HIDE DEF B
  <2> QED
    BY <1>1, <1>6, SumOfEnds
<1> QED
  BY <1>2, <1>3, <1>7

BookShape ==
  /\ IsBook(Book) /\ Book \in Seq(Tx3) /\ Len(Book) = Len(rows)
  /\ Len(rows) \in 0..MaxRows
  /\ \A i \in 1..Len(rows) : Book[i] = Entered(i)

LEMMA BookHasShape == BooksSound => BookShape
BY BookIs DEF BookShape

\* The rows that were there are there.
Grows ==
  /\ Len(rows) <= Len(rows')
  /\ \A i \in 1..Len(rows) : rows'[i] = rows[i] /\ stamps'[i] = stamps[i]

LEMMA GrowsBook ==
  ASSUME BooksSound, BooksSound', Grows, NEW n \in 0..Len(rows)
  PROVE  IsGrown(Book, Book', n)
<1>1. BookShape
  BY BookHasShape
<1>2. BookShape'
  BY BookHasShape, PTL
<1>3. Len(rows) \in Nat /\ Len(rows') \in Nat
  BY <1>1, <1>2 DEF BookShape
<1>4. ASSUME NEW i \in 1..Len(rows)
      PROVE  Book'[i] = Book[i]
  <2>1. i \in 1..Len(rows')
    BY <1>3 DEF Grows
  <2>2. Book[i] = Entered(i) /\ Book'[i] = Entered(i)'
    BY <1>1, <1>2, <2>1 DEF BookShape
  <2> QED
    BY <2>2 DEF Entered, Grows
<1> QED
  BY <1>1, <1>2, <1>4 DEF BookShape, IsGrown, Extends, Grows

(***************************************************************************)
(* The steps of the world.                                                 *)
(***************************************************************************)

LEMMA PostKeeps ==
  ASSUME BooksSound, NEW w \in Writers, Post(w)
  PROVE  BooksSound' /\ Grows
<1> DEFINE n == Len(rows)
           Stamp == [id : Nat, at : 0..MaxClock]
           stamp == [id |-> n + 1, at |-> dated[w]]
<1>1. /\ balance \in [Accounts -> Cents] /\ rows \in Seq(Row)
      /\ stamps \in Seq(Stamp) /\ Len(stamps) = n
      /\ clock \in 0..MaxClock
      /\ dated \in [Writers -> (0..MaxClock) \cup {Undated}]
      /\ \A i \in 1..n : stamps[i].id = i
  BY DEF BooksSound, JournalTypeOK
<1>2. PICK r \in Movements : Record(r)
  BY DEF Post
<1>3. r \in Row /\ r.from # r.to
  BY <1>2, JournalAssumption DEF Record
<1>4. /\ rows' = Append(rows, r) /\ stamps' = Append(stamps, stamp)
      /\ balance' = Posted(balance, r) /\ clock' = clock
      /\ dated' = [dated EXCEPT ![w] = Undated]
      /\ n < MaxRows /\ dated[w] # Undated
  BY <1>2 DEF Post, Record
<1>5. n \in Nat /\ MaxRows \in Nat /\ MaxClock \in Nat
  BY <1>1, JournalAssumption
<1>6. stamp \in Stamp /\ stamp.id = n + 1
  BY <1>1, <1>4, <1>5
<1>7. /\ rows' \in Seq(Row) /\ Len(rows') = n + 1
      /\ \A i \in 1..n : rows'[i] = rows[i]
  <2> HIDE DEF n
  <2> QED
    BY <1>1, <1>3, <1>4, <1>5 DEF n
<1>8. /\ stamps' \in Seq(Stamp) /\ Len(stamps') = n + 1
      /\ \A i \in 1..n : stamps'[i] = stamps[i]
      /\ stamps'[n + 1] = stamp
  <2> HIDE DEF n, Stamp, stamp
  <2>1. Len(stamps) = n /\ stamps \in Seq(Stamp) /\ stamp \in Stamp
    BY <1>1, <1>6
  <2> QED
    BY <1>4, <1>5, <2>1
<1>9. balance' \in [Accounts -> Cents]
  <2>1. ASSUME NEW a \in Accounts
        PROVE  PostedTo(balance[a], r, a) \in Cents
    <3>1. balance[a] \in 0..MaxCents /\ r.value \in 1..MaxCents /\ MaxCents \in Nat
      BY <1>1, <1>3, PostingAssumption DEF Cents, Row
    <3>2. Fits(balance, r)
      BY <1>2 DEF Record
    <3> QED
      BY <3>1, <3>2 DEF PostedTo, Fits, Cents
  <2> QED
    BY <1>4, <2>1 DEF Posted
<1>10. JournalTypeOK'
  <2>1. dated' \in [Writers -> (0..MaxClock) \cup {Undated}]
    BY <1>1, <1>4
  <2> QED
    BY <1>1, <1>4, <1>7, <1>8, <1>9, <2>1 DEF JournalTypeOK
<1>11. Reconciled'
  <2>1. ASSUME NEW a \in Accounts \ {Bank}
        PROVE  balance'[a] = Opening[a] + NetOf(rows', a)
    <3>1. balance[a] \in Int /\ balance[a] = Opening[a] + NetOf(rows, a)
      BY <1>1 DEF BooksSound, Reconciled, Cents
    <3>2. PostedTo(balance[a], r, a) = Opening[a] + NetOf(Append(rows, r), a)
      BY <1>1, <1>3, <3>1, PostingKeepsExplained
    <3>3. balance'[a] = PostedTo(balance[a], r, a)
      BY <1>4 DEF Posted
    <3> QED
      BY <1>4, <3>2, <3>3
  <2> QED
    BY <2>1 DEF Reconciled
<1>12. \A i \in 1..Len(rows') : stamps'[i].id = i
  <2>1. ASSUME NEW i \in 1..(n + 1)
        PROVE  stamps'[i].id = i
    <3>1. CASE i \in 1..n
      BY <1>1, <1>8, <3>1
    <3>2. CASE i = n + 1
      BY <1>6, <1>8, <3>2
    <3> QED
      BY <1>5, <3>1, <3>2
  <2> QED
    BY <1>7, <2>1
<1>13. Len(rows') <= MaxRows /\ Len(rows) <= Len(rows')
  BY <1>4, <1>5, <1>7
<1>14. Grows
  BY <1>7, <1>8, <1>13 DEF Grows
<1> QED
  BY <1>10, <1>11, <1>12, <1>13, <1>14 DEF BooksSound

LEMMA JournalKeeps ==
  ASSUME BooksSound, JournalNext
  PROVE  BooksSound' /\ Grows
<1> USE DEF BooksSound
<1>1. Len(rows) \in Nat /\ MaxClock \in Nat
  BY JournalAssumption DEF JournalTypeOK
<1>2. ASSUME UNCHANGED store, JournalTypeOK'
      PROVE  BooksSound' /\ Grows
  BY <1>1, <1>2 DEF store, Grows, Reconciled
<1>3. CASE Tick
  BY <1>1, <1>2, <1>3 DEF Tick, store, JournalTypeOK
<1>4. ASSUME NEW w \in Writers, Date(w)
      PROVE  BooksSound' /\ Grows
  BY <1>2, <1>4 DEF Date, store, JournalTypeOK
<1>5. ASSUME NEW w \in Writers, Refused(w)
      PROVE  BooksSound' /\ Grows
  BY <1>2, <1>5 DEF Refused, store, JournalTypeOK
<1>6. ASSUME NEW w \in Writers, Post(w)
      PROVE  BooksSound' /\ Grows
  BY <1>6, PostKeeps
<1> QED
  BY <1>3, <1>4, <1>5, <1>6 DEF JournalNext

(***************************************************************************)
(* What every step keeps.                                                  *)
(***************************************************************************)

Core == StatementTypeOK /\ BooksSound /\ ReaderSound /\ Explained /\ Paged

\* The total is that of whole days because the page is of the rows that match.
LEMMA DaysFollow == Core => DaysCounted
<1> SUFFICES ASSUME Core, Answered
             PROVE  result.total =
                      Cardinality({i \in Booked(Book, upTo, query.account) :
                                     OfDays(query, Book[i])
                                       /\ ~Cut(backend, query, Book[i])})
  BY DEF DaysCounted
<1>1. BookShape
  BY BookHasShape DEF Core
<1>2. pc = "answered" /\ PagedBy(backend, Book, query, result, upTo)
  BY DEF Core, Paged, Answered
<1>3. backend \in {"C", "Rust"} /\ query \in Query
  BY <1>2, StatementsAssumption DEF Core, StatementTypeOK, ReaderSound
<1>4. upTo \in 0..Len(Book) /\ IsBook(Book)
  BY <1>1, <1>2, StatementsAssumption, JournalAssumption
     DEF Core, StatementTypeOK, ReaderSound, BookShape
<1>5. result.total = Cardinality(Wanted(backend, Book, upTo, query))
  BY <1>2 DEF PagedBy
<1>6. Wanted(backend, Book, upTo, query)
        = {i \in Booked(Book, upTo, query.account) :
             OfDays(query, Book[i]) /\ ~Cut(backend, query, Book[i])}
  BY <1>3, <1>4, WantedAre
<1> QED
  BY <1>5, <1>6

LEMMA CoreHolds == Core => StatementInductive
BY DaysFollow DEF Core, StatementInductive

\* Movements that are posted meanwhile change nothing of what was read.
LEMMA JournalKeepsCore ==
  ASSUME Core, JournalNext, UNCHANGED reader
  PROVE  Core'
<1> USE DEF reader
<1>1. BooksSound /\ BooksSound' /\ Grows
  BY JournalKeeps DEF Core
<1>2. StatementTypeOK'
  BY <1>1 DEF Core, StatementTypeOK, BooksSound
<1>3. Len(rows) \in Nat /\ Len(rows') \in Nat /\ Len(rows) <= Len(rows')
  <2>1. BookShape /\ BookShape'
    BY <1>1, BookHasShape, PTL
  <2> QED
    BY <1>1, <2>1 DEF BookShape, Grows
<1>4. \A n \in 0..Len(rows) : IsGrown(Book, Book', n)
  BY <1>1, GrowsBook
<1>5. asOf \in Nat /\ upTo \in Nat
  BY JournalAssumption DEF Core, StatementTypeOK
<1>6. ReaderSound'
  <2>1. ASSUME pc = "rows", query.account # Bank
        PROVE  LET a == query.account
               IN seen = Opening[a] + SumOf(Book', a, Booked(Book', asOf, a))
    <3>1. asOf \in 0..Len(rows)
      BY <1>3, <1>5, <2>1 DEF Core, ReaderSound
    <3>2. \A a : SumOf(Book', a, Booked(Book', asOf, a))
                   = SumOf(Book, a, Booked(Book, asOf, a))
      BY <1>4, <3>1, GrownSums
    <3> QED
      BY <2>1, <3>2 DEF Core, ReaderSound
  <2> QED
    BY <1>3, <1>5, <2>1 DEF Core, ReaderSound
<1>7. Explained'
  <2> SUFFICES ASSUME Answered
               PROVE  ExplainedBy(backend, Book', query, result, asOf, upTo)
    BY DEF Explained, Answered
  <2>1. upTo \in 0..Len(rows)
    BY <1>3, <1>5 DEF Core, ReaderSound, Answered
  <2>2. ExplainedBy(backend, Book, query, result, asOf, upTo)
    BY DEF Core, Explained
  <2> QED
    BY <1>4, <2>1, <2>2, GrownExplained
<1>8. Paged'
  <2> SUFFICES ASSUME Answered
               PROVE  PagedBy(backend, Book', query, result, upTo)
    BY DEF Paged, Answered
  <2>1. upTo \in 0..Len(rows)
    BY <1>3, <1>5 DEF Core, ReaderSound, Answered
  <2>2. PagedBy(backend, Book, query, result, upTo)
    BY DEF Core, Paged
  <2> QED
    BY <1>4, <2>1, <2>2, GrownPaged
<1> QED
  BY <1>1, <1>2, <1>6, <1>7, <1>8 DEF Core

\* A statement is of the books at its second SELECT, whatever its account.
LEMMA StatementFits ==
  ASSUME NEW b, NEW book, IsBook(book), NEW q \in Query, NEW current \in Int,
         NEW asc \in ByDate(ListOf(book, q.account), book),
         NEW entries, entries = Entries(q.account, current, Listed(book, asc)),
         NEW kept \in ByDate(Kept(b, q, entries), Listed(book, asc))
  PROVE  Len(Statement(b, q, entries, kept).items)
           <= Statement(b, q, entries, kept).total
<1> DEFINE res == Statement(b, q, entries, kept)
           all == Picked(entries, kept)
           N == Len(all)
<1>1. /\ IsByDate(asc, Booked(book, Len(book), q.account), book)
      /\ \A k \in 1..Len(asc) : Names(book[asc[k]].row, q.account)
  BY ReadingSorted
<1>2. AreEntries(entries, book, asc, q.account, current)
  BY <1>1, EntriesAre DEF IsByDate, IsBook
<1>3. kept \in Seq(1..Len(asc))
  BY <1>2, KeptSorted
<1>4. Len(kept) \in Nat /\ DOMAIN kept = 1..Len(kept)
  BY <1>3
<1>5. Shows(res, b, q, all)
  BY <1>4, StatementShows
<1>6. N \in Nat
  BY <1>4 DEF Picked
<1>7. Offset(q) \in Nat /\ Limit(b, q) \in Nat
  BY OffsetLimit
<1> HIDE DEF res, all
<1>8. LastOf(b, q, N) \in Int /\ LastOf(b, q, N) <= N
  BY <1>6, <1>7 DEF LastOf
<1>9. /\ res.total = N
      /\ Len(res.items) = IF Offset(q) + 1 <= LastOf(b, q, N)
                          THEN LastOf(b, q, N) - Offset(q) ELSE 0
  BY <1>5 DEF Shows
<1> QED
  BY <1>6, <1>7, <1>8, <1>9 DEF res

(***************************************************************************)
(* The steps of a statement.                                               *)
(***************************************************************************)

LEMMA SameWorld ==
  ASSUME BooksSound, UNCHANGED world
  PROVE  /\ BooksSound' /\ Book' = Book /\ Len(rows) \in 0..MaxRows
         /\ rows' = rows /\ stamps' = stamps /\ JournalTypeOK'
<1>1. Len(rows) \in 0..MaxRows
  BY BookHasShape DEF BookShape
<1>2. /\ balance' = balance /\ rows' = rows /\ stamps' = stamps
      /\ clock' = clock /\ dated' = dated
  BY DEF world
<1>3. Book' = Book
  BY <1>2 DEF Book, Entered
<1>4. JournalTypeOK' /\ Reconciled'
  BY <1>2 DEF BooksSound, JournalTypeOK, Reconciled
<1> QED
  BY <1>1, <1>2, <1>3, <1>4 DEF BooksSound

LEMMA InitCore == DashboardInit => Core
<1> SUFFICES ASSUME DashboardInit
             PROVE  Core
  OBVIOUS
<1> USE DEF DashboardInit, StatementInit, JournalInit, Init
<1>1. JournalTypeOK
  <2>1. <<>> \in Seq(Row) /\ <<>> \in Seq([id : Nat, at : 0..MaxClock])
        /\ Len(<<>>) = 0
    OBVIOUS
  <2>2. balance \in [Accounts -> Cents]
    BY PostingAssumption DEF Cents
  <2> QED
    BY <2>1, <2>2, JournalAssumption DEF JournalTypeOK
<1>2. BooksSound
  <2>1. Reconciled
    <3>1. ASSUME NEW a \in Accounts \ {Bank}
          PROVE  balance[a] = Opening[a] + NetOf(rows, a)
      <4>1. NetOf(rows, a) = 0
        BY NetOfNone
      <4>2. Opening[a] \in Int
        BY PostingAssumption
      <4> QED
        BY <4>1, <4>2
    <3> QED
      BY <3>1 DEF Reconciled
  <2> QED
    BY <1>1, <2>1, JournalAssumption DEF BooksSound
<1>3. StatementTypeOK
  BY <1>1, JournalAssumption DEF StatementTypeOK, NoStatement
<1>4. ReaderSound /\ Explained /\ Paged
  BY DEF ReaderSound, Explained, Paged, Answered
<1> QED
  BY <1>2, <1>3, <1>4 DEF Core

LEMMA AskKeeps ==
  ASSUME Core, Ask
  PROVE  Core'
<1>1. BooksSound' /\ JournalTypeOK'
  BY SameWorld DEF Core, Ask
<1>2. StatementTypeOK'
  BY <1>1 DEF Core, StatementTypeOK, Ask
<1>3. ReaderSound' /\ Explained' /\ Paged'
  BY DEF Ask, ReaderSound, Explained, Paged, Answered
<1> QED
  BY <1>1, <1>2, <1>3 DEF Core

LEMMA ReadBalanceKeeps ==
  ASSUME Core, ReadBalance
  PROVE  Core'
<1>1. /\ BooksSound' /\ JournalTypeOK' /\ Book' = Book /\ rows' = rows
      /\ Len(rows) \in 0..MaxRows
  BY SameWorld DEF Core, ReadBalance
<1>2. /\ pc = "balance" /\ pc' = "rows" /\ query' = query /\ backend' = backend
      /\ seen' = balance[query.account] /\ asOf' = Len(rows)
      /\ result' = result /\ upTo' = upTo
  BY DEF ReadBalance
<1>3. query \in Queries /\ query.account \in Accounts
  BY <1>2, StatementsAssumption DEF Core, ReaderSound, Query
<1>4. seen' \in Int
  BY <1>2, <1>3, PostingAssumption DEF Core, BooksSound, JournalTypeOK, Cents
<1>5. StatementTypeOK'
  BY <1>1, <1>2, <1>4 DEF Core, StatementTypeOK
<1>6. ReaderSound'
  <2>1. ASSUME query.account # Bank
        PROVE  LET a == query.account
               IN balance[a] = Opening[a] + SumOf(Book, a, Booked(Book, Len(rows), a))
    BY <1>3, <2>1, BalanceIs DEF Core
  <2>2. Len(rows) <= Len(rows)
    BY <1>1, JournalAssumption
  <2> QED
    BY <1>1, <1>2, <1>3, <2>1, <2>2 DEF ReaderSound
<1>7. Explained' /\ Paged'
  BY <1>2 DEF Explained, Paged, Answered
<1> QED
  BY <1>1, <1>5, <1>6, <1>7 DEF Core

LEMMA ReadRowsKeeps ==
  ASSUME Core, ReadRows
  PROVE  Core'
<1>1. /\ BooksSound' /\ JournalTypeOK' /\ Book' = Book /\ rows' = rows
      /\ Len(rows) \in 0..MaxRows
  BY SameWorld DEF Core, ReadRows
<1>2. /\ IsBook(Book) /\ Len(Book) = Len(rows) /\ Len(rows) \in Nat
  BY BookHasShape, JournalAssumption DEF Core, BookShape
<1>3. /\ pc = "rows" /\ pc' = "answered" /\ seen' = 0 /\ upTo' = Len(rows)
      /\ backend' = backend /\ query' = query /\ asOf' = asOf
  BY DEF ReadRows
<1>4. query \in Queries /\ query \in Query /\ seen \in Int
      /\ asOf \in 0..Len(rows)
  BY <1>2, <1>3, StatementsAssumption, JournalAssumption
     DEF Core, StatementTypeOK, ReaderSound
<1>5. PICK asc \in ByDate(ListOf(Book, query.account), Book) :
        LET txs == Listed(Book, asc)
            entries == Entries(query.account, seen, txs)
        IN \E kept \in ByDate(Kept(backend, query, entries), txs) :
             result' = Statement(backend, query, entries, kept)
  BY DEF ReadRows, Listed
<1> DEFINE entries == Entries(query.account, seen, Listed(Book, asc))
<1>6. PICK kept \in ByDate(Kept(backend, query, entries), Listed(Book, asc)) :
        result' = Statement(backend, query, entries, kept)
  BY <1>5
<1>7. Len(result'.items) <= result'.total
  BY <1>2, <1>4, <1>6, StatementFits
<1>8. StatementTypeOK'
  BY <1>1, <1>3, <1>4, <1>7 DEF Core, StatementTypeOK
<1>9. ReaderSound'
  BY <1>1, <1>2, <1>3, <1>4 DEF ReaderSound
<1>10. ASSUME query.account # Bank
       PROVE  IsReading(backend, Book, query, asOf, seen, asc, entries, kept)
  <2>1. seen = Opening[query.account]
                 + SumOf(Book, query.account, Booked(Book, asOf, query.account))
    BY <1>3, <1>10 DEF Core, ReaderSound
  <2> HIDE DEF entries
  <2>2. entries = Entries(query.account, seen, Listed(Book, asc))
    BY DEF entries
  <2> QED
    BY <1>2, <1>4, <1>5, <1>6, <1>10, <2>1, <2>2 DEF IsReading
<1> HIDE DEF entries
<1>11. Explained'
  <2> SUFFICES ASSUME query.account # Bank
               PROVE  ExplainedBy(backend, Book, query, result', asOf, Len(rows))
    BY <1>1, <1>3 DEF Explained, Answered
  <2> QED
    BY <1>2, <1>6, <1>10, ReadingExplained
<1>12. Paged'
  <2> SUFFICES ASSUME query.account # Bank
               PROVE  PagedBy(backend, Book, query, result', Len(rows))
    BY <1>1, <1>3 DEF Paged, Answered
  <2> QED
    BY <1>2, <1>6, <1>10, ReadingPaged
<1> QED
  BY <1>1, <1>8, <1>9, <1>11, <1>12 DEF Core

LEMMA ReadDoneKeeps ==
  ASSUME Core, ReadDone
  PROVE  Core'
<1>1. BooksSound' /\ JournalTypeOK'
  BY SameWorld DEF Core, ReadDone
<1>2. StatementTypeOK'
  BY <1>1, JournalAssumption DEF Core, StatementTypeOK, ReadDone, NoStatement
<1>3. ReaderSound' /\ Explained' /\ Paged'
  BY DEF ReadDone, ReaderSound, Explained, Paged, Answered
<1> QED
  BY <1>1, <1>2, <1>3 DEF Core

LEMMA ReaderKeepsCore ==
  ASSUME Core, StatementReader
  PROVE  Core'
BY AskKeeps, ReadBalanceKeeps, ReadRowsKeeps, ReadDoneKeeps DEF StatementReader

(***************************************************************************)
(* The recent activity.                                                    *)
(***************************************************************************)

\* Transactions as they are read: dated, and told apart by their ids.
IsShelf(T) ==
  /\ IsFiniteSet(T)
  /\ \A t \in T : /\ "at" \in DOMAIN t /\ t.at \in Nat
                  /\ "id" \in DOMAIN t /\ t.id \in Nat
  /\ \A t, u \in T : t.id = u.id => t = u

\* What a list leaves out is not later than anything on it, and the list full.
LEMMA NewestFills ==
  ASSUME NEW B, IsShelf(B), NEW a, NEW limit \in Nat,
         NEW t \in B, Names(t.row, a), t \notin Newest(B, a, limit)
  PROVE  /\ Cardinality(Newest(B, a, limit)) >= limit
         /\ \A u \in Newest(B, a, limit) : u.at >= t.at
<1> DEFINE N == {u \in B : Names(u.row, a)}
           F(u) == {v \in N : NewerThan(v, u)}
           r(u) == Cardinality(F(u))
           S == Newest(B, a, limit)
<1>1. S = {u \in N : r(u) < limit}
  BY DEF Newest
<1>2. IsFiniteSet(N) /\ t \in N
  BY FS_Subset DEF IsShelf
<1>3. \A u \in N : u.at \in Nat /\ u.id \in Nat
  BY DEF IsShelf
<1>4. \A u, v \in N : u.id = v.id => u = v
  BY DEF IsShelf
<1> HIDE DEF N
<1>5. ASSUME NEW u \in N
      PROVE  IsFiniteSet(F(u)) /\ r(u) \in Nat
  BY <1>2, FS_Subset, FS_CardinalityType
<1>6. ASSUME NEW u \in N, NEW v \in N, NewerThan(v, u)
      PROVE  r(v) < r(u)
  <2>1. F(v) \subseteq F(u)
    BY <1>3, <1>6 DEF NewerThan
  <2>2. v \in F(u) /\ v \notin F(v)
    BY <1>3, <1>6 DEF NewerThan
  <2>3. r(v) <= r(u) /\ r(u) # r(v)
    BY <1>5, <2>1, <2>2, FS_Subset
  <2> QED
    BY <1>5, <2>3
<1>7. ~(r(t) < limit)
  BY <1>1, <1>2
<1>8. ASSUME NEW u \in S
      PROVE  u.at >= t.at
  <2>1. u \in N /\ r(u) < limit
    BY <1>1
  <2>2. ~NewerThan(t, u)
    <3> SUFFICES ASSUME NewerThan(t, u) PROVE FALSE
      OBVIOUS
    <3>1. r(t) < r(u)
      BY <1>2, <1>6, <2>1
    <3>2. r(t) \in Nat /\ r(u) \in Nat
      BY <1>2, <1>5, <2>1
    <3> HIDE DEF r, F
    <3> QED
      BY <1>7, <2>1, <3>1, <3>2
  <2> QED
    BY <1>2, <1>3, <2>1, <2>2 DEF NewerThan
<1>9. Cardinality(S) >= limit
  <2> DEFINE R == {k \in Nat : \E u \in N \ S : k = r(u)}
  <2>1. R \in SUBSET Nat /\ r(t) \in R
    BY <1>1, <1>2, <1>5, <1>7
  <2>2. PICK k \in R : \A j \in R : k <= j
    <3> HIDE DEF R
    <3> QED
      BY <2>1, LeastNumber
  <2>3. PICK u \in N \ S : k = r(u)
    OBVIOUS
  <2>4. F(u) \subseteq S
    <3> SUFFICES ASSUME NEW v \in F(u), v \notin S PROVE FALSE
      OBVIOUS
    <3>1. v \in N /\ NewerThan(v, u)
      OBVIOUS
    <3>2. r(v) < r(u) /\ r(v) \in Nat /\ r(u) \in Nat
      BY <1>5, <1>6, <3>1
    <3>3. r(v) \in R
      BY <3>1, <3>2
    <3> HIDE DEF R, r, F
    <3> QED
      BY <2>2, <2>3, <3>2, <3>3
  <2>5. IsFiniteSet(S) /\ Cardinality(S) \in Nat
    <3>1. S \subseteq N
      BY <1>1
    <3> QED
      BY <1>2, <3>1, FS_Subset, FS_CardinalityType
  <2>6. r(u) <= Cardinality(S)
    BY <2>4, <2>5, FS_Subset
  <2>7. ~(r(u) < limit) /\ r(u) \in Nat
    BY <1>1, <1>5
  <2> HIDE DEF r, S
  <2> QED
    BY <2>5, <2>6, <2>7
<1> QED
  BY <1>8, <1>9

\* What is kept of a time keeps to the order of the times.
LEMMA AsReadKeeps ==
  ASSUME NEW x \in Nat, NEW y \in Nat, x <= y
  PROVE  AsRead(x) \in Int /\ AsRead(y) \in Int /\ AsRead(x) <= AsRead(y)
<1> DEFINE d == TicksPerSecond
<1>1. d \in Nat \ {0}
  BY StatementsAssumption
<1> HIDE DEF d
<1>2. /\ x \div d \in Nat /\ x % d \in 0..(d - 1)
      /\ d * (x \div d) \in Int /\ x = d * (x \div d) + (x % d)
  BY <1>1, Parted
<1>3. /\ y \div d \in Nat /\ y % d \in 0..(d - 1)
      /\ d * (y \div d) \in Int /\ y = d * (y \div d) + (y % d)
  BY <1>1, Parted
<1> DEFINE k == y \div d
           j == x \div d
<1>4. d * k + (y % d) >= d * j
  <2> HIDE DEF k, j
  <2>1. x = d * j + (x % d) /\ y = d * k + (y % d) /\ d * j \in Int
    BY <1>2, <1>3 DEF k, j
  <2>2. x % d >= 0 /\ x % d \in Int
    BY <1>1, <1>2
  <2> QED
    BY <2>1, <2>2
<1>5. k >= j
  <2>1. k \in Int /\ j \in Int
    BY <1>2, <1>3
  <2> HIDE DEF k, j
  <2>2. y % d \in 0..(d - 1)
    BY <1>3
  <2> QED
    BY <1>1, <1>4, <2>1, <2>2, Units
<1>6. d * k >= d * j
  <2>1. k \in Int /\ j \in Int /\ 0 \in 0..(d - 1)
    BY <1>1, <1>2, <1>3
  <2> HIDE DEF k, j
  <2>2. d * k + 0 >= d * j /\ d * k \in Int
    BY <1>1, <1>5, <2>1, Units
  <2> QED
    BY <2>2
<1>7. CASE backend = "C"
  <2>1. AsRead(x) = x - (x % d) /\ AsRead(y) = y - (y % d)
    BY <1>7 DEF AsRead, d
  <2>2. AsRead(x) = d * j /\ AsRead(y) = d * k /\ d * j \in Int /\ d * k \in Int
    <3> DEFINE m == x % d
               n == y % d
    <3>1. m \in Int /\ n \in Int
      BY <1>1, <1>2, <1>3
    <3>2. /\ x = d * j + m /\ y = d * k + n
          /\ d * j \in Int /\ d * k \in Int
      BY <1>2, <1>3
    <3>3. AsRead(x) = x - m /\ AsRead(y) = y - n
      BY <2>1
    <3> HIDE DEF m, n, k, j
    <3> QED
      BY <3>1, <3>2, <3>3
  <2> HIDE DEF k, j
  <2> QED
    BY <1>6, <2>2
<1>8. CASE backend # "C"
  BY <1>8 DEF AsRead
<1> QED
  BY <1>7, <1>8

\* A transaction as it is read.
Heard(t) == [t EXCEPT !.at = AsRead(t.at)]

LEMMA ReadIs ==
  ASSUME NEW T, IsShelf(T)
  PROVE  /\ Read(T) = {Heard(t) : t \in T}
         /\ \A t \in T : Heard(t).at = AsRead(t.at) /\ Heard(t).id = t.id
BY DEF Read, Heard, IsShelf

LEMMA ReadCounts ==
  ASSUME NEW T, IsShelf(T)
  PROVE  /\ IsFiniteSet(Read(T)) /\ Cardinality(Read(T)) = Cardinality(T)
         /\ Cardinality(T) \in Nat
<1> DEFINE f == [t \in T |-> Heard(t)]
<1>1. \A t, u \in T : Heard(t) = Heard(u) => t = u
  BY ReadIs DEF IsShelf
<1>2. f \in Bijection(T, Read(T))
  <2>1. DOMAIN f = T /\ f \in [T -> Read(T)] /\ \A t \in T : f[t] = Heard(t)
    BY ReadIs
  <2>2. \A u \in Read(T) : \E t \in T : f[t] = u
    BY ReadIs, <2>1
  <2> HIDE DEF f
  <2> QED
    BY <1>1, <2>1, <2>2 DEF Bijection, Injection, Surjection, IsInjective
<1>3. ExistsBijection(T, Read(T))
  BY <1>2 DEF ExistsBijection
<1> QED
  BY <1>3, FS_Bijection, FS_CardinalityType DEF IsShelf

\* The first of what was read, newest first.
IsRecent(shown, T, newest) ==
  /\ newest \in NewestFirst(T)
  /\ shown = SubSeq(newest, 1, IF RecentShown < Len(newest) THEN RecentShown
                               ELSE Len(newest))

\* The lists of a page: all that was read is newer, last or after it.
IsFirst(shown, n, T, newest) ==
  /\ n \in Nat /\ n = Cardinality(T)
  /\ Len(newest) = n
  /\ \A i \in 1..n : newest[i].at \in Int /\ newest[i].id \in Nat
  /\ \A i, j \in 1..n : newest[i] = newest[j] => i = j
  /\ \A i, j \in 1..n : i < j => NewerThan(newest[i], newest[j])
  /\ \A t \in T : \E i \in 1..n : newest[i] = Heard(t)
  /\ Len(shown) = IF RecentShown < n THEN RecentShown ELSE n
  /\ \A i \in 1..Len(shown) : shown[i] = newest[i]

LEMMA RecentIsFirst ==
  ASSUME NEW T, IsShelf(T), NEW newest, NEW shown, IsRecent(shown, T, newest)
  PROVE  IsFirst(shown, Cardinality(T), T, newest)
<1> DEFINE S == Read(T)
           Order == {p \in S \X S : NewerThan(p[1], p[2])}
           n == Cardinality(T)
<1>1. IsFiniteSet(S) /\ Cardinality(S) = n /\ n \in Nat
  BY ReadCounts
<1>2. newest \in Orders(S, Order)
  BY DEF IsRecent, NewestFirst
<1>3. \A x, y \in S : <<x, y>> \in Order => NewerThan(x, y)
  OBVIOUS
<1>4. \A x \in S : x.at \in Int /\ x.id \in Nat
  <2> SUFFICES ASSUME NEW t \in T
               PROVE  Heard(t).at \in Int /\ Heard(t).id \in Nat
    BY ReadIs
  <2>1. t.at \in Nat /\ t.id \in Nat /\ t.at <= t.at
    BY DEF IsShelf
  <2> QED
    BY <2>1, ReadIs, AsReadKeeps
<1>5. \A t \in T : Heard(t) \in S
  BY ReadIs
<1>6. RecentShown \in Nat
  BY DashboardAssumption
<1> HIDE DEF S, Order, n
<1>7. /\ newest \in Seq(S) /\ Len(newest) = n
      /\ \A i \in 1..n : newest[i] \in S
      /\ \A i, j \in 1..n : newest[i] = newest[j] => i = j
      /\ \A i, j \in 1..n : i < j => <<newest[i], newest[j]>> \in Order
      /\ \A x \in S : \E i \in 1..n : newest[i] = x
  BY <1>1, <1>2, OrderHas
<1>8. /\ Len(shown) = IF RecentShown < n THEN RecentShown ELSE n
      /\ \A i \in 1..Len(shown) : shown[i] = newest[i]
  BY <1>1, <1>6, <1>7 DEF IsRecent
<1>9. \A i, j \in 1..n : i < j => NewerThan(newest[i], newest[j])
  BY <1>3, <1>7
<1> QED
  BY <1>1, <1>4, <1>5, <1>7, <1>8, <1>9 DEF IsFirst, n

\* A transaction that was read is shown, or not later than the last shown.
LEMMA ReadIsShown ==
  ASSUME NEW T, IsShelf(T), NEW newest, NEW shown, IsRecent(shown, T, newest),
         NEW t \in T
  PROVE  \/ \E k \in 1..Len(shown) : shown[k].id = t.id
         \/ Len(shown) = RecentShown /\ AsRead(t.at) <= shown[Len(shown)].at
<1> DEFINE n == Cardinality(T)
<1>1. IsFirst(shown, n, T, newest)
  BY RecentIsFirst
<1> HIDE DEF n
<1>2. PICK i \in 1..n : newest[i] = Heard(t)
  BY <1>1 DEF IsFirst
<1>3. newest[i].id = t.id /\ newest[i].at = AsRead(t.at)
  BY <1>2, ReadIs
<1>4. RecentShown \in Nat \ {0}
  BY DashboardAssumption
<1>5. CASE i \in 1..Len(shown)
  BY <1>1, <1>3, <1>5 DEF IsFirst
<1>6. CASE i \notin 1..Len(shown)
  <2>1. Len(shown) = RecentShown /\ RecentShown < i /\ n \in Nat
    BY <1>1, <1>4, <1>6 DEF IsFirst
  <2>2. RecentShown \in 1..n /\ RecentShown \in 1..Len(shown)
    BY <1>4, <2>1
  <2>3. /\ NewerThan(newest[RecentShown], newest[i])
        /\ newest[i].at \in Int /\ newest[RecentShown].at \in Int
        /\ shown[RecentShown] = newest[RecentShown]
    BY <1>1, <2>1, <2>2 DEF IsFirst
  <2>4. newest[i].at <= newest[RecentShown].at
    BY <2>3 DEF NewerThan
  <2> QED
    BY <1>3, <2>1, <2>3, <2>4
<1> QED
  BY <1>5, <1>6

\* When as many were read that are not earlier as a list holds, the last shown
\* is not earlier.
LEMMA FullIsShown ==
  ASSUME NEW T, IsShelf(T), NEW newest, NEW shown, IsRecent(shown, T, newest),
         NEW U \in SUBSET T, Cardinality(U) >= RecentLimit,
         NEW x \in Nat, \A u \in U : u.at >= x
  PROVE  Len(shown) = RecentShown /\ AsRead(x) <= shown[Len(shown)].at
<1> DEFINE n == Cardinality(T)
           K == RecentShown
<1>1. IsFirst(shown, n, T, newest)
  BY RecentIsFirst
<1>2. K \in 1..RecentLimit /\ RecentLimit \in Nat
  BY DashboardAssumption
<1>3. IsShelf(U)
  <2>1. IsFiniteSet(U)
    BY FS_Subset DEF IsShelf
  <2> QED
    BY <2>1 DEF IsShelf
<1>4. Cardinality(U) \in Nat /\ n \in Nat /\ Cardinality(U) <= n
  BY <1>3, FS_Subset, FS_CardinalityType DEF IsShelf
<1>5. Len(shown) = K /\ K \in 1..n /\ K \in 1..Len(shown)
  <2> HIDE DEF n, K
  <2>1. Len(shown) = IF K < n THEN K ELSE n
    BY <1>1 DEF IsFirst, K
  <2> QED
    BY <1>2, <1>4, <2>1
<1>6. shown[K] = newest[K] /\ newest[K].at \in Int
  BY <1>1, <1>5 DEF IsFirst
<1>7. AsRead(x) <= newest[K].at
  <2> SUFFICES ASSUME ~(AsRead(x) <= newest[K].at)
               PROVE  FALSE
    OBVIOUS
  <2> DEFINE V == {newest[j] : j \in 1..(K - 1)}
  <2>1. K - 1 \in Nat /\ K \in Nat /\ \A j \in 1..(K - 1) : j \in 1..n
    BY <1>2, <1>4, <1>5
  <2>2. Read(U) \subseteq V
    <3> SUFFICES ASSUME NEW u \in U
                 PROVE  Heard(u) \in V
      BY <1>3, ReadIs
    <3>1. Heard(u).at = AsRead(u.at) /\ u.at \in Nat /\ u.at >= x
      BY <1>3, ReadIs DEF IsShelf
    <3>2. AsRead(x) <= AsRead(u.at) /\ AsRead(x) \in Int /\ AsRead(u.at) \in Int
      BY <3>1, AsReadKeeps
    <3>3. PICK i \in 1..n : newest[i] = Heard(u)
      BY <1>1 DEF IsFirst
    <3>4. newest[K].at < newest[i].at
      BY <1>6, <3>1, <3>2, <3>3
    <3>5. ~(K <= i)
      <4>1. i # K /\ newest[i].at \in Int
        BY <1>6, <3>1, <3>2, <3>3, <3>4
      <4>2. K < i => NewerThan(newest[K], newest[i])
        BY <1>1, <1>5 DEF IsFirst
      <4>3. ~NewerThan(newest[K], newest[i])
        BY <1>6, <3>4, <4>1 DEF NewerThan
      <4> QED
        BY <1>4, <1>5, <4>1, <4>2, <4>3
    <3>6. i \in 1..(K - 1)
      BY <1>4, <1>5, <3>5
    <3> QED
      BY <3>3, <3>6
  <2>3. IsFiniteSet(V) /\ Cardinality(V) = ((K - 1) - 1) + 1
    <3>1. \A j, k \in 1..(K - 1) : newest[j] = newest[k] => j = k
      BY <1>1, <2>1 DEF IsFirst
    <3> HIDE DEF K
    <3>2. IsStretch(V, newest, 1, K - 1)
      BY <2>1, <3>1 DEF IsStretch
    <3> HIDE DEF V
    <3> QED
      BY <3>2, StretchCounts
  <2>4. Cardinality(U) <= Cardinality(V)
    <3> HIDE DEF V
    <3> QED
      BY <1>3, <2>2, <2>3, ReadCounts, FS_Subset
  <2> HIDE DEF V, n
  <2> QED
    BY <1>2, <1>4, <2>3, <2>4
<1> QED
  BY <1>5, <1>6, <1>7

LEMMA BooksShelf ==
  ASSUME BooksSound
  PROVE  /\ IsShelf(Books)
         /\ Len(rows) \in Nat
         /\ \A i \in 1..Len(rows) :
              Listing(i) \in Books /\ stamps[i].at \in Nat
<1> DEFINE n == Len(rows)
           f == [i \in 1..n |-> Listing(i)]
<1>1. n \in Nat
  BY BookHasShape, JournalAssumption DEF BookShape
<1>2. \A i \in 1..n : /\ stamps[i].id = i /\ stamps[i].at \in Nat
                      /\ Listing(i).id = i /\ Listing(i).at \in Nat
                      /\ "id" \in DOMAIN Listing(i) /\ "at" \in DOMAIN Listing(i)
  <2> SUFFICES ASSUME NEW i \in 1..n
               PROVE  stamps[i].at \in Nat /\ stamps[i].id = i
    BY <1>1 DEF Listing
  <2>1. stamps[i] \in [id : Nat, at : 0..MaxClock]
    <3> DEFINE R == [id : Nat, at : 0..MaxClock]
    <3>1. stamps \in Seq(R) /\ Len(stamps) = n
      BY DEF BooksSound, JournalTypeOK
    <3> HIDE DEF R
    <3>2. stamps[i] \in R
      BY <1>1, <3>1
    <3> QED
      BY <3>2 DEF R
  <2> QED
    BY <2>1, JournalAssumption DEF BooksSound
<1>3. Books = {Listing(i) : i \in 1..n}
  BY DEF Books, Listing
<1>4. IsFiniteSet(Books)
  <2>1. DOMAIN f = 1..n /\ f \in [1..n -> Books] /\ \A i \in 1..n : f[i] = Listing(i)
    BY <1>3
  <2>2. \A t \in Books : \E i \in 1..n : f[i] = t
    BY <1>3
  <2> HIDE DEF f
  <2>3. f \in Surjection(1..n, Books)
    BY <2>1, <2>2 DEF Surjection
  <2>4. IsFiniteSet(1..n)
    BY <1>1, FS_Interval
  <2> QED
    BY <2>3, <2>4, FS_Surjection
<1> QED
  BY <1>1, <1>2, <1>3, <1>4 DEF IsShelf

\* Part of a shelf is one.
LEMMA PartShelf ==
  ASSUME NEW B, IsShelf(B), NEW T \in SUBSET B
  PROVE  IsShelf(T)
BY FS_Subset DEF IsShelf

RecentInv == RecentSound /\ RecentActivity

\* A list adds its account to those that are accounted for.
LEMMA ListKeepsAccounted ==
  ASSUME BooksSound, heard \subseteq Books, RecentSound, asOf \in Nat,
         \E i \in 0..Len(Owned) : todo = SubSeq(Owned, i + 1, Len(Owned)),
         step = "recent", ListNext("recent"),
         NEW a \in Owns \ ToSet(todo'), NEW i \in 1..asOf, Names(rows[i], a)
  PROVE  Accounted(i)'
<1> DEFINE b == Head(todo)
           S == Newest(Books, b, RecentLimit)
<1>1. /\ heard' = heard \cup S /\ todo' = Tail(todo) /\ todo # <<>>
      /\ stamps' = stamps
  BY DEF ListNext, LimitOf, world
<1>2. IsShelf(Books) /\ Listing(i) \in Books /\ stamps[i].at \in Nat
  BY BooksShelf DEF RecentSound
<1>3. \A T : /\ IsFiniteSet(Books) /\ (T \subseteq Books => IsFiniteSet(T))
  BY <1>2, FS_Subset DEF IsShelf
<1> USE DEF Accounted
<1>4. CASE a \notin ToSet(todo)
  <2>1. Accounted(i)
    BY <1>4 DEF RecentSound
  <2> QED
    BY <1>1, <2>1
<1>5. CASE a \in ToSet(todo)
  <2>1. a = b
    <3>1. todo \in Seq(Accounts)
      BY DashboardAssumption
    <3>0. DOMAIN todo = 1..Len(todo) /\ DOMAIN Tail(todo) = 1..Len(Tail(todo))
      BY <1>1, <3>1
    <3>2. PICK k \in 1..Len(todo) : a = todo[k]
      <4>1. PICK k \in DOMAIN todo : a = todo[k]
        BY <1>5 DEF ToSet
      <4> QED
        BY <3>0, <4>1
    <3>3. CASE k = 1
      BY <3>1, <3>2, <3>3
    <3>4. CASE k # 1
      <4>1. k - 1 \in 1..Len(Tail(todo)) /\ Tail(todo)[k - 1] = todo[k]
        BY <1>1, <3>1, <3>2, <3>4
      <4>2. a \in ToSet(todo')
        <5>1. a = Tail(todo)[k - 1] /\ k - 1 \in DOMAIN Tail(todo)
          BY <3>0, <3>2, <4>1
        <5>2. a \in ToSet(Tail(todo))
          BY <5>1 DEF ToSet
        <5> QED
          BY <1>1, <5>2
      <4> QED
        BY <4>2
    <3> QED
      BY <3>3, <3>4
  <2> DEFINE t == Listing(i)
  <2>2. /\ t \in Books /\ Names(t.row, b) /\ t.id = stamps[i].id
        /\ t.at = stamps[i].at
    BY <1>2, <2>1 DEF Listing
  <2>3. RecentLimit \in Nat
    BY DashboardAssumption
  <2>4. CASE t \in S
    BY <1>1, <2>2, <2>4
  <2>5. CASE t \notin S
    <3> HIDE DEF t, b
    <3>1. Cardinality(S) >= RecentLimit /\ \A u \in S : u.at >= t.at
      BY <1>2, <2>2, <2>3, <2>5, NewestFills
    <3> QED
      BY <1>1, <2>2, <3>1
  <2> QED
    BY <2>4, <2>5
<1> QED
  BY <1>4, <1>5

\* What the recent activity leaves out when it is made of the lists.
LEMMA ClosingIsRecent ==
  ASSUME BooksSound, heard \subseteq Books, RecentSound, asOf \in Nat,
         step = "recent", todo = <<>>,
         NEW newest, NEW shown, IsRecent(shown, heard, newest)
  PROVE  /\ \A i, j \in 1..Len(shown) : i < j => NewerThan(shown[i], shown[j])
         /\ \A i \in 1..asOf :
              (\E a \in Owns : Names(rows[i], a)) =>
                \/ \E k \in 1..Len(shown) : shown[k].id = stamps[i].id
                \/ /\ Len(shown) = RecentShown
                   /\ AsRead(stamps[i].at) <= shown[Len(shown)].at
<1>1. IsShelf(heard)
  BY BooksShelf, PartShelf
<1>2. IsFirst(shown, Cardinality(heard), heard, newest)
  BY <1>1, RecentIsFirst
<1>3. \A i, j \in 1..Len(shown) : i < j => NewerThan(shown[i], shown[j])
  <2> DEFINE n == Cardinality(heard)
  <2>1. n \in Nat /\ Len(shown) \in 0..n
    BY <1>2, DashboardAssumption DEF IsFirst
  <2> HIDE DEF n
  <2> QED
    BY <1>2, <2>1 DEF IsFirst, n
<1>4. ASSUME NEW i \in 1..asOf, NEW a \in Owns, Names(rows[i], a)
      PROVE  \/ \E k \in 1..Len(shown) : shown[k].id = stamps[i].id
             \/ /\ Len(shown) = RecentShown
                /\ AsRead(stamps[i].at) <= shown[Len(shown)].at
  <2>1. a \notin ToSet(todo)
    BY DEF ToSet
  <2>2. Accounted(i)
    BY <1>4, <2>1 DEF RecentSound
  <2>3. stamps[i].at \in Nat
    BY BooksShelf DEF RecentSound
  <2>4. CASE \E t \in heard : t.id = stamps[i].id /\ t.at = stamps[i].at
    BY <1>1, <2>4, ReadIsShown
  <2>5. CASE \E U \in SUBSET heard :
               Cardinality(U) >= RecentLimit /\ \A u \in U : u.at >= stamps[i].at
    BY <1>1, <2>3, <2>5, FullIsShown
  <2> QED
    BY <2>2, <2>4, <2>5 DEF Accounted
<1> QED
  BY <1>3, <1>4

(***************************************************************************)
(* The steps of a page.                                                    *)
(***************************************************************************)

\* The accounts that are still to be listed, and what was heard of the others.
PageTypeOK ==
  /\ "kind" \in DOMAIN page /\ page.kind \in Pages \cup {Absent}
  /\ step \in {"idle", "accounts", "now", "current", "previous", "recent",
               "shown"}
  /\ \E i \in 0..Len(Owned) : todo = SubSeq(Owned, i + 1, Len(Owned))
  /\ heard \subseteq Books

LEMMA TodoIs ==
  /\ Owned = SubSeq(Owned, 1, Len(Owned))
  /\ <<>> = SubSeq(Owned, Len(Owned) + 1, Len(Owned))
  /\ \A i \in 0..Len(Owned) :
       SubSeq(Owned, i + 1, Len(Owned)) # <<>> =>
         /\ i + 1 \in 0..Len(Owned)
         /\ Tail(SubSeq(Owned, i + 1, Len(Owned)))
              = SubSeq(Owned, (i + 1) + 1, Len(Owned))
<1> DEFINE n == Len(Owned)
           T == Accounts \ {Bank}
<1>1. Owned \in Seq(T) /\ n \in Nat
  BY DashboardAssumption
<1> HIDE DEF n, T
<1>2. Owned = SubSeq(Owned, 1, n)
  BY <1>1 DEF n
<1>3. <<>> = SubSeq(Owned, n + 1, n)
  BY <1>1
<1>4. ASSUME NEW i \in 0..n, SubSeq(Owned, i + 1, n) # <<>>
      PROVE  /\ i + 1 \in 0..n
             /\ Tail(SubSeq(Owned, i + 1, n)) = SubSeq(Owned, (i + 1) + 1, n)
  <2>1. i + 1 <= n
    BY <1>1, <1>4
  <2>2. Tail(SubSeq(Owned, i + 1, n)) = SubSeq(Owned, (i + 1) + 1, n)
    BY <1>1, <2>1 DEF n
  <2> QED
    BY <1>1, <2>1, <2>2
<1> QED
  BY <1>2, <1>3, <1>4 DEF n

\* A part that is added to a page leaves its kind alone.
LEMMA PageKind ==
  ASSUME "kind" \in DOMAIN page, NEW parts, "kind" \notin DOMAIN parts
  PROVE  "kind" \in DOMAIN With(parts) /\ With(parts).kind = page.kind
BY DEF With

\* What no page reads or writes.
PageLeaves == UNCHANGED <<world, backend, pc, query, seen, result>>

LEMMA PageReaderLeaves ==
  ASSUME PageReader
  PROVE  PageLeaves /\ (step # "idle" \/ pc = "idle")
BY DEF PageReader, AskPage, ReadAccounts, LookAtClock, ListNext, Current,
       Previous, ChartAndRecent, PageDone, Closing, PageLeaves, reader

LEMMA PageKeepsType ==
  ASSUME Core, PageTypeOK, PageReader
  PROVE  PageTypeOK' /\ asOf' \in 0..MaxRows /\ upTo' \in 0..MaxRows
<1>1. PageLeaves
  BY PageReaderLeaves
<1>2. Books' = Books /\ Len(rows) \in 0..MaxRows
  <2>1. rows' = rows /\ stamps' = stamps
    BY <1>1 DEF PageLeaves, world
  <2>2. Len(rows) \in 0..MaxRows
    BY BookHasShape DEF Core, BookShape
  <2> QED
    BY <2>1, <2>2 DEF Books, Listing
<1>3. /\ asOf \in 0..MaxRows /\ upTo \in 0..MaxRows /\ 0 \in 0..MaxRows
      /\ Len(Owned) \in Nat
  BY JournalAssumption, DashboardAssumption DEF Core, StatementTypeOK
<1>4. Owned = SubSeq(Owned, 0 + 1, Len(Owned)) /\ 0 \in 0..Len(Owned)
      /\ <<>> = SubSeq(Owned, Len(Owned) + 1, Len(Owned))
      /\ Len(Owned) \in 0..Len(Owned)
  BY <1>3, TodoIs
<1> DEFINE OfOwned(t) == \E i \in 0..Len(Owned) : t = SubSeq(Owned, i + 1, Len(Owned))
<1>5. OfOwned(Owned) /\ OfOwned(<<>>)
  BY <1>4
<1>6. /\ "kind" \in DOMAIN page /\ page.kind \in Pages \cup {Absent}
      /\ OfOwned(todo) /\ heard \subseteq Books
  BY DEF PageTypeOK
<1>0. PageTypeOK' <=>
        /\ "kind" \in DOMAIN page' /\ page'.kind \in Pages \cup {Absent}
        /\ step' \in {"idle", "accounts", "now", "current", "previous",
                      "recent", "shown"}
        /\ OfOwned(todo') /\ heard' \subseteq Books'
  BY DEF PageTypeOK
<1> HIDE DEF OfOwned
<1>7. CASE AskPage
  <2>1. PICK k \in Pages : page' = [kind |-> k]
    BY <1>7 DEF AskPage
  <2>2. "kind" \in DOMAIN page' /\ page'.kind = k
    BY <2>1
  <2> QED
    BY <1>0, <1>2, <1>3, <1>6, <1>7, <2>2 DEF AskPage, reader
<1>8. CASE ReadAccounts
  <2> DEFINE part == [total |-> SumFunctionOnSet(balance, Owns)]
  <2>1. page' = With(part) /\ "kind" \notin DOMAIN part
    BY <1>8 DEF ReadAccounts
  <2> HIDE DEF part
  <2>2. "kind" \in DOMAIN page' /\ page'.kind = page.kind
    BY <1>6, <2>1, PageKind
  <2> QED
    BY <1>0, <1>2, <1>3, <1>5, <1>6, <1>8, <2>2 DEF ReadAccounts
<1>9. CASE LookAtClock
  <2> DEFINE part == [now |-> AsRead(clock)]
  <2>1. page' = With(part) /\ "kind" \notin DOMAIN part
    BY <1>9 DEF LookAtClock
  <2> HIDE DEF part
  <2>2. "kind" \in DOMAIN page' /\ page'.kind = page.kind
    BY <1>6, <2>1, PageKind
  <2> QED
    BY <1>0, <1>2, <1>3, <1>5, <1>6, <1>9, <2>2 DEF LookAtClock
<1>10. ASSUME NEW s \in {"current", "previous", "recent"}, ListNext(s)
       PROVE  PageTypeOK' /\ asOf' \in 0..MaxRows /\ upTo' \in 0..MaxRows
  <2>1. OfOwned(Tail(todo))
    <3>1. PICK i \in 0..Len(Owned) : todo = SubSeq(Owned, i + 1, Len(Owned))
      BY <1>6 DEF OfOwned
    <3>2. todo # <<>>
      BY <1>10 DEF ListNext
    <3> QED
      BY <3>1, <3>2, TodoIs DEF OfOwned
  <2>2. Newest(Books, Head(todo), LimitOf(s)) \subseteq Books
    BY DEF Newest
  <2> QED
    BY <1>0, <1>2, <1>3, <1>6, <1>10, <2>1, <2>2 DEF ListNext, reader, PageTypeOK
<1>11. CASE Current
  <2>1. \E f : page' = With([current |-> f])
    BY <1>11 DEF Current, Closing
  <2>2. PICK f : page' = With([current |-> f])
    BY <2>1
  <2>3. "kind" \in DOMAIN page' /\ page'.kind = page.kind
    <3> DEFINE part == [current |-> f]
    <3>1. "kind" \notin DOMAIN part
      OBVIOUS
    <3> HIDE DEF part
    <3>2. page' = With(part)
      BY <2>2 DEF part
    <3> QED
      BY <1>6, <3>1, <3>2, PageKind
  <2> QED
    BY <1>0, <1>2, <1>3, <1>5, <1>6, <1>11, <2>3 DEF Current, Closing
<1>12. CASE Previous
  <2>1. \E f : page' = With([previous |-> f])
    BY <1>12 DEF Previous, Closing
  <2>2. PICK f : page' = With([previous |-> f])
    BY <2>1
  <2>3. "kind" \in DOMAIN page' /\ page'.kind = page.kind
    <3> DEFINE part == [previous |-> f]
    <3>1. "kind" \notin DOMAIN part
      OBVIOUS
    <3> HIDE DEF part
    <3>2. page' = With(part)
      BY <2>2 DEF part
    <3> QED
      BY <1>6, <3>1, <3>2, PageKind
  <2> QED
    BY <1>0, <1>2, <1>3, <1>5, <1>6, <1>12, <2>3 DEF Previous, Closing, reader
<1>13. CASE ChartAndRecent
  <2>1. \E f, g : page' = With([chart |-> f, recent |-> g])
    BY <1>13 DEF ChartAndRecent, Closing
  <2>2. PICK f, g : page' = With([chart |-> f, recent |-> g])
    BY <2>1
  <2>3. "kind" \in DOMAIN page' /\ page'.kind = page.kind
    <3> DEFINE part == [chart |-> f, recent |-> g]
    <3>1. "kind" \notin DOMAIN part
      OBVIOUS
    <3> HIDE DEF part
    <3>2. page' = With(part)
      BY <2>2 DEF part
    <3> QED
      BY <1>6, <3>1, <3>2, PageKind
  <2> QED
    BY <1>0, <1>2, <1>3, <1>5, <1>6, <1>13, <2>3 DEF ChartAndRecent, Closing
<1>14. CASE PageDone
  <2>1. page' = NoPage
    BY <1>14 DEF PageDone
  <2>2. "kind" \in DOMAIN page' /\ page'.kind = Absent
    BY <2>1 DEF NoPage
  <2> QED
    BY <1>0, <1>2, <1>3, <1>5, <1>14, <2>2 DEF PageDone
<1> QED
  BY <1>7, <1>8, <1>9, <1>10, <1>11, <1>12, <1>13, <1>14 DEF PageReader

LEMMA PageKeepsCore ==
  ASSUME Core, PageTypeOK, OneReader, PageReader
  PROVE  Core' /\ OneReader' /\ PageTypeOK'
<1>1. /\ PageTypeOK' /\ asOf' \in 0..MaxRows /\ upTo' \in 0..MaxRows
      /\ PageLeaves
  BY PageKeepsType, PageReaderLeaves
<1>2. pc = "idle"
  BY PageReaderLeaves DEF OneReader
<1>3. pc' = "idle" /\ UNCHANGED world
  BY <1>1, <1>2 DEF PageLeaves
<1>4. BooksSound' /\ JournalTypeOK'
  BY <1>3, SameWorld DEF Core
<1>5. StatementTypeOK'
  BY <1>1, <1>4 DEF Core, StatementTypeOK, PageLeaves
<1>6. ReaderSound' /\ Explained' /\ Paged' /\ OneReader'
  BY <1>3 DEF ReaderSound, Explained, Paged, Answered, OneReader
<1> QED
  BY <1>1, <1>4, <1>5, <1>6 DEF Core

\* Lists that were read stay true of books that grow.
LEMMA WorldKeepsPage ==
  ASSUME Core, PageTypeOK, JournalNext, UNCHANGED dash
  PROVE  PageTypeOK'
<1>1. BooksSound /\ BooksSound' /\ Grows
  BY JournalKeeps DEF Core
<1>2. Books \subseteq Books'
  <2>1. Len(rows) \in Nat /\ Len(rows') \in Nat
    <3>1. BookShape /\ BookShape'
      BY <1>1, BookHasShape, PTL
    <3> QED
      BY <3>1, JournalAssumption DEF BookShape
  <2>2. ASSUME NEW i \in 1..Len(rows)
        PROVE  /\ i \in 1..Len(rows')
               /\ rows'[i] = rows[i] /\ stamps'[i] = stamps[i]
    BY <1>1, <2>1 DEF Grows
  <2> QED
    BY <2>2 DEF Books, Listing
<1> QED
  BY <1>2 DEF PageTypeOK, dash

\* Steps that make no recent activity, and none of its lists.
LEMMA QuietKeepsRecent ==
  ASSUME RecentInv, Len(rows) \in Nat, asOf \in Nat,
         rows' = rows, asOf' \in {0, asOf, Len(rows)}, step' # "recent",
         step' = "shown" => page'.kind # "dashboard"
  PROVE  RecentInv'
<1>1. asOf' <= Len(rows')
  BY DEF RecentInv, RecentSound
<1> QED
  BY <1>1 DEF RecentInv, RecentSound, RecentActivity, Shown

LEMMA PageKeepsRecent ==
  ASSUME Core, PageTypeOK, RecentInv, PageReader
  PROVE  RecentInv'
<1>1. /\ rows' = rows /\ stamps' = stamps /\ backend' = backend
      /\ BooksSound /\ RecentSound /\ heard \subseteq Books
      /\ "kind" \in DOMAIN page
  BY PageReaderLeaves DEF PageLeaves, world, Core, RecentInv, PageTypeOK
<1>2. Len(rows) \in Nat /\ asOf \in Nat
  BY <1>1, BooksShelf, JournalAssumption DEF Core, StatementTypeOK
<1>3. CASE AskPage
  BY <1>1, <1>2, <1>3, QuietKeepsRecent DEF AskPage, reader
<1>4. CASE ReadAccounts
  <2> DEFINE part == [total |-> SumFunctionOnSet(balance, Owns)]
  <2>1. page' = With(part) /\ "kind" \notin DOMAIN part
    BY <1>4 DEF ReadAccounts
  <2> HIDE DEF part
  <2>2. page'.kind = page.kind
    BY <1>1, <2>1, PageKind
  <2> QED
    BY <1>1, <1>2, <1>4, <2>2, QuietKeepsRecent DEF ReadAccounts
<1>5. CASE LookAtClock
  BY <1>1, <1>2, <1>5, QuietKeepsRecent DEF LookAtClock
<1>6. ASSUME NEW s \in {"current", "previous", "recent"}, ListNext(s)
      PROVE  RecentInv'
  <2>0. step = s /\ step' = step /\ asOf' = asOf
    BY <1>6 DEF ListNext, reader
  <2>1. CASE s # "recent"
    BY <1>1, <1>2, <2>0, <2>1, QuietKeepsRecent
  <2>2. CASE s = "recent"
    <3>1. \A a \in Owns \ ToSet(todo') : \A i \in 1..asOf :
            Names(rows[i], a) => Accounted(i)'
      BY <1>1, <1>2, <1>6, <2>0, <2>2, ListKeepsAccounted DEF PageTypeOK
    <3>2. RecentSound'
      BY <1>1, <2>0, <3>1 DEF RecentSound
    <3> QED
      BY <2>0, <2>2, <3>2 DEF RecentInv, RecentActivity, Shown
  <2> QED
    BY <2>1, <2>2
<1>7. CASE Current
  <2>1. \E f : page' = With([current |-> f])
    BY <1>7 DEF Current, Closing
  <2>2. PICK f : page' = With([current |-> f])
    BY <2>1
  <2>3. page'.kind = page.kind
    <3> DEFINE part == [current |-> f]
    <3>1. "kind" \notin DOMAIN part
      OBVIOUS
    <3> HIDE DEF part
    <3>2. page' = With(part)
      BY <2>2 DEF part
    <3> QED
      BY <1>1, <3>1, <3>2, PageKind
  <2>4. asOf' = asOf /\ step' # "recent"
        /\ (step' = "shown" => page.kind # "dashboard")
    BY <1>7 DEF Current, Closing
  <2> QED
    BY <1>1, <1>2, <2>3, <2>4, QuietKeepsRecent
<1>8. CASE Previous
  <2>1. step' = "recent" /\ todo' = Owned /\ asOf' = asOf
    BY <1>8 DEF Previous, Closing, reader
  <2>2. RecentSound'
    BY <1>1, <2>1 DEF RecentSound, Owns
  <2> QED
    BY <2>1, <2>2 DEF RecentInv, RecentActivity, Shown
<1>9. CASE ChartAndRecent
  <2>1. /\ step = "recent" /\ todo = <<>> /\ step' = "shown" /\ asOf' = asOf
        /\ \E f, newest, shown :
             /\ page' = With([chart |-> f, recent |-> shown])
             /\ IsRecent(shown, heard, newest)
    BY <1>9 DEF ChartAndRecent, Closing, IsRecent
  <2>2. PICK f, newest, shown : /\ page' = With([chart |-> f, recent |-> shown])
                                /\ IsRecent(shown, heard, newest)
    BY <2>1
  <2>3. page'.recent = shown
    BY <2>2 DEF With
  <2>4. /\ \A i, j \in 1..Len(shown) : i < j => NewerThan(shown[i], shown[j])
        /\ \A i \in 1..asOf :
             (\E a \in Owns : Names(rows[i], a)) =>
               \/ \E k \in 1..Len(shown) : shown[k].id = stamps[i].id
               \/ /\ Len(shown) = RecentShown
                  /\ AsRead(stamps[i].at) <= shown[Len(shown)].at
    BY <1>1, <1>2, <2>1, <2>2, ClosingIsRecent
  <2>5. RecentActivity'
    BY <1>1, <2>1, <2>3, <2>4 DEF RecentActivity, AsRead
  <2>6. RecentSound'
    BY <1>1, <2>1 DEF RecentSound
  <2> QED
    BY <2>5, <2>6 DEF RecentInv
<1>10. CASE PageDone
  BY <1>1, <1>2, <1>10, QuietKeepsRecent DEF PageDone
<1> QED
  BY <1>3, <1>4, <1>5, <1>6, <1>7, <1>8, <1>9, <1>10 DEF PageReader

\* The rows a page was begun with stay as they were.
LEMMA WorldKeepsRecent ==
  ASSUME Core, RecentInv, JournalNext, UNCHANGED <<reader, dash>>
  PROVE  RecentInv'
<1>1. Grows /\ BooksSound /\ BooksSound'
  BY JournalKeeps DEF Core
<1>2. Len(rows) \in Nat /\ asOf \in Nat /\ asOf <= Len(rows)
  BY <1>1, BooksShelf, JournalAssumption
     DEF Core, StatementTypeOK, RecentInv, RecentSound
<1>3. Len(rows') \in Nat
  <2>1. BookShape'
    BY <1>1, BookHasShape, PTL
  <2> QED
    BY <2>1, JournalAssumption DEF BookShape
<1>4. \A i \in 1..asOf : rows'[i] = rows[i] /\ stamps'[i] = stamps[i]
  BY <1>1, <1>2 DEF Grows
<1>5. /\ asOf' = asOf /\ step' = step /\ todo' = todo /\ heard' = heard
      /\ page' = page /\ backend' = backend /\ asOf <= Len(rows')
  BY <1>1, <1>2, <1>3 DEF reader, dash, Grows
<1>6. RecentSound'
  BY <1>4, <1>5 DEF RecentInv, RecentSound, Accounted
<1>7. RecentActivity'
  BY <1>4, <1>5 DEF RecentInv, RecentActivity, Shown, AsRead
<1> QED
  BY <1>6, <1>7 DEF RecentInv

\* A statement makes no page.
LEMMA ReaderKeepsRecent ==
  ASSUME Core, RecentInv, step = "idle", StatementReader, UNCHANGED dash
  PROVE  RecentInv'
<1>1. Len(rows) \in Nat /\ asOf \in Nat
  BY BooksShelf, JournalAssumption DEF Core, StatementTypeOK
<1>2. rows' = rows /\ step' = "idle" /\ asOf' \in {0, asOf, Len(rows)}
  BY DEF StatementReader, Ask, ReadBalance, ReadRows, ReadDone, world, dash
<1> QED
  BY <1>1, <1>2, QuietKeepsRecent

(***************************************************************************)
(* Months.                                                                 *)
(***************************************************************************)

\* So it is with months.
LEMMA MonthsAre ==
  ASSUME backend \in {"C", "Rust"}, NEW at \in Nat, NEW month \in Int
  PROVE  /\ AsRead(at) \in Int /\ MonthOf(at) \in Nat
         /\ MonthStart(month) \in Int /\ MonthEnd(month) \in Int
         /\ AsRead(at) >= MonthStart(month) <=> MonthOf(at) >= month
         /\ AsRead(at) <= MonthEnd(month)
              <=> MonthOf(at) <= month
                    /\ ~(MonthOf(at) = month /\ Lost(backend, at, TicksPerMonth))
<1> DEFINE D == TicksPerMonth
<1>1. TicksPerSecond \in Nat \ {0} /\ D \in Nat \ {0} /\ D % TicksPerSecond = 0
  <2>1. PICK d, t, s : d = DaysPerMonth /\ t = TicksPerDay /\ s = TicksPerSecond
    OBVIOUS
  <2>2. /\ d \in Nat \ {0} /\ t \in Nat \ {0} /\ s \in Nat \ {0} /\ t % s = 0
        /\ D = d * t
    BY <2>1, StatementsAssumption, DashboardAssumption DEF TicksPerMonth
  <2>3. /\ t \div s \in Nat /\ t = s * (t \div s)
    BY <2>2, Parted
  <2>4. D = s * (d * (t \div s)) /\ d * (t \div s) \in Nat
    BY <2>2, <2>3
  <2>5. D \in Nat \ {0}
    BY <2>2
  <2> HIDE DEF D
  <2>6. D % s = 0
    <3>1. PICK k, q, r, e : /\ k = d * (t \div s) /\ q = e \div s /\ r = e % s
                            /\ e = D
      OBVIOUS
    <3>2. k \in Int /\ e = s * k
      BY <2>4, <3>1
    <3>3. 0 \in 0..(s - 1) /\ e \in Nat /\ s \in Nat \ {0}
      BY <2>2, <2>5, <3>1
    <3>4. q \in Int /\ r \in 0..(s - 1) /\ e = s * q + r
      BY <3>1, <3>3, Parted
    <3>5. (s * q + r >= s * k <=> q >= k) /\ s * k \in Int /\ s * q \in Int
      BY <3>2, <3>3, <3>4, Units
    <3>6. s * k + 0 >= s * q <=> k >= q
      BY <3>2, <3>3, <3>4, Units
    <3>7. q >= k /\ k >= q
      BY <3>2, <3>3, <3>4, <3>5, <3>6
    <3>8. q = k
      BY <3>2, <3>4, <3>7
    <3>9. r = 0
      BY <3>2, <3>3, <3>4, <3>5, <3>8
    <3> QED
      BY <3>1, <3>9
  <2> QED
    BY <2>1, <2>2, <2>5, <2>6
<1>2. AsRead(at) = Rounded(backend, at)
  BY DEF AsRead, Rounded
<1>3. MonthStart(month) = month * D
      /\ MonthEnd(month) = (month + 1) * D - TicksPerSecond
      /\ MonthOf(at) = at \div D
  BY DEF MonthStart, MonthEnd, MonthOf
<1> HIDE DEF D
<1>4. /\ Rounded(backend, at) \in Int /\ at \div D \in Nat
      /\ month * D \in Int /\ (month + 1) * D \in Int
      /\ Rounded(backend, at) >= month * D <=> at \div D >= month
      /\ Rounded(backend, at) <= (month + 1) * D - TicksPerSecond
           <=> at \div D <= month /\ ~(at \div D = month /\ Lost(backend, at, D))
  BY <1>1, UnitsAre
<1>5. (month + 1) * D - TicksPerSecond \in Int
  BY <1>1, <1>4
<1> QED
  BY <1>2, <1>3, <1>4, <1>5 DEF D

(***************************************************************************)
(* What rows bring the customer.                                           *)
(***************************************************************************)

\* What a row brings the customer, and what the rows at the places I do.
Brings(r) == (IF r.to \in Owns THEN r.value ELSE 0)
               - (IF r.from \in Owns THEN r.value ELSE 0)
Brought(rs) == [i \in 1..Len(rs) |-> Brings(rs[i])]
Came(rs, I) == SumFunctionOnSet(Brought(rs), I)

\* What a row brings is a number, and nothing to those it does not name.
LEMMA BringsType ==
  ASSUME NEW r \in Row
  PROVE  /\ Brings(r) \in Int /\ r.value \in Nat
         /\ (\A a \in Owns : ~Names(r, a)) => Brings(r) = 0
<1>1. r.value \in Nat
  BY PostingAssumption DEF Row
<1>2. Brings(r) \in Int
  BY <1>1 DEF Brings
<1>3. (\A a \in Owns : ~Names(r, a)) => Brings(r) = 0
  BY DEF Brings, Names
<1> QED
  BY <1>1, <1>2, <1>3

\* It can be summed up over any rows.
LEMMA BroughtWeighs ==
  ASSUME NEW rs \in Seq(Row), NEW I \in SUBSET (1..Len(rs))
  PROVE  Weighs(Brought(rs), I) /\ Came(rs, I) \in Int
<1>1. Len(rs) \in Nat /\ \A i \in 1..Len(rs) : rs[i] \in Row
  OBVIOUS
<1>2. IsFiniteSet(I)
  <2>1. IsFiniteSet(1..Len(rs))
    BY <1>1, FS_Interval
  <2> QED
    BY <2>1, FS_Subset
<1>3. \A i \in I : Brought(rs)[i] \in Int
  BY <1>1, BringsType DEF Brought
<1>4. Weighs(Brought(rs), I)
  BY <1>2, <1>3 DEF Weighs
<1> QED
  BY <1>4, SumType DEF Came

\* No rows bring nothing; the rows of two parts bring what each part does; and
\* one row more brings its own.
LEMMA CameNone ==
  ASSUME NEW rs
  PROVE  Came(rs, {}) = 0
BY SumNone DEF Came

LEMMA CameParts ==
  ASSUME NEW rs \in Seq(Row), NEW I \in SUBSET (1..Len(rs)),
         NEW J \in SUBSET (1..Len(rs)), I \cap J = {}
  PROVE  Came(rs, I \cup J) = Came(rs, I) + Came(rs, J)
<1>1. Weighs(Brought(rs), I \cup J)
  BY BroughtWeighs
<1>2. SumFunctionOnSet(Brought(rs), I \cup J)
        = SumFunctionOnSet(Brought(rs), I) + SumFunctionOnSet(Brought(rs), J)
  BY <1>1, SumJoins
<1> QED
  BY <1>2 DEF Came

LEMMA CameOneMore ==
  ASSUME NEW rs \in Seq(Row), NEW I \in SUBSET (1..Len(rs)),
         NEW x \in 1..Len(rs), x \notin I
  PROVE  Came(rs, I \cup {x}) = Came(rs, I) + Brings(rs[x])
<1>1. Weighs(Brought(rs), I \cup {x})
  BY BroughtWeighs
<1>2. SumFunctionOnSet(Brought(rs), I \cup {x})
        = SumFunctionOnSet(Brought(rs), I) + Brought(rs)[x]
  BY <1>1, SumOneMore
<1> QED
  BY <1>2 DEF Came, Brought

\* Rows of others bring nothing.
LEMMA CameOwned ==
  ASSUME NEW rs \in Seq(Row), NEW I \in SUBSET (1..Len(rs)), NEW J \in SUBSET I,
         \A i \in I \ J : \A a \in Owns : ~Names(rs[i], a)
  PROVE  Came(rs, I) = Came(rs, J)
<1>1. Weighs(Brought(rs), I)
  BY BroughtWeighs
<1>2. \A i \in I \ J : Brought(rs)[i] = 0
  <2> SUFFICES ASSUME NEW i \in I \ J
               PROVE  Brought(rs)[i] = 0
    OBVIOUS
  <2>1. rs[i] \in Row /\ i \in 1..Len(rs)
    OBVIOUS
  <2> QED
    BY <2>1, BringsType DEF Brought
<1>3. SumFunctionOnSet(Brought(rs), I) = SumFunctionOnSet(Brought(rs), J)
  BY <1>1, <1>2, SumWithoutZeros
<1> QED
  BY <1>3 DEF Came

\* Rows there were bring what they brought.
LEMMA CameGrown ==
  ASSUME NEW rs \in Seq(Row), NEW more \in Seq(Row), Len(rs) <= Len(more),
         \A i \in 1..Len(rs) : more[i] = rs[i], NEW I \in SUBSET (1..Len(rs))
  PROVE  Came(more, I) = Came(rs, I)
<1>1. Weighs(Brought(rs), I)
  BY BroughtWeighs
<1>2. Alike(Brought(more), Brought(rs), I)
  <2> SUFFICES ASSUME NEW i \in I
               PROVE  Brought(more)[i] = Brought(rs)[i]
    BY DEF Alike
  <2>1. i \in 1..Len(rs) /\ i \in 1..Len(more)
    OBVIOUS
  <2> QED
    BY <2>1 DEF Brought
<1>3. SumFunctionOnSet(Brought(more), I) = SumFunctionOnSet(Brought(rs), I)
  BY <1>1, <1>2, SumAlike
<1> QED
  BY <1>3 DEF Came

\* That is what the net of rows is.
LEMMA NetAmongIs ==
  ASSUME rows \in Seq(Row), NEW I \in SUBSET (1..Len(rows))
  PROVE  NetAmong(I, Owns) = Came(rows, I)
<1> DEFINE n == Len(rows)
           x(k) == IF k \in I /\ rows[k].to \in Owns THEN rows[k].value ELSE 0
           y(k) == IF k \in I /\ rows[k].from \in Owns THEN rows[k].value ELSE 0
           G(h) == h = [k \in 0..n |-> IF k = 0 THEN 0 ELSE h[k - 1] + x(k) - y(k)]
           f == [k \in 0..n |-> Came(rows, I \cap (1..k))]
<1>1. n \in Nat /\ \A k \in 1..n : rows[k] \in Row
  OBVIOUS
<1>2. \A k \in 1..n : x(k) \in Int /\ y(k) \in Int
  BY <1>1, BringsType
<1>3. f[0] = 0
  <2>1. I \cap (1..0) = {}
    OBVIOUS
  <2> QED
    BY <1>1, <2>1, CameNone
<1>4. \A k \in 0..n : f[k] \in Int
  <2> SUFFICES ASSUME NEW k \in 0..n
               PROVE  Came(rows, I \cap (1..k)) \in Int
    OBVIOUS
  <2>1. I \cap (1..k) \in SUBSET (1..Len(rows))
    OBVIOUS
  <2> QED
    BY <2>1, BroughtWeighs
<1>5. ASSUME NEW k \in 1..n
      PROVE  f[k] = f[k - 1] + x(k) - y(k)
  <2>1. PICK J : J = I \cap (1..(k - 1))
    OBVIOUS
  <2>2. J \in SUBSET (1..n) /\ k \notin J /\ k \in 1..n /\ k - 1 \in 0..n /\ k \in 0..n
    BY <1>1, <2>1
  <2>3. f[k - 1] = Came(rows, J) /\ f[k] = Came(rows, I \cap (1..k))
    BY <2>1, <2>2
  <2>4. CASE k \in I
    <3>1. I \cap (1..k) = J \cup {k}
      BY <1>1, <2>1, <2>4
    <3>2. f[k] = f[k - 1] + Brings(rows[k])
      BY <2>2, <2>3, <3>1, CameOneMore
    <3>3. Brings(rows[k]) = x(k) - y(k)
      BY <2>4 DEF Brings
    <3>4. f[k - 1] \in Int /\ x(k) \in Int /\ y(k) \in Int
      BY <1>2, <1>4, <2>2
    <3> HIDE DEF f, x, y
    <3> QED
      BY <3>2, <3>3, <3>4
  <2>5. CASE k \notin I
    <3>1. I \cap (1..k) = J
      BY <1>1, <2>1, <2>5
    <3>2. f[k] = f[k - 1] /\ x(k) = 0 /\ y(k) = 0
      BY <2>3, <2>5, <3>1
    <3>3. f[k - 1] \in Int
      BY <1>4, <2>2
    <3> HIDE DEF f, x, y
    <3> QED
      BY <3>2, <3>3
  <2> QED
    BY <2>4, <2>5
<1>6. G(f)
  <2>1. DOMAIN f = 0..n /\ f = [k \in 0..n |-> f[k]]
    OBVIOUS
  <2> HIDE DEF f, x, y
  <2>2. ASSUME NEW k \in 0..n
        PROVE  f[k] = IF k = 0 THEN 0 ELSE f[k - 1] + x(k) - y(k)
    <3>1. k = 0 \/ k \in 1..n
      BY <1>1
    <3> QED
      BY <1>3, <1>5, <3>1
  <2> QED
    BY <2>1, <2>2
<1> DEFINE h == CHOOSE g : G(g)
<1>7. G(h)
  <2> HIDE DEF G
  <2> QED
    BY <1>6
<1>8. NetAmong(I, Owns) = h[n]
  BY DEF NetAmong
<1> HIDE DEF h, f, x, y
<1> DEFINE S == {k \in Nat : k <= n => h[k] = f[k]}
<1>9. 0 \in S
  BY <1>1, <1>3, <1>7
<1>10. ASSUME NEW k \in S
       PROVE  k + 1 \in S
  <2> SUFFICES ASSUME k + 1 <= n
               PROVE  h[k + 1] = f[k + 1]
    OBVIOUS
  <2>1. k + 1 \in 1..n /\ (k + 1) - 1 = k /\ h[k] = f[k] /\ k + 1 # 0 /\ k + 1 \in 0..n
    BY <1>1
  <2>2. h[k + 1] = h[k] + x(k + 1) - y(k + 1)
    BY <1>7, <2>1
  <2>3. f[k + 1] = f[k] + x(k + 1) - y(k + 1)
    BY <1>5, <2>1
  <2> QED
    BY <2>1, <2>2, <2>3
<1>11. S = Nat
  <2>1. S \in SUBSET Nat
    OBVIOUS
  <2> HIDE DEF S
  <2> QED
    BY <1>9, <1>10, <2>1, AllNumbers
<1>12. h[n] = f[n]
  BY <1>1, <1>11
<1>13. f[n] = Came(rows, I)
  <2>1. n \in 0..n
    BY <1>1
  <2>2. I \cap (1..n) = I
    OBVIOUS
  <2>3. f[n] = Came(rows, I \cap (1..n))
    BY <2>1 DEF f
  <2> QED
    BY <2>2, <2>3
<1> QED
  BY <1>8, <1>12, <1>13

(***************************************************************************)
(* What a range of the lists comes to.                                     *)
(***************************************************************************)

\* The money that came less the money that went is the net of what is counted.
LEMMA FlowIs ==
  ASSUME NEW f, NEW S, IsFiniteSet(S), NEW w, \A t \in S : w[t] = NetFor(f, t),
         \A t \in S : w[t] \in Int
  PROVE  NetFlow(FiguresOf(f, S))
           = SumFunctionOnSet(w, {t \in S : Counted(f, t)})
<1>1. PICK C, A, B : /\ C = {t \in S : Counted(f, t)}
                     /\ A = {t \in C : NetFor(f, t) > 0}
                     /\ B = C \ A
  OBVIOUS
<1>2. PICK u, v : /\ u = [t \in A |-> NetFor(f, t)]
                  /\ v = [t \in B |-> -NetFor(f, t)]
  OBVIOUS
<1>3. NetFlow(FiguresOf(f, S)) = SumFunction(u) - SumFunction(v)
  BY <1>1, <1>2 DEF NetFlow, FiguresOf, SumsOf
<1>4. A \cup B = C /\ A \cap B = {} /\ C \in SUBSET S
  BY <1>1
<1>5. IsFiniteSet(C) /\ IsFiniteSet(A) /\ IsFiniteSet(B)
  BY <1>4, FS_Subset
<1>6. Weighs(w, A \cup B)
  BY <1>4, <1>5 DEF Weighs
<1>7. /\ SumFunctionOnSet(w, A \cup B)
           = SumFunctionOnSet(w, A) + SumFunctionOnSet(w, B)
      /\ Weighs(w, A) /\ Weighs(w, B)
  BY <1>4, <1>6, SumJoins
<1>8. SumFunction(u) = SumFunctionOnSet(w, A)
  <2>1. DOMAIN u = A /\ Alike(u, w, A)
    BY <1>2, <1>4 DEF Alike
  <2> QED
    BY <1>7, <2>1, SumAlike DEF SumFunction
<1>9. SumFunction(v) = 0 - SumFunctionOnSet(w, B)
  <2>1. DOMAIN v = B /\ \A t \in B : v[t] = 0 - w[t] /\ w[t] \in Int
    BY <1>2, <1>4
  <2>2. PICK z : z = [t \in B |-> 0]
    OBVIOUS
  <2>3. SumFunctionOnSet(z, B) = 0 /\ Weighs(z, B)
    <3>1. \A t \in B : z[t] = 0
      BY <2>2
    <3> QED
      BY <1>5, <3>1, SumOfZeros DEF Weighs
  <2>4. \A t \in B : v[t] = z[t] - w[t]
    BY <2>1, <2>2
  <2>5. SumFunctionOnSet(v, B) = SumFunctionOnSet(z, B) - SumFunctionOnSet(w, B)
    BY <1>7, <2>3, <2>4, SumSubtracts
  <2> QED
    BY <2>1, <2>3, <2>5 DEF SumFunction
<1>10. SumFunctionOnSet(w, A) \in Int /\ SumFunctionOnSet(w, B) \in Int
  BY <1>7, SumType
<1>11. SumFunction(u) - SumFunction(v) = SumFunctionOnSet(w, A \cup B)
  BY <1>7, <1>8, <1>9, <1>10
<1>12. SumFunctionOnSet(w, A \cup B) = SumFunctionOnSet(w, C)
  BY <1>4
<1> QED
  BY <1>1, <1>3, <1>11, <1>12

\* What the lists have of the rows at the places I, and which of these are in a
\* range of times.
Listings(I) == {Listing(i) : i \in I}
InRange(i, from, to) == /\ AsRead(stamps[i].at) >= from
                        /\ AsRead(stamps[i].at) <= to
Asks(from, to) == [owned |-> Owns, scope |-> Absent, from |-> from, to |-> to,
                   kind |-> Absent]
AsHeard(i) == Heard(Listing(i))

\* What a list has of a row, once its time was read.
LEMMA HeardIs ==
  ASSUME BooksSound, NEW i \in 1..Len(rows)
  PROVE  /\ AsHeard(i).id = i /\ AsHeard(i).at = AsRead(stamps[i].at)
         /\ AsHeard(i).row = rows[i] /\ rows[i] \in Row
         /\ Listing(i) \in Books /\ Listing(i).id = i
         /\ Listing(i).row = rows[i] /\ Listing(i).at = stamps[i].at
         /\ stamps[i].at \in Nat
<1>1. IsShelf(Books) /\ Listing(i) \in Books /\ stamps[i].at \in Nat
  BY BooksShelf
<1>2. rows[i] \in Row /\ stamps[i].id = i
  BY BookIs DEF BooksSound
<1>3. /\ Listing(i).id = i /\ Listing(i).row = rows[i]
      /\ Listing(i).at = stamps[i].at
  BY <1>2 DEF Listing
<1>4. AsHeard(i).id = Listing(i).id /\ AsHeard(i).at = AsRead(Listing(i).at)
  BY <1>1, ReadIs DEF AsHeard
<1>5. AsHeard(i).row = rows[i]
  BY <1>3 DEF AsHeard, Heard, Listing
<1> QED
  BY <1>1, <1>2, <1>3, <1>4, <1>5

\* The lists have each row once.
LEMMA ListingsRead ==
  ASSUME BooksSound, NEW I \in SUBSET (1..Len(rows))
  PROVE  /\ Listings(I) \subseteq Books /\ IsFiniteSet(Read(Listings(I)))
         /\ IsFiniteSet(I)
         /\ Read(Listings(I)) = {AsHeard(i) : i \in I}
         /\ \A i, j \in I : AsHeard(i) = AsHeard(j) => i = j
<1>1. \A i \in I : Listing(i) \in Books
  BY HeardIs
<1>2. Listings(I) \subseteq Books
  BY <1>1 DEF Listings
<1>3. IsShelf(Listings(I))
  BY <1>2, BooksShelf, PartShelf
<1>4. Read(Listings(I)) = {Heard(t) : t \in Listings(I)}
  BY <1>3, ReadIs
<1>5. Read(Listings(I)) = {AsHeard(i) : i \in I}
  BY <1>4 DEF Listings, AsHeard
<1>6. \A i, j \in I : AsHeard(i) = AsHeard(j) => i = j
  <2> SUFFICES ASSUME NEW i \in I, NEW j \in I, AsHeard(i) = AsHeard(j)
               PROVE  i = j
    OBVIOUS
  <2>1. i \in 1..Len(rows) /\ j \in 1..Len(rows)
    OBVIOUS
  <2>2. AsHeard(i).id = i /\ AsHeard(j).id = j
    BY <2>1, HeardIs
  <2> QED
    BY <2>2
<1>7. IsFiniteSet(I)
  <2>1. Len(rows) \in Nat
    BY BooksShelf
  <2>2. IsFiniteSet(1..Len(rows))
    BY <2>1, FS_Interval
  <2> QED
    BY <2>2, FS_Subset
<1> QED
  BY <1>2, <1>3, <1>5, <1>6, <1>7, ReadCounts

\* The transactions that are counted are those of the rows in the range.
LEMMA RangeRenames ==
  ASSUME BooksSound, NEW I \in SUBSET (1..Len(rows)),
         NEW from \in Int, NEW to \in Int, NEW K
  PROVE  LET b == [i \in 1..Len(rows) |-> AsHeard(i)]
             S == Read(Listings(I))
         IN /\ Renames(b, {i \in I : InRange(i, from, to)},
                          {t \in S : Counted(Asks(from, to), t)})
            /\ Renames(b, {i \in I : InRange(i, from, to) /\ rows[i].kind \in K},
                          {t \in S : Counted(Asks(from, to), t) /\ t.row.kind \in K})
<1> DEFINE b == [i \in 1..Len(rows) |-> AsHeard(i)]
           S == Read(Listings(I))
<1>1. S = {AsHeard(i) : i \in I} /\ \A i, j \in I : AsHeard(i) = AsHeard(j) => i = j
  BY ListingsRead
<1>2. \A i \in I : /\ b[i] = AsHeard(i) /\ b[i].at = AsRead(stamps[i].at)
                   /\ b[i].row = rows[i]
  BY HeardIs
<1>3. Absent \notin Int
  BY DashboardAssumption
<1>4. \A i \in I : Counted(Asks(from, to), b[i]) <=> InRange(i, from, to)
  <2> SUFFICES ASSUME NEW i \in I
               PROVE  Counted(Asks(from, to), b[i]) <=> InRange(i, from, to)
    OBVIOUS
  <2>1. b[i].at = AsRead(stamps[i].at)
    BY <1>2
  <2>2. from # Absent /\ to # Absent
    BY <1>3
  <2> HIDE DEF b
  <2> QED
    BY <2>1, <2>2 DEF Counted, Asks, InRange
<1> HIDE DEF b, S
<1>5. /\ \A i \in I : b[i] \in S
      /\ \A t \in S : \E i \in I : b[i] = t
      /\ \A i, j \in I : b[i] = b[j] => i = j
  BY <1>1, <1>2
<1>6. Renames(b, {i \in I : InRange(i, from, to)},
                 {t \in S : Counted(Asks(from, to), t)})
  BY <1>4, <1>5 DEF Renames
<1>7. Renames(b, {i \in I : InRange(i, from, to) /\ rows[i].kind \in K},
                 {t \in S : Counted(Asks(from, to), t) /\ t.row.kind \in K})
  BY <1>2, <1>4, <1>5 DEF Renames
<1> QED
  BY <1>6, <1>7 DEF b, S

\* The net flow of a range is what its rows bring.
LEMMA FlowOfRange ==
  ASSUME BooksSound, NEW I \in SUBSET (1..Len(rows)),
         NEW from \in Int, NEW to \in Int
  PROVE  NetFlow(OfRange(Listings(I), from, to))
           = Came(rows, {i \in I : InRange(i, from, to)})
<1> DEFINE b == [i \in 1..Len(rows) |-> AsHeard(i)]
           S == Read(Listings(I))
           f == Asks(from, to)
           X == {i \in I : InRange(i, from, to)}
           C == {t \in S : Counted(f, t)}
           w == [t \in S |-> NetFor(f, t)]
<1>1. OfRange(Listings(I), from, to) = FiguresOf(f, S)
  BY DEF OfRange, Asks
<1>2. IsFiniteSet(S) /\ IsFiniteSet(I) /\ S = {AsHeard(i) : i \in I}
  BY ListingsRead
<1>3. \A i \in I : /\ b[i] = AsHeard(i) /\ b[i] \in S /\ b[i].row = rows[i]
                   /\ rows[i] \in Row
  BY <1>2, HeardIs
<1>4. \A i \in I : w[b[i]] = Brings(rows[i])
  <2> SUFFICES ASSUME NEW i \in I
               PROVE  NetFor(f, b[i]) = Brings(rows[i])
    BY <1>3
  <2>1. b[i].row = rows[i]
    BY <1>3
  <2>2. Mine(f) = Owns
    BY DEF Mine, Asks
  <2> HIDE DEF b, f
  <2> QED
    BY <2>1, <2>2 DEF NetFor, Brings
<1>5. \A t \in S : w[t] \in Int
  <2> SUFFICES ASSUME NEW i \in I
               PROVE  w[b[i]] \in Int
    BY <1>2, <1>3
  <2> QED
    BY <1>3, <1>4, BringsType
<1>6. \A t \in S : w[t] = NetFor(f, t)
  OBVIOUS
<1>7. Renames(b, X, C)
  BY RangeRenames
<1>8. X \in SUBSET I /\ C \in SUBSET S /\ IsFiniteSet(X) /\ IsFiniteSet(C)
  BY <1>2, FS_Subset
<1>9. \A i \in X : Brought(rows)[i] = w[b[i]]
  BY <1>4, <1>8 DEF Brought
<1>10. Weighs(w, C)
  BY <1>5, <1>8 DEF Weighs
<1> HIDE DEF b, S, f, X, C, w
<1>11. NetFlow(FiguresOf(f, S)) = SumFunctionOnSet(w, C)
  <2>1. NetFlow(FiguresOf(f, S)) = SumFunctionOnSet(w, {t \in S : Counted(f, t)})
    BY <1>2, <1>5, <1>6, FlowIs
  <2> QED
    BY <2>1 DEF C
<1>12. SumFunctionOnSet(Brought(rows), X) = SumFunctionOnSet(w, C)
  <2>1. PICK v : v = Brought(rows)
    OBVIOUS
  <2>2. Carries(v, b, w, X)
    BY <1>9, <2>1 DEF Carries
  <2>3. SumFunctionOnSet(v, X) = SumFunctionOnSet(w, C)
    BY <1>7, <1>8, <1>10, <2>2, SumRenamed
  <2> QED
    BY <2>1, <2>3
<1> QED
  BY <1>1, <1>11, <1>12 DEF Came, X

\* The sum over one member, and over two.
LEMMA SumOfPair ==
  ASSUME NEW x, NEW y, x # y, NEW w, w[x] \in Int, w[y] \in Int
  PROVE  /\ SumFunctionOnSet(w, {x, y}) = w[x] + w[y]
         /\ Weighs(w, {x, y})
<1>1. {} \cup {x} = {x} /\ {x} \cup {y} = {x, y} /\ x \notin {} /\ y \notin {x}
  OBVIOUS
<1>2. IsFiniteSet({x} \cup {y})
  <2>1. IsFiniteSet({x})
    BY FS_Singleton
  <2> QED
    BY <2>1, FS_AddElement
<1>3. Weighs(w, {x} \cup {y})
  BY <1>2 DEF Weighs
<1>4. /\ SumFunctionOnSet(w, {x} \cup {y}) = SumFunctionOnSet(w, {x}) + w[y]
      /\ Weighs(w, {x})
  BY <1>1, <1>3, SumOneMore
<1>5. SumFunctionOnSet(w, {} \cup {x}) = SumFunctionOnSet(w, {}) + w[x]
  <2>1. PICK none : none = {}
    OBVIOUS
  <2>2. none \cup {x} = {x} /\ x \notin none
    BY <2>1
  <2>3. Weighs(w, none \cup {x})
    BY <1>4, <2>2
  <2>4. SumFunctionOnSet(w, none \cup {x}) = SumFunctionOnSet(w, none) + w[x]
    BY <2>2, <2>3, SumOneMore
  <2> QED
    BY <2>1, <2>4
<1>6. SumFunctionOnSet(w, {}) = 0
  BY SumNone
<1>7. SumFunctionOnSet(w, {x}) = w[x]
  BY <1>1, <1>5, <1>6
<1> QED
  BY <1>1, <1>3, <1>4, <1>7

Worth(C) == [t \in C |-> t.row.value]
Priced(C) == \A t \in C : t.row.value \in Int
OfKind(C, k) == {t \in C : t.row.kind = k}

\* The totals by kind.
LEMMA TypesAre ==
  ASSUME NEW f, NEW C
  PROVE  /\ DOMAIN Total("types", f, C) = {t.row.kind : t \in C}
         /\ \A k \in {t.row.kind : t \in C} :
              Total("types", f, C)[k] = SumFunction([t \in OfKind(C, k) |-> t.row.value])
<1>1. {t \in C : Into("types", t)} = C
  BY DEF Into
<1>2. \A t : KeyOf("types", t) = t.row.kind /\ AmountOf("types", f, t) = t.row.value
  BY DEF KeyOf, AmountOf
<1>3. Total("types", f, C)
        = [k \in {t.row.kind : t \in C} |->
             SumFunction([t \in {u \in C : u.row.kind = k} |-> t.row.value])]
  <2>1. Total("types", f, C)
          = [k \in {KeyOf("types", t) : t \in C} |->
               SumFunction([t \in {u \in C : KeyOf("types", u) = k} |->
                              AmountOf("types", f, t)])]
    BY <1>1 DEF Total
  <2>2. \A k : {u \in C : KeyOf("types", u) = k} = {u \in C : u.row.kind = k}
    BY <1>2
  <2>3. {KeyOf("types", t) : t \in C} = {t.row.kind : t \in C}
    BY <1>2
  <2>4. \A S : [t \in S |-> AmountOf("types", f, t)] = [t \in S |-> t.row.value]
    BY <1>2
  <2> QED
    BY <2>1, <2>2, <2>3, <2>4
<1> QED
  BY <1>3 DEF OfKind

\* The totals of two kinds are what the transactions of these kinds are worth.
LEMMA KindsAre ==
  ASSUME NEW f, NEW C, IsFiniteSet(C), Priced(C), NEW j, NEW k, j # k,
         NEW types, types = Total("types", f, C),
         NEW L, L = OfKind(C, j) \cup OfKind(C, k)
  PROVE  SumFunctionOnSet(types, {j, k} \cap DOMAIN types)
           = SumFunctionOnSet(Worth(C), L)
<1>1. PICK u, J, K, z : /\ u = Worth(C) /\ J = OfKind(C, j) /\ K = OfKind(C, k)
                        /\ z = [x \in {j, k} |-> SumFunctionOnSet(u, OfKind(C, x))]
  OBVIOUS
<1>2. /\ L = J \cup K /\ J \cap K = {}
      /\ J \in SUBSET C /\ K \in SUBSET C /\ J \cup K \in SUBSET C
  BY <1>1 DEF OfKind
<1>3. /\ Weighs(u, J \cup K)
      /\ \A x : Weighs(u, OfKind(C, x))
  <2>1. IsFiniteSet(J \cup K) /\ \A x : IsFiniteSet(OfKind(C, x))
    <3>1. \A x : OfKind(C, x) \subseteq C
      BY DEF OfKind
    <3> QED
      BY <1>2, <3>1, FS_Subset
  <2> QED
    BY <1>1, <1>2, <2>1 DEF Weighs, Worth, OfKind, Priced
<1>4. SumFunctionOnSet(u, J \cup K) = SumFunctionOnSet(u, J) + SumFunctionOnSet(u, K)
  BY <1>2, <1>3, SumJoins
<1>5. \A x \in {j, k} : z[x] \in Int
  <2> SUFFICES ASSUME NEW x \in {j, k}
               PROVE  SumFunctionOnSet(u, OfKind(C, x)) \in Int
    BY <1>1
  <2> QED
    BY <1>3, SumType
<1>6. /\ SumFunctionOnSet(z, {j, k}) = z[j] + z[k] /\ Weighs(z, {j, k})
  BY <1>5, SumOfPair
<1>7. PICK D : D = {j, k} \cap DOMAIN types
  OBVIOUS
<1>8. \A x \in {j, k} \ D : z[x] = 0
  <2> SUFFICES ASSUME NEW x \in {j, k} \ D
               PROVE  SumFunctionOnSet(u, OfKind(C, x)) = 0
    BY <1>1
  <2>1. x \notin {t.row.kind : t \in C}
    BY <1>7, TypesAre
  <2>2. OfKind(C, x) = {}
    BY <2>1 DEF OfKind
  <2> QED
    BY <2>2, SumNone
<1>9. SumFunctionOnSet(z, {j, k}) = SumFunctionOnSet(z, D) /\ Weighs(z, D)
  <2>1. D \in SUBSET {j, k}
    BY <1>7
  <2>2. Weighs(z, D)
    BY <1>6, <2>1, FS_Subset DEF Weighs
  <2> QED
    BY <1>6, <1>8, <2>1, <2>2, SumWithoutZeros
<1>10. Alike(types, z, D)
  <2> SUFFICES ASSUME NEW x \in D
               PROVE  types[x] = SumFunctionOnSet(u, OfKind(C, x))
    BY <1>1, <1>7 DEF Alike
  <2>1. PICK v : v = [t \in OfKind(C, x) |-> t.row.value]
    OBVIOUS
  <2>2. types[x] = SumFunction(v)
    <3>1. x \in {t.row.kind : t \in C}
      BY <1>7, TypesAre
    <3>2. Total("types", f, C)[x] = SumFunction([t \in OfKind(C, x) |-> t.row.value])
      BY <3>1, TypesAre
    <3> QED
      BY <2>1, <3>2
  <2>3. DOMAIN v = OfKind(C, x) /\ Alike(v, u, OfKind(C, x))
    BY <1>1, <2>1 DEF Alike, Worth, OfKind
  <2>4. SumFunctionOnSet(v, OfKind(C, x)) = SumFunctionOnSet(u, OfKind(C, x))
    BY <1>3, <2>3, SumAlike
  <2> QED
    BY <2>2, <2>3, <2>4 DEF SumFunction
<1>11. SumFunctionOnSet(types, D) = SumFunctionOnSet(z, D)
  BY <1>9, <1>10, SumAlike
<1>12. z[j] = SumFunctionOnSet(u, J) /\ z[k] = SumFunctionOnSet(u, K)
  BY <1>1
<1> QED
  BY <1>1, <1>2, <1>4, <1>6, <1>7, <1>9, <1>11, <1>12

\* What the rows at the places I are worth.
Values(rs) == [i \in 1..Len(rs) |-> rs[i].value]

Spendings == {"Payment", "Withdrawal"}

\* The payments and withdrawals of a range are worth what their rows are.
LEMMA SpendingOfRange ==
  ASSUME BooksSound, NEW I \in SUBSET (1..Len(rows)),
         NEW from \in Int, NEW to \in Int
  PROVE  OfKinds(OfRange(Listings(I), from, to), Spendings)
           = SumFunctionOnSet(Values(rows), {i \in I : InRange(i, from, to)
                                               /\ rows[i].kind \in Spendings})
<1> DEFINE b == [i \in 1..Len(rows) |-> AsHeard(i)]
           S == Read(Listings(I))
           f == Asks(from, to)
           X == {i \in I : InRange(i, from, to) /\ rows[i].kind \in Spendings}
           C == {t \in S : Counted(f, t)}
           Y == {t \in C : t.row.kind \in Spendings}
           w == Worth(C)
           types == Total("types", f, C)
<1>1. OfKinds(OfRange(Listings(I), from, to), Spendings)
        = SumFunctionOnSet(types, Spendings \cap DOMAIN types)
  BY DEF OfRange, Asks, FiguresOf, OfKinds, Maps
<1>2. IsFiniteSet(S) /\ IsFiniteSet(I) /\ S = {AsHeard(i) : i \in I}
  BY ListingsRead
<1>3. \A i \in I : /\ b[i] = AsHeard(i) /\ b[i] \in S /\ b[i].row = rows[i]
                   /\ rows[i] \in Row /\ rows[i].value \in Nat
  BY <1>2, HeardIs, BringsType
<1>4. \A t \in S : t.row.value \in Int
  <2> SUFFICES ASSUME NEW i \in I
               PROVE  AsHeard(i).row.value \in Int
    BY <1>2
  <2>1. b[i] = AsHeard(i) /\ b[i].row = rows[i] /\ rows[i].value \in Nat
    BY <1>3
  <2> HIDE DEF b
  <2> QED
    BY <2>1
<1>5. /\ X \in SUBSET I /\ C \in SUBSET S /\ Y \in SUBSET C
      /\ Y = {t \in S : Counted(f, t) /\ t.row.kind \in Spendings}
  OBVIOUS
<1>6. IsFiniteSet(X) /\ IsFiniteSet(C) /\ IsFiniteSet(Y)
  <2> HIDE DEF X, C, Y
  <2> QED
    BY <1>2, <1>5, FS_Subset
<1>7. Renames(b, X, Y)
  <2>1. Renames(b, X, {t \in S : Counted(f, t) /\ t.row.kind \in Spendings})
    BY RangeRenames
  <2> QED
    BY <1>5, <2>1
<1>8. \A t \in C : w[t] = t.row.value
  BY DEF Worth
<1>9. Carries(Values(rows), b, w, X)
  <2> SUFFICES ASSUME NEW i \in X
               PROVE  Values(rows)[i] = w[b[i]]
    BY DEF Carries
  <2>1. b[i] \in Y /\ i \in I
    BY <1>7 DEF Renames
  <2>2. w[b[i]] = b[i].row.value
    BY <1>5, <1>8, <2>1
  <2>3. b[i].row = rows[i] /\ i \in 1..Len(rows)
    BY <1>3, <2>1
  <2> HIDE DEF b, w
  <2> QED
    BY <2>2, <2>3 DEF Values
<1> HIDE DEF b, S, f, X, C, Y, w
<1>10. Weighs(w, Y)
  BY <1>4, <1>5, <1>6, <1>8 DEF Weighs
<1>11. SumFunctionOnSet(Values(rows), X) = SumFunctionOnSet(w, Y)
  <2>1. PICK v : v = Values(rows)
    OBVIOUS
  <2>2. SumFunctionOnSet(v, X) = SumFunctionOnSet(w, Y)
    BY <1>6, <1>7, <1>9, <1>10, <2>1, SumRenamed
  <2> QED
    BY <2>1, <2>2
<1>12. SumFunctionOnSet(types, Spendings \cap DOMAIN types) = SumFunctionOnSet(w, Y)
  <2>1. PICK ty : ty = types
    OBVIOUS
  <2>2. Priced(C)
    BY <1>4, <1>5 DEF Priced
  <2>3. ty = Total("types", f, C)
    BY <2>1
  <2> HIDE DEF types
  <2>4. PICK j, k : j = "Payment" /\ k = "Withdrawal"
    OBVIOUS
  <2>5. j # k /\ Spendings = {j, k}
    BY <2>4 DEF Spendings
  <2>6. Y = OfKind(C, j) \cup OfKind(C, k)
    BY <2>5 DEF Y, OfKind
  <2>7. SumFunctionOnSet(ty, {j, k} \cap DOMAIN ty) = SumFunctionOnSet(Worth(C), Y)
    BY <1>6, <2>2, <2>3, <2>5, <2>6, KindsAre
  <2> QED
    BY <2>1, <2>5, <2>7 DEF w
<1> QED
  BY <1>1, <1>11, <1>12 DEF X

\* What was spent until a day is what the rows spent are worth.
LEMMA SpentIs ==
  ASSUME BooksSound, NEW I \in SUBSET (1..Len(rows)), NEW month, NEW day
  PROVE  SpentUntil(Listings(I), month, day)
           = SumFunctionOnSet(Values(rows),
               {i \in I : /\ InRange(i, MonthStart(month), MonthEnd(month))
                          /\ Spends(Listing(i))
                          /\ DayOf(AsRead(stamps[i].at)) <= day})
<1> DEFINE b == [i \in 1..Len(rows) |-> Listing(i)]
           P(t) == /\ InMonth(month, t) /\ Spends(t) /\ DayOf(AsRead(t.at)) <= day
           X == {i \in I : P(Listing(i))}
           Y == {t \in Listings(I) : P(t)}
           w == Worth(Y)
<1>1. SpentUntil(Listings(I), month, day) = SumFunctionOnSet(w, Y)
  BY DEF SpentUntil, SumFunction, Worth
<1>2. \A i \in I : /\ Listing(i).id = i /\ Listing(i).at = stamps[i].at
                   /\ Listing(i).row = rows[i]
                   /\ rows[i] \in Row /\ rows[i].value \in Nat
  BY HeardIs, BringsType
<1>3. X = {i \in I : /\ InRange(i, MonthStart(month), MonthEnd(month))
                     /\ Spends(Listing(i))
                     /\ DayOf(AsRead(stamps[i].at)) <= day}
  <2>1. \A i \in I : P(Listing(i)) <=>
          /\ InRange(i, MonthStart(month), MonthEnd(month))
          /\ Spends(Listing(i)) /\ DayOf(AsRead(stamps[i].at)) <= day
    BY <1>2 DEF InMonth, InRange
  <2> HIDE DEF P
  <2> QED
    BY <2>1
<1>4. \A i \in I : b[i] = Listing(i) /\ b[i] \in Listings(I)
  BY DEF Listings
<1>5. \A t \in Listings(I) : \E i \in I : b[i] = t
  BY <1>4 DEF Listings
<1>6. \A i, j \in I : b[i] = b[j] => i = j
  BY <1>2, <1>4
<1> HIDE DEF b, P
<1>7. Renames(b, X, Y)
  BY <1>4, <1>5, <1>6 DEF Renames
<1>8. IsFiniteSet(X) /\ IsFiniteSet(Y) /\ Y \in SUBSET Listings(I)
  <2>1. IsFiniteSet(I) /\ IsShelf(Listings(I))
    BY ListingsRead, BooksShelf, PartShelf
  <2>2. X \in SUBSET I /\ Y \in SUBSET Listings(I)
    OBVIOUS
  <2> HIDE DEF X, Y
  <2> QED
    BY <2>1, <2>2, FS_Subset DEF IsShelf
<1>9. \A t \in Y : w[t] = t.row.value
  BY DEF Worth
<1>10. Carries(Values(rows), b, w, X)
  <2> SUFFICES ASSUME NEW i \in X
               PROVE  Values(rows)[i] = w[b[i]]
    BY DEF Carries
  <2>1. b[i] \in Y /\ i \in I
    BY <1>7 DEF Renames
  <2>2. w[b[i]] = b[i].row.value
    BY <1>9, <2>1
  <2>3. b[i].row = rows[i] /\ i \in 1..Len(rows)
    BY <1>2, <1>4, <2>1
  <2> HIDE DEF w
  <2> QED
    BY <2>2, <2>3 DEF Values
<1> HIDE DEF w
<1>11. Weighs(w, Y)
  <2>1. \A t \in Listings(I) : t.row.value \in Int
    BY <1>2 DEF Listings
  <2> QED
    BY <1>8, <1>9, <2>1 DEF Weighs
<1> HIDE DEF X, Y
<1>12. SumFunctionOnSet(Values(rows), X) = SumFunctionOnSet(w, Y)
  <2>1. PICK v : v = Values(rows)
    OBVIOUS
  <2>2. SumFunctionOnSet(v, X) = SumFunctionOnSet(w, Y)
    BY <1>7, <1>8, <1>10, <1>11, <2>1, SumRenamed
  <2> QED
    BY <2>1, <2>2
<1> QED
  BY <1>1, <1>3, <1>12

(***************************************************************************)
(* What the customer has.                                                  *)
(***************************************************************************)

\* The accounts of a customer are finitely many, and none is that of the bank.
LEMMA OwnsAre ==
  IsFiniteSet(Owns) /\ Owns \subseteq Accounts \ {Bank}
<1> DEFINE n == Len(Owned)
<1>1. /\ Owned \in Seq(Accounts \ {Bank}) /\ n \in Nat /\ DOMAIN Owned = 1..n
      /\ \A i \in 1..n : Owned[i] \in Accounts \ {Bank}
  BY DashboardAssumption
<1>2. Owns = {Owned[i] : i \in 1..n}
  BY <1>1 DEF Owns, ToSet
<1>3. Owned \in Surjection(1..n, Owns)
  <2>1. Owned \in [1..n -> Owns]
    BY <1>1, <1>2
  <2>2. \A a \in Owns : \E i \in 1..n : Owned[i] = a
    BY <1>2
  <2> QED
    BY <2>1, <2>2 DEF Surjection
<1>4. IsFiniteSet(1..n)
  BY <1>1, FS_Interval
<1>5. IsFiniteSet(Owns)
  BY <1>3, <1>4, FS_Surjection
<1> QED
  BY <1>1, <1>2, <1>5

\* The shares of a row over the accounts of a set: what it brings them.
LEMMA SharesSum ==
  ASSUME NEW S, IsFiniteSet(S), NEW r \in Row, r.from # r.to,
         NEW w, \A a \in S : w[a] = Share(r, a)
  PROVE  SumFunctionOnSet(w, S)
           = (IF r.to \in S THEN r.value ELSE 0) - (IF r.from \in S THEN r.value ELSE 0)
<1>1. r.value \in Int
  BY BringsType
<1> DEFINE g == [s \in SUBSET S |-> (IF r.to \in s THEN r.value ELSE 0)
                                      - (IF r.from \in s THEN r.value ELSE 0)]
<1>2. \A a \in S : w[a] = IF a = r.to THEN r.value
                          ELSE IF a = r.from THEN -r.value ELSE 0
  BY DEF Share, Names, Delta
<1>3. Weighs(w, S)
  BY <1>1, <1>2 DEF Weighs
<1>4. IsTotal(g, w, S)
  <2>1. g \in [SUBSET S -> Int] /\ g[{}] = 0
    BY <1>1
  <2>2. ASSUME NEW s \in SUBSET S, NEW x \in s
        PROVE  g[s] = w[x] + g[s \ {x}]
    <3>1. PICK t, v, to, from : t = s \ {x} /\ v = r.value /\ to = r.to /\ from = r.from
      OBVIOUS
    <3>2. /\ g[s] = (IF to \in s THEN v ELSE 0) - (IF from \in s THEN v ELSE 0)
          /\ g[t] = (IF to \in t THEN v ELSE 0) - (IF from \in t THEN v ELSE 0)
      BY <3>1
    <3>3. w[x] = (IF x = to THEN v ELSE IF x = from THEN -v ELSE 0)
      BY <1>2, <3>1
    <3>4. /\ to \in t <=> to \in s /\ to # x
          /\ from \in t <=> from \in s /\ from # x
          /\ v \in Int /\ to # from
      BY <1>1, <3>1
    <3> HIDE DEF g
    <3> QED
      BY <3>1, <3>2, <3>3, <3>4
  <2> QED
    BY <2>1, <2>2 DEF IsTotal
<1>5. g[S] = (IF r.to \in S THEN r.value ELSE 0) - (IF r.from \in S THEN r.value ELSE 0)
  OBVIOUS
<1> HIDE DEF g
<1> QED
  BY <1>3, <1>4, <1>5, TotalIsSum

NetShape ==
  /\ rows \in Seq(Row) /\ Len(rows) \in Nat
  /\ \A I \in SUBSET (1..Len(rows)) : NetAmong(I, Owns) = Came(rows, I)

LEMMA BooksNet == BooksSound => NetShape
<1> SUFFICES ASSUME BooksSound PROVE NetShape
  OBVIOUS
<1>1. rows \in Seq(Row) /\ Len(rows) \in Nat
  BY BooksShelf DEF BooksSound, JournalTypeOK
<1> QED
  BY <1>1, NetAmongIs DEF NetShape

Began == SumFunctionOnSet(Opening, Owns)

\* The rows at places of the books, once more rows are in them.
LEMMA WealthGrown ==
  ASSUME BooksSound, BooksSound', Grows, NEW I \in SUBSET (1..Len(rows))
  PROVE  /\ NetAmong(I, Owns)' = NetAmong(I, Owns)
         /\ WealthAfter(I)' = WealthAfter(I)
<1>1. NetShape
  BY BooksNet
<1>2. NetShape'
  BY BooksNet, PTL
<1>3. /\ Len(rows) \in Nat /\ Len(rows') \in Nat /\ Len(rows) <= Len(rows')
      /\ \A i \in 1..Len(rows) : rows'[i] = rows[i]
      /\ rows \in Seq(Row) /\ rows' \in Seq(Row)
  BY <1>1, <1>2 DEF NetShape, Grows
<1>4. I \in SUBSET (1..Len(rows'))
  BY <1>3
<1>5. Came(rows', I) = Came(rows, I)
  BY <1>3, CameGrown
<1>6. NetAmong(I, Owns) = Came(rows, I)
  BY <1>1 DEF NetShape
<1>7. NetAmong(I, Owns)' = Came(rows', I)
  BY <1>2, <1>4 DEF NetShape
<1>8. NetAmong(I, Owns)' = NetAmong(I, Owns)
  BY <1>5, <1>6, <1>7
<1> QED
  BY <1>8 DEF WealthAfter

\* A movement brings the customer what it adds to the balances.
LEMMA PostWealth ==
  ASSUME BooksSound, WealthSound, NEW w \in Writers, Post(w)
  PROVE  WealthSound'
<1>1. BooksSound' /\ Grows
  BY PostKeeps
<1>2. NetShape
  BY BooksNet
<1>3. NetShape'
  BY <1>1, BooksNet, PTL
<1>4. PICK r \in Movements : Record(r)
  BY DEF Post
<1>5. /\ r \in Row /\ r.from # r.to /\ rows' = Append(rows, r)
      /\ balance' = Posted(balance, r)
  BY <1>4, JournalAssumption DEF Record
<1>6. PICK n, old, new : n = Len(rows) /\ old = rows /\ new = rows'
  OBVIOUS
<1>7. /\ n \in Nat /\ Len(old) = n /\ Len(new) = n + 1 /\ new[n + 1] = r
      /\ old \in Seq(Row) /\ new \in Seq(Row) /\ \A i \in 1..n : new[i] = old[i]
  BY <1>2, <1>3, <1>5, <1>6 DEF NetShape
<1>8. Came(new, 1..(n + 1)) = Came(old, 1..n) + Brings(r)
  <2>1. 1..n \in SUBSET (1..Len(new)) /\ n + 1 \in 1..Len(new) /\ n + 1 \notin 1..n
    BY <1>7
  <2>2. Came(new, (1..n) \cup {n + 1}) = Came(new, 1..n) + Brings(new[n + 1])
    BY <1>7, <2>1, CameOneMore
  <2>3. (1..n) \cup {n + 1} = 1..(n + 1)
    BY <1>7
  <2>4. 1..n \in SUBSET (1..Len(old)) /\ Len(old) <= Len(new)
    BY <1>7
  <2>5. Came(new, 1..n) = Came(old, 1..n)
    BY <1>7, <2>4, CameGrown
  <2> QED
    BY <1>7, <2>2, <2>3, <2>5
<1>9. WealthAfter(1..Len(rows)) = Began + Came(old, 1..n)
  BY <1>2, <1>6 DEF WealthAfter, NetShape, Began
<1>10. WealthAfter(1..Len(rows))' = Began + Came(new, 1..(n + 1))
  <2>1. Len(rows') = n + 1
    BY <1>6, <1>7
  <2>2. (1..Len(rows)) ' \in SUBSET (1..Len(rows'))
    OBVIOUS
  <2>3. NetAmong(1..Len(rows), Owns)' = Came(rows', 1..Len(rows'))
    BY <1>3, <2>2 DEF NetShape
  <2> QED
    BY <1>6, <2>1, <2>3 DEF WealthAfter, Began
<1> DEFINE w2 == [a \in Owns |-> Share(r, a)]
<1>11. /\ Owns \subseteq Accounts \ {Bank} /\ IsFiniteSet(Owns)
       /\ \A a \in Owns : balance[a] \in Int
  BY OwnsAre, PostingAssumption DEF BooksSound, JournalTypeOK, Cents
<1>12. \A a \in Owns : balance'[a] = balance[a] + w2[a] /\ w2[a] \in Int
  BY <1>5, <1>11, PostedIsShare, ShareType DEF Posted
<1>13. Weighs(balance, Owns) /\ Weighs(w2, Owns)
  BY <1>11, <1>12 DEF Weighs
<1>14. \A a \in Owns : w2[a] = Share(r, a)
  OBVIOUS
<1> HIDE DEF w2
<1>15. SumFunctionOnSet(w2, Owns) = Brings(r)
  <2>1. SumFunctionOnSet(w2, Owns)
          = (IF r.to \in Owns THEN r.value ELSE 0)
              - (IF r.from \in Owns THEN r.value ELSE 0)
    BY <1>5, <1>11, <1>14, SharesSum
  <2> QED
    BY <2>1 DEF Brings
<1>16. SumFunctionOnSet(balance', Owns)
         = SumFunctionOnSet(balance, Owns) + SumFunctionOnSet(w2, Owns)
  <2>1. PICK bal : bal = balance'
    OBVIOUS
  <2>2. \A a \in Owns : bal[a] = balance[a] + w2[a]
    BY <1>12, <2>1
  <2>3. SumFunctionOnSet(bal, Owns)
          = SumFunctionOnSet(balance, Owns) + SumFunctionOnSet(w2, Owns)
    BY <1>13, <2>2, SumAdds
  <2> QED
    BY <2>1, <2>3
<1>17. Began \in Int /\ Came(old, 1..n) \in Int /\ Brings(r) \in Int
  <2>1. Weighs(Opening, Owns)
    BY <1>11, PostingAssumption DEF Weighs
  <2> QED
    BY <1>5, <1>7, <2>1, SumType, BroughtWeighs, BringsType DEF Began
<1>18. SumFunctionOnSet(balance, Owns) = WealthAfter(1..Len(rows))
  BY DEF WealthSound
<1> QED
  BY <1>8, <1>9, <1>10, <1>15, <1>16, <1>17, <1>18 DEF WealthSound

\* Movements that are posted keep the clock ahead of the dates, and what the
\* customer has explained.
LEMMA JournalKeepsWealth ==
  ASSUME BooksSound, ClockSound, WealthSound, JournalNext
  PROVE  /\ ClockSound' /\ WealthSound'
         /\ clock \in Nat /\ clock' \in Nat /\ clock <= clock'
<1> DEFINE Stamp == [id : Nat, at : 0..MaxClock]
<1>1. /\ clock \in Nat /\ MaxClock \in Nat /\ Len(rows) \in Nat /\ Undated \notin Nat
      /\ dated \in [Writers -> (0..MaxClock) \cup {Undated}]
      /\ \A i \in 1..Len(rows) : stamps[i].at \in Nat
      /\ stamps \in Seq(Stamp) /\ Len(stamps) = Len(rows)
  BY BooksShelf, JournalAssumption DEF BooksSound, JournalTypeOK
<1>2. ASSUME UNCHANGED store
      PROVE  WealthSound' /\ rows' = rows /\ stamps' = stamps
  BY <1>2 DEF store, WealthSound, WealthAfter, NetAmong
<1>3. CASE Tick
  <2>1. clock' = clock + 1 /\ dated' = dated /\ UNCHANGED store
    BY <1>3 DEF Tick
  <2>2. ClockSound'
    <3>1. \A w \in Writers : dated[w] # Undated => dated[w] <= clock + 1
      <4> SUFFICES ASSUME NEW w \in Writers, dated[w] # Undated
                   PROVE  dated[w] <= clock + 1
        OBVIOUS
      <4>1. dated[w] \in 0..MaxClock /\ dated[w] <= clock
        BY <1>1 DEF ClockSound
      <4> QED
        BY <1>1, <4>1
    <3>2. \A i \in 1..Len(rows) : stamps[i].at <= clock + 1
      BY <1>1 DEF ClockSound
    <3> QED
      BY <1>2, <2>1, <3>1, <3>2 DEF ClockSound
  <2> QED
    BY <1>1, <1>2, <2>1, <2>2
<1>4. ASSUME NEW w \in Writers, Date(w)
      PROVE  ClockSound' /\ WealthSound' /\ clock' = clock
  <2>1. dated' = [dated EXCEPT ![w] = clock] /\ clock' = clock /\ UNCHANGED store
    BY <1>4 DEF Date
  <2>2. \A v \in Writers : dated'[v] # Undated => dated'[v] <= clock
    BY <1>1, <2>1 DEF ClockSound
  <2> QED
    BY <1>2, <2>1, <2>2 DEF ClockSound
<1>5. ASSUME NEW w \in Writers, Refused(w)
      PROVE  ClockSound' /\ WealthSound' /\ clock' = clock
  <2>1. dated' = [dated EXCEPT ![w] = Undated] /\ clock' = clock /\ UNCHANGED store
    BY <1>5 DEF Refused
  <2>2. \A v \in Writers : dated'[v] # Undated => dated'[v] <= clock
    BY <1>1, <2>1 DEF ClockSound
  <2> QED
    BY <1>2, <2>1, <2>2 DEF ClockSound
<1>6. ASSUME NEW w \in Writers, Post(w)
      PROVE  ClockSound' /\ WealthSound' /\ clock' = clock
  <2>1. WealthSound'
    BY <1>6, PostWealth
  <2>2. /\ dated' = [dated EXCEPT ![w] = Undated] /\ clock' = clock
        /\ stamps' = Append(stamps, [id |-> Len(rows) + 1, at |-> dated[w]])
        /\ dated[w] # Undated
    BY <1>6 DEF Post
  <2>3. \A v \in Writers : dated'[v] # Undated => dated'[v] <= clock
    BY <1>1, <2>2 DEF ClockSound
  <2>4. Len(rows') = Len(rows) + 1
    <3>1. PICK r \in Movements : Record(r)
      BY <1>6 DEF Post
    <3>2. rows \in Seq(Row) /\ rows' = Append(rows, r)
      BY <3>1 DEF Record, BooksSound, JournalTypeOK
    <3> QED
      BY <3>2
  <2>5. \A i \in 1..(Len(rows) + 1) : stamps'[i].at <= clock
    <3> SUFFICES ASSUME NEW i \in 1..(Len(rows) + 1)
                 PROVE  stamps'[i].at <= clock
      OBVIOUS
    <3>1. CASE i \in 1..Len(rows)
      <4>1. stamps'[i] = stamps[i]
        <5> HIDE DEF Stamp
        <5> QED
          BY <1>1, <2>2, <3>1
      <4> QED
        BY <3>1, <4>1 DEF ClockSound
    <3>2. CASE i = Len(rows) + 1
      <4>1. stamps'[i].at = dated[w]
        <5> HIDE DEF Stamp
        <5> QED
          BY <1>1, <2>2, <3>2
      <4> QED
        BY <2>2, <4>1 DEF ClockSound
    <3> QED
      BY <1>1, <3>1, <3>2
  <2> QED
    BY <2>1, <2>2, <2>3, <2>4, <2>5 DEF ClockSound
<1> QED
  BY <1>1, <1>3, <1>4, <1>5, <1>6 DEF JournalNext

(***************************************************************************)
(* What a list has heard.                                                  *)
(***************************************************************************)

\* A list that is not cut short has all rows of its account.
LEMMA ListHasAll ==
  ASSUME BooksSound, NEW a, NEW limit \in Nat, ~Fills(a, limit, Len(rows)),
         NEW i \in 1..Len(rows), Names(rows[i], a)
  PROVE  Listing(i) \in Newest(Books, a, limit)
<1> SUFFICES ASSUME Listing(i) \notin Newest(Books, a, limit)
             PROVE  FALSE
  OBVIOUS
<1> DEFINE t == Listing(i)
           N == Newest(Books, a, limit)
           J == {j \in 1..Len(rows) : Names(rows[j], a)}
           M == {u \in Books : Names(u.row, a)}
           f == [j \in J |-> Listing(j)]
<1>1. IsShelf(Books) /\ Len(rows) \in Nat
  BY BooksShelf
<1>2. t \in Books /\ t.row = rows[i]
  BY HeardIs
<1>3. Cardinality(N) >= limit
  BY <1>1, <1>2, NewestFills
<1>4. /\ N \subseteq M /\ t \in M /\ t \notin N /\ IsFiniteSet(M) /\ IsFiniteSet(N)
  <2>1. M \subseteq Books /\ N \subseteq M /\ t \in M /\ t \notin N
    BY <1>2 DEF Newest
  <2>2. IsFiniteSet(Books)
    BY <1>1 DEF IsShelf
  <2> HIDE DEF N, M, t
  <2> QED
    BY <2>1, <2>2, FS_Subset
<1>5. Cardinality(M) > limit /\ Cardinality(M) \in Nat
  <2> HIDE DEF N, M, t
  <2>1. /\ IsFiniteSet(N \cup {t}) /\ Cardinality(N \cup {t}) = Cardinality(N) + 1
        /\ Cardinality(N) \in Nat
    BY <1>4, FS_AddElement, FS_CardinalityType
  <2>2. Cardinality(N \cup {t}) <= Cardinality(M) /\ Cardinality(M) \in Nat
    BY <1>4, <2>1, FS_Subset, FS_CardinalityType
  <2> QED
    BY <1>3, <2>1, <2>2
<1>6. f \in Bijection(J, M)
  <2>1. \A j \in J : f[j] = Listing(j) /\ f[j] \in M /\ f[j].id = j
    <3> SUFFICES ASSUME NEW j \in J
                 PROVE  Listing(j) \in M /\ Listing(j).id = j
      OBVIOUS
    <3>1. j \in 1..Len(rows) /\ Names(rows[j], a)
      OBVIOUS
    <3>2. Listing(j) \in Books /\ Listing(j).row = rows[j] /\ Listing(j).id = j
      BY <3>1, HeardIs
    <3> QED
      BY <3>1, <3>2
  <2>2. ASSUME NEW u \in M
        PROVE  \E j \in J : f[j] = u
    <3>1. PICK j \in 1..Len(rows) : u = Listing(j)
      BY DEF Books
    <3>2. Listing(j).row = rows[j]
      BY HeardIs
    <3>3. j \in J
      BY <3>1, <3>2
    <3> QED
      BY <3>1, <3>3
  <2>3. DOMAIN f = J /\ f = [j \in J |-> f[j]]
    OBVIOUS
  <2> HIDE DEF f, J, M
  <2> QED
    BY <2>1, <2>2, <2>3 DEF Bijection, Injection, Surjection, IsInjective
<1>7. IsFiniteSet(J)
  <2>1. IsFiniteSet(1..Len(rows)) /\ J \subseteq 1..Len(rows)
    BY <1>1, FS_Interval
  <2> QED
    BY <2>1, FS_Subset
<1>8. Cardinality(J) = Cardinality(M)
  <2> HIDE DEF f, J, M
  <2> QED
    BY <1>6, <1>7, FS_Bijection DEF ExistsBijection
<1> HIDE DEF M
<1> QED
  BY <1>5, <1>8 DEF Fills

\* Books that grow fill a list no less.
LEMMA GrownFills ==
  ASSUME Grows, NEW m \in 0..Len(rows), NEW n \in Nat, m <= n, Len(rows) \in Nat,
         NEW a, NEW limit \in Nat, Fills(a, limit, m)
  PROVE  Fills(a, limit, n)'
<1> DEFINE J == {j \in 1..m : Names(rows[j], a)}
           K == {j \in 1..n : Names(rows'[j], a)}
<1>1. J \subseteq K
  BY DEF Grows
<1>2. IsFiniteSet(1..n) /\ K \subseteq 1..n
  <2>1. IsFiniteSet(1..n)
    BY FS_Interval
  <2> QED
    BY <2>1
<1>3. IsFiniteSet(K)
  BY <1>2, FS_Subset
<1> HIDE DEF J, K
<1>4. /\ Cardinality(J) <= Cardinality(K) /\ Cardinality(J) \in Nat
      /\ Cardinality(K) \in Nat
  BY <1>1, <1>3, FS_Subset, FS_CardinalityType
<1>5. Cardinality(J) > limit
  BY DEF Fills, J
<1>6. Cardinality(K) > limit
  BY <1>4, <1>5
<1> QED
  BY <1>6 DEF Fills, K

(***************************************************************************)
(* What has been read for a page.                                          *)
(***************************************************************************)

\* The part of a page is what it was.
SamePart(part) ==
  /\ part \in DOMAIN page' <=> part \in DOMAIN page
  /\ part \in DOMAIN page => page'[part] = page[part]

\* A page with more of it.
LEMMA WithIs ==
  ASSUME NEW parts, page' = With(parts)
  PROVE  /\ DOMAIN page' = DOMAIN parts \cup DOMAIN page
         /\ \A part \in DOMAIN parts : page'[part] = parts[part]
         /\ \A part : part \notin DOMAIN parts => SamePart(part)
BY DEF With, SamePart

\* A step of a page, but for the last, reads the books as they are.
PageStep ==
  /\ rows' = rows /\ stamps' = stamps /\ backend' = backend /\ clock' = clock
  /\ balance' = balance /\ step # "shown"
  /\ step' = "shown" => upTo' = Len(rows)

LEMMA PageStepIs ==
  ASSUME PageReader
  PROVE  PageDone \/ PageStep
<1> USE DEF PageStep, world, reader
<1>1. ASSUME AskPage PROVE PageStep
  BY <1>1 DEF AskPage
<1>2. ASSUME ReadAccounts PROVE PageStep
  BY <1>2 DEF ReadAccounts
<1>3. ASSUME LookAtClock PROVE PageStep
  BY <1>3 DEF LookAtClock
<1>4. ASSUME NEW s \in {"current", "previous", "recent"}, ListNext(s) PROVE PageStep
  BY <1>4 DEF ListNext
<1>5. ASSUME Current PROVE PageStep
  BY <1>5 DEF Current, Closing
<1>6. ASSUME Previous PROVE PageStep
  BY <1>6 DEF Previous, Closing
<1>7. ASSUME ChartAndRecent PROVE PageStep
  BY <1>7 DEF ChartAndRecent, Closing
<1> QED
  BY <1>1, <1>2, <1>3, <1>4, <1>5, <1>6, <1>7 DEF PageReader

\* Which parts a page has.
PartsSound == step # "idle" => PartsOK

LEMMA PageKeepsParts ==
  ASSUME PageTypeOK, PartsSound, PageReader, backend \in {"C", "Rust"}
  PROVE  PartsSound'
<1> USE DEF PartsSound
<1>0. Pages \subseteq {"dashboard", "summary"} /\ backend \in {"C", "Rust"}
  BY DashboardAssumption
<1>1. CASE AskPage
  <2>1. PICK k \in Pages : page' = [kind |-> k]
    BY <1>1 DEF AskPage
  <2>2. DOMAIN page' = {"kind"} /\ page'.kind = k
    BY <2>1
  <2>3. step' = IF k = "dashboard" THEN "accounts" ELSE "now"
    BY <1>1, <2>1, <2>2 DEF AskPage
  <2> QED
    BY <1>0, <2>2, <2>3 DEF PartsOK, Has
<1>2. CASE ReadAccounts
  <2> DEFINE parts == [total |-> SumFunctionOnSet(balance, Owns)]
  <2>1. page' = With(parts) /\ DOMAIN parts = {"total"}
    BY <1>2 DEF ReadAccounts
  <2> HIDE DEF parts
  <2>2. DOMAIN page' = {"total"} \cup DOMAIN page /\ SamePart("kind")
    BY <2>1, WithIs
  <2>3. page'.kind = page.kind
    BY <2>2 DEF SamePart, PageTypeOK
  <2>4. /\ step = "accounts" /\ backend' = backend
        /\ step' = IF page.kind = "dashboard" THEN "now"
                   ELSE IF backend = "Rust" THEN "current" ELSE "shown"
    BY <1>2 DEF ReadAccounts
  <2> QED
    BY <1>0, <2>2, <2>3, <2>4 DEF PartsOK, Has
<1>3. CASE LookAtClock
  <2> DEFINE parts == [now |-> AsRead(clock)]
  <2>1. page' = With(parts) /\ DOMAIN parts = {"now"}
    BY <1>3 DEF LookAtClock
  <2> HIDE DEF parts
  <2>2. DOMAIN page' = {"now"} \cup DOMAIN page /\ SamePart("kind")
    BY <2>1, WithIs
  <2>3. page'.kind = page.kind
    BY <2>2 DEF SamePart, PageTypeOK
  <2>4. /\ step = "now" /\ backend' = backend
        /\ step' = IF "total" \in DOMAIN page \/ backend = "C" THEN "current"
                   ELSE "accounts"
    BY <1>3 DEF LookAtClock
  <2> QED
    BY <1>0, <2>2, <2>3, <2>4 DEF PartsOK, Has
<1>4. ASSUME NEW s \in {"current", "previous", "recent"}, ListNext(s)
      PROVE  PartsOK'
  <2>1. step = s /\ page' = page /\ step' = step /\ backend' = backend
    BY <1>4 DEF ListNext, reader
  <2> QED
    BY <2>1 DEF PartsOK, Has
<1>5. CASE Current
  <2>1. PICK f : page' = With([current |-> f])
    BY <1>5 DEF Current, Closing
  <2> DEFINE parts == [current |-> f]
  <2>2. page' = With(parts) /\ DOMAIN parts = {"current"}
    BY <2>1
  <2> HIDE DEF parts
  <2>3. DOMAIN page' = {"current"} \cup DOMAIN page /\ SamePart("kind")
    BY <2>2, WithIs
  <2>4. page'.kind = page.kind
    BY <2>3 DEF SamePart, PageTypeOK
  <2>5. /\ step = "current" /\ backend' = backend
        /\ step' = IF page.kind = "dashboard" THEN "previous"
                   ELSE IF backend = "Rust" THEN "shown" ELSE "accounts"
    BY <1>5 DEF Current, Closing
  <2> QED
    BY <1>0, <2>3, <2>4, <2>5 DEF PartsOK, Has
<1>6. CASE Previous
  <2>1. PICK f : page' = With([previous |-> f])
    BY <1>6 DEF Previous, Closing
  <2> DEFINE parts == [previous |-> f]
  <2>2. page' = With(parts) /\ DOMAIN parts = {"previous"}
    BY <2>1
  <2> HIDE DEF parts
  <2>3. DOMAIN page' = {"previous"} \cup DOMAIN page /\ SamePart("kind")
    BY <2>2, WithIs
  <2>4. page'.kind = page.kind
    BY <2>3 DEF SamePart, PageTypeOK
  <2>5. step = "previous" /\ backend' = backend /\ step' = "recent"
    BY <1>6 DEF Previous, Closing, reader
  <2> QED
    BY <1>0, <2>3, <2>4, <2>5 DEF PartsOK, Has
<1>7. CASE ChartAndRecent
  <2>1. \E f, g : page' = With([chart |-> f, recent |-> g])
    BY <1>7 DEF ChartAndRecent, Closing
  <2>2. PICK f, g : page' = With([chart |-> f, recent |-> g])
    BY <2>1
  <2> DEFINE parts == [chart |-> f, recent |-> g]
  <2>3. page' = With(parts) /\ DOMAIN parts = {"chart", "recent"}
    BY <2>2
  <2> HIDE DEF parts
  <2>4. DOMAIN page' = {"chart", "recent"} \cup DOMAIN page /\ SamePart("kind")
    BY <2>3, WithIs
  <2>5. page'.kind = page.kind
    BY <2>4 DEF SamePart, PageTypeOK
  <2>6. step = "recent" /\ backend' = backend /\ step' = "shown"
    BY <1>7 DEF ChartAndRecent, Closing, reader
  <2> QED
    BY <1>0, <2>4, <2>5, <2>6 DEF PartsOK, Has
<1>8. CASE PageDone
  BY <1>8 DEF PageDone
<1> QED
  BY <1>1, <1>2, <1>3, <1>4, <1>5, <1>6, <1>7, <1>8 DEF PageReader

\* What has been heard.
LEMMA QuietHeard ==
  ASSUME HeardSound, Len(rows) \in Nat, asOf \in Nat, upTo \in Nat, rows' = rows,
         heard' \in {heard, {}}, asOf' \in {0, asOf, Len(rows)},
         step' = "shown" => upTo' = Len(rows),
         step' \in {"current", "previous", "recent"} => todo' = Owned
  PROVE  HeardSound'
<1>1. asOf' <= Horizon' /\ Horizon' <= Len(rows')
  <2>2. asOf <= Len(rows)
    <3>1. CASE step = "shown"
      <4>1. asOf <= upTo /\ upTo <= Len(rows)
        BY <3>1 DEF HeardSound, Horizon
      <4> QED
        BY <4>1
    <3>2. CASE step # "shown"
      BY <3>2 DEF HeardSound, Horizon
    <3> QED
      BY <3>1, <3>2
  <2>3. Horizon' = Len(rows)
    BY DEF Horizon
  <2> QED
    BY <2>2, <2>3
<1>2. \A t \in heard' : \E a \in Owns : Names(t.row, a)
  BY DEF HeardSound
<1>3. step' \in {"current", "previous", "recent"} => Owns \ ToSet(todo') = {}
  BY DEF Owns
<1> QED
  BY <1>1, <1>2, <1>3 DEF HeardSound

\* The list of the next account adds what it holds.
LEMMA ListKeepsHeard ==
  ASSUME BooksSound, PageTypeOK, HeardSound, asOf \in Nat,
         NEW s \in {"current", "previous", "recent"}, ListNext(s)
  PROVE  HeardSound'
<1> DEFINE b == Head(todo)
           S == Newest(Books, b, LimitOf(s))
<1>1. /\ heard' = heard \cup S /\ todo' = Tail(todo) /\ todo # <<>>
      /\ rows' = rows /\ stamps' = stamps /\ step = s /\ step' = s
      /\ asOf' = asOf /\ upTo' = upTo
  BY DEF ListNext, world, reader
<1>2. Len(rows) \in Nat /\ asOf <= Len(rows)
  BY <1>1, BooksShelf DEF HeardSound, Horizon
<1>3. /\ b \in Owns /\ \A a \in Owns \ ToSet(todo') : a = b \/ a \in Owns \ ToSet(todo)
  <2>1. PICK i \in 0..Len(Owned) : todo = SubSeq(Owned, i + 1, Len(Owned))
    BY DEF PageTypeOK
  <2>2. PICK n : n = Len(Owned)
    OBVIOUS
  <2>3. /\ Owned \in Seq(Accounts) /\ n \in Nat /\ i \in 0..n
        /\ DOMAIN Owned = 1..n
    BY <2>1, <2>2, DashboardAssumption
  <2>4. i + 1 <= n
    BY <1>1, <2>1, <2>2, <2>3
  <2>5. Len(todo) = n - i /\ \A j \in 1..(n - i) : todo[j] = Owned[i + j]
    BY <2>1, <2>2, <2>3, <2>4
  <2>6. b = Owned[i + 1]
    BY <2>1, <2>2, <2>3, <2>4
  <2>7. /\ Len(todo') = (n - i) - 1
        /\ \A j \in 1..((n - i) - 1) : todo'[j] = todo[j + 1]
    BY <1>1, <2>1, <2>2, <2>3, <2>4
  <2>8. DOMAIN todo = 1..(n - i) /\ DOMAIN todo' = 1..((n - i) - 1)
    BY <1>1, <2>1, <2>2, <2>3, <2>4, <2>5, <2>7
  <2>9. b \in Owns
    BY <2>3, <2>4, <2>6 DEF Owns, ToSet
  <2>10. ASSUME NEW a \in ToSet(todo), a # b
         PROVE  a \in ToSet(todo')
    <3>1. PICK j \in 1..(n - i) : a = todo[j]
      BY <2>8 DEF ToSet
    <3>2. todo[1] = b
      BY <2>3, <2>4, <2>5, <2>6
    <3>3. j - 1 \in 1..((n - i) - 1) /\ (j - 1) + 1 = j
      BY <2>3, <2>4, <2>10, <3>1, <3>2
    <3>4. todo'[j - 1] = a
      BY <2>7, <3>1, <3>3
    <3> QED
      BY <2>8, <3>3, <3>4 DEF ToSet
  <2> QED
    BY <2>9, <2>10
<1>4. \A t \in heard' : \E a \in Owns : Names(t.row, a)
  <2>1. \A t \in S : Names(t.row, b)
    BY DEF Newest
  <2> QED
    BY <1>1, <1>3, <2>1 DEF HeardSound
<1>5. ASSUME NEW a \in Owns \ ToSet(todo'), ~Fills(a, LimitOf(s), Len(rows)),
             NEW i \in 1..asOf, Names(rows[i], a)
      PROVE  Listing(i) \in heard'
  <2>1. i \in 1..Len(rows)
    BY <1>2
  <2>2. CASE a = b
    <3>1. LimitOf(s) \in Nat
      BY DashboardAssumption DEF LimitOf
    <3>2. Listing(i) \in Newest(Books, a, LimitOf(s))
      BY <1>5, <2>1, <3>1, ListHasAll
    <3> QED
      BY <1>1, <2>2, <3>2
  <2>3. CASE a \in Owns \ ToSet(todo)
    BY <1>1, <1>5, <2>3 DEF HeardSound
  <2> QED
    BY <1>3, <2>2, <2>3
<1>6. \A a : Fills(a, LimitOf(s), Len(rows))' <=> Fills(a, LimitOf(s), Len(rows))
  BY <1>1 DEF Fills
<1>7. \A i : Listing(i)' = Listing(i)
  BY <1>1 DEF Listing
<1>8. asOf' <= Horizon' /\ Horizon' <= Len(rows')
  BY <1>1, <1>2 DEF Horizon
<1> HIDE DEF S, b
<1> QED
  BY <1>1, <1>4, <1>5, <1>6, <1>7, <1>8 DEF HeardSound

(***************************************************************************)
(* What is known of the parts of a page.                                   *)
(***************************************************************************)

NowPart == Has("now") => NowSound
TotalPart ==
  Has("total") =>
    \E m \in asOf..Horizon :
      /\ TotalOf(m) /\ (page.kind = "dashboard" => m = asOf)
      /\ page.kind = "summary" /\ backend = "C" => FlowOf(m)
FlowPart == Has("current") => FlowOf(Horizon)

StartParts == NowPart /\ TotalPart /\ FlowPart

LEMMA StartIs == StartSound <=> StartParts
BY DEF StartSound, StartParts, NowPart, TotalPart, FlowPart

Settles == page.kind = "dashboard" /\ asOf = Horizon

CurrentPart ==
  Settles /\ Has("current") /\ Unfilled(StatsLimit) =>
    page.current = OfMonth(Settled, MonthOf(page.now))
PreviousPart ==
  Settles /\ Has("previous") /\ Unfilled(StatsLimit) =>
    page.previous = OfMonth(Settled, MonthOf(page.now) - 1)
ChartPart ==
  Settles /\ Has("chart") /\ Unfilled(RecentLimit) =>
    page.chart[DayOf(page.now)]
      = SpentUntil(Settled, MonthOf(page.now), DayOf(page.now))

AgreeParts == CurrentPart /\ PreviousPart /\ ChartPart

LEMMA AgreeIs == AgreeSound <=> AgreeParts
BY DEF AgreeSound, AgreeParts, Settles, CurrentPart, PreviousPart, ChartPart

PageParts == step # "idle" => PartsOK /\ StartParts /\ AgreeParts

LEMMA PageIs == PageSound <=> PageParts
BY StartIs, AgreeIs DEF PageSound, PageParts

\* Steps of a page leave what is known of the books as it is.
StepSame ==
  /\ Horizon = Len(rows) /\ Horizon' = Len(rows) /\ asOf' = asOf
  /\ page'.kind = page.kind

\* What is kept of the times depends only on the backend.
ReadBy(b, T) ==
  {[t EXCEPT !.at = IF b = "C" THEN t.at - (t.at % TicksPerSecond)
                    ELSE t.at] : t \in T}
ReadsBy == \A T : Read(T) = ReadBy(backend, T)

LEMMA ReadIsBy == ReadsBy
BY Zenon DEF ReadsBy, Read, ReadBy, AsRead

\* A step of a page changes nothing that these parts are stated in ...
LEMMA FrameSame ==
  ASSUME PageStep, asOf' = asOf
  PROVE  /\ \A limit : Unfilled(limit)' <=> Unfilled(limit)
         /\ Horizon = Len(rows) /\ Horizon' = Len(rows)
         /\ \A I : NetAmong(I, Owns)' = NetAmong(I, Owns)
         /\ \A I : WealthAfter(I)' = WealthAfter(I)
         /\ Settled' = Settled
         /\ \A i : AsRead(stamps[i].at)' = AsRead(stamps[i].at)
         /\ \A T, month : OfMonth(T, month)' = OfMonth(T, month)
<1> USE DEF PageStep
<1>1. Horizon = Len(rows) /\ Horizon' = Len(rows)
  BY DEF Horizon
<1>2. \A limit : Unfilled(limit)' <=> Unfilled(limit)
  BY <1>1 DEF Unfilled, Fills
<1>3. \A I : NetAmong(I, Owns)' = NetAmong(I, Owns)
  BY DEF NetAmong
<1>4. \A I : WealthAfter(I)' = WealthAfter(I)
  BY <1>3 DEF WealthAfter
<1>5. Settled' = Settled
  BY DEF Settled, Listing
<1>6. \A i : AsRead(stamps[i].at)' = AsRead(stamps[i].at)
  BY DEF AsRead
<1>7. \A T, month : OfMonth(T, month)' = OfMonth(T, month)
  <2>1. \A T : Read(T)' = Read(T)
    <3>1. ReadsBy /\ ReadsBy'
      BY ReadIsBy, PTL
    <3> QED
      BY <3>1 DEF ReadsBy
  <2> QED
    BY <2>1 DEF OfMonth, OfRange
<1> QED
  BY <1>1, <1>2, <1>3, <1>4, <1>5, <1>6, <1>7

\* ... so that each part stays true where the page keeps it.
LEMMA NowFrame ==
  ASSUME PageStep, asOf' = asOf, SamePart("now"), NowPart
  PROVE  NowPart'
BY DEF PageStep, SamePart, NowPart, NowSound, Has, AsRead

LEMMA FlowFrame ==
  ASSUME PageStep, asOf' = asOf, page'.kind = page.kind, SamePart("now"),
         SamePart("current"), FlowPart, Has("current") => Has("now")
  PROVE  FlowPart'
<1> SUFFICES ASSUME Has("current")', Unfilled(StatsLimit)'
             PROVE  FlowOf(Horizon)'
  BY DEF FlowPart, FlowOf
<1>1. Has("current") /\ Has("now") /\ page'.now = page.now /\ page'.current = page.current
  BY DEF SamePart, Has
<1>2. Unfilled(StatsLimit) /\ Horizon = Len(rows)
  BY FrameSame
<1>3. \A i : InCurrent(i)' <=> InCurrent(i)
  BY <1>1, FrameSame DEF InCurrent, RangeEnd
<1>4. PICK L \in SUBSET ((asOf + 1)..Len(rows)) :
        NetFlow(page.current) = NetAmong({i \in 1..asOf : InCurrent(i)} \cup L, Owns)
  BY <1>1, <1>2 DEF FlowPart, FlowOf
<1>5. PICK K : K = {i \in 1..asOf : InCurrent(i)}
  OBVIOUS
<1>6. K = {i \in 1..asOf : InCurrent(i)}'
  BY <1>3, <1>5
<1>7. NetFlow(page.current)' = NetFlow(page.current)
  BY <1>1 DEF NetFlow
<1>8. NetFlow(page.current)' = NetAmong(K \cup L, Owns)'
  BY <1>4, <1>5, <1>7, FrameSame
<1>9. L \in SUBSET ((asOf' + 1)..Horizon')
  BY FrameSame
<1> QED
  BY <1>6, <1>8, <1>9 DEF FlowOf

LEMMA TotalFrame ==
  ASSUME PageStep, asOf' = asOf, page'.kind = page.kind, SamePart("total"),
         TotalPart, Has("total") => ~(page.kind = "summary" /\ backend = "C")
  PROVE  TotalPart'
<1> SUFFICES ASSUME Has("total")'
             PROVE  TotalPart'
  BY DEF TotalPart
<1>1. Has("total") /\ page'.total = page.total /\ backend' = backend
  BY DEF SamePart, Has, PageStep
<1>2. PICK m \in asOf..Horizon : TotalOf(m) /\ (page.kind = "dashboard" => m = asOf)
  BY <1>1 DEF TotalPart
<1>3. TotalOf(m)'
  BY <1>1, <1>2, FrameSame DEF TotalOf
<1>4. m \in asOf'..Horizon'
  BY <1>2, FrameSame
<1> QED
  BY <1>1, <1>2, <1>3, <1>4 DEF TotalPart

LEMMA CurrentFrame ==
  ASSUME PageStep, asOf' = asOf, page'.kind = page.kind, SamePart("now"),
         SamePart("current"), CurrentPart, Has("current") => Has("now")
  PROVE  CurrentPart'
<1> SUFFICES ASSUME (Settles /\ Has("current") /\ Unfilled(StatsLimit))'
             PROVE  (page.current = OfMonth(Settled, MonthOf(page.now)))'
  BY DEF CurrentPart
<1>1. /\ Has("current") /\ page'.now = page.now /\ page'.current = page.current
      /\ Settles /\ Unfilled(StatsLimit)
  BY FrameSame DEF SamePart, Has, Settles
<1>2. page.current = OfMonth(Settled, MonthOf(page.now))
  BY <1>1 DEF CurrentPart
<1>3. PICK S, month : S = Settled /\ month = MonthOf(page.now)
  OBVIOUS
<1>4. S = Settled' /\ month = (MonthOf(page.now))'
  BY <1>1, <1>3, FrameSame DEF MonthOf
<1>5. page'.current = OfMonth(S, month)'
  BY <1>1, <1>2, <1>3, FrameSame
<1> QED
  BY <1>4, <1>5

LEMMA PreviousFrame ==
  ASSUME PageStep, asOf' = asOf, page'.kind = page.kind, SamePart("now"),
         SamePart("previous"), PreviousPart, Has("previous") => Has("now")
  PROVE  PreviousPart'
<1> SUFFICES ASSUME (Settles /\ Has("previous") /\ Unfilled(StatsLimit))'
             PROVE  (page.previous = OfMonth(Settled, MonthOf(page.now) - 1))'
  BY DEF PreviousPart
<1>1. /\ Has("previous") /\ page'.now = page.now /\ page'.previous = page.previous
      /\ Settles /\ Unfilled(StatsLimit)
  BY FrameSame DEF SamePart, Has, Settles
<1>2. page.previous = OfMonth(Settled, MonthOf(page.now) - 1)
  BY <1>1 DEF PreviousPart
<1>3. PICK S, month : S = Settled /\ month = MonthOf(page.now) - 1
  OBVIOUS
<1>4. S = Settled' /\ month = (MonthOf(page.now) - 1)'
  BY <1>1, <1>3, FrameSame DEF MonthOf
<1>5. page'.previous = OfMonth(S, month)'
  BY <1>1, <1>2, <1>3, FrameSame
<1> QED
  BY <1>4, <1>5

(***************************************************************************)
(* What the figures of a page are made of.                                 *)
(***************************************************************************)

\* The rows that were heard.
HeardRows == {i \in 1..Len(rows) : Listing(i) \in heard}
OwnRow(i) == \E a \in Owns : Names(rows[i], a)

\* All rows there were when the page was begun have been heard, unless a list was
\* cut short, and no row of others.
LEMMA HeardAll ==
  ASSUME BooksSound, HeardSound, heard \subseteq Books, todo = <<>>,
         step \in {"current", "previous", "recent"}, asOf \in Nat
  PROVE  /\ Len(rows) \in Nat /\ asOf <= Len(rows)
         /\ HeardRows \in SUBSET (1..Len(rows)) /\ heard = Listings(HeardRows)
         /\ \A i \in HeardRows : OwnRow(i)
         /\ Unfilled(LimitOf(step)) =>
              \A i \in 1..asOf : OwnRow(i) => i \in HeardRows
<1>1. Len(rows) \in Nat /\ Horizon = Len(rows) /\ asOf <= Len(rows)
  BY BooksShelf DEF Horizon, HeardSound
<1>2. heard = Listings(HeardRows)
  BY DEF Listings, HeardRows, Books
<1>3. \A i \in HeardRows : OwnRow(i)
  <2> SUFFICES ASSUME NEW i \in 1..Len(rows), Listing(i) \in heard
               PROVE  OwnRow(i)
    BY DEF HeardRows
  <2>1. Listing(i).row = rows[i]
    BY HeardIs
  <2> QED
    BY <2>1 DEF HeardSound, OwnRow
<1>4. ASSUME Unfilled(LimitOf(step)), NEW i \in 1..asOf, OwnRow(i)
      PROVE  i \in HeardRows
  <2>1. PICK a \in Owns : Names(rows[i], a)
    BY <1>4 DEF OwnRow
  <2>2. a \in Owns \ ToSet(todo)
    BY DEF ToSet
  <2>3. ~Fills(a, LimitOf(step), Len(rows))
    BY <1>1, <1>4 DEF Unfilled
  <2>4. Listing(i) \in heard
    BY <2>1, <2>2, <2>3 DEF HeardSound
  <2> QED
    BY <1>1, <2>4 DEF HeardRows
<1> QED
  BY <1>1, <1>2, <1>3, <1>4 DEF HeardRows

\* The net flow of a range is that of the rows there were when the page was
\* begun, and of some that came later.
LEMMA FlowHeard ==
  ASSUME BooksSound, HeardSound, heard \subseteq Books, todo = <<>>,
         step \in {"current", "previous", "recent"}, asOf \in Nat,
         Unfilled(LimitOf(step)), NEW from \in Int, NEW to \in Int
  PROVE  \E L \in SUBSET ((asOf + 1)..Len(rows)) :
           NetFlow(OfRange(heard, from, to))
             = NetAmong({i \in 1..asOf : InRange(i, from, to)} \cup L, Owns)
<1> DEFINE In(i) == InRange(i, from, to)
           I == HeardRows
           L == {i \in I : i \in (asOf + 1)..Len(rows) /\ In(i)}
           J == {i \in I : In(i)}
           K == {i \in 1..asOf : In(i)} \cup L
<1>1. /\ Len(rows) \in Nat /\ asOf <= Len(rows)
      /\ I \in SUBSET (1..Len(rows)) /\ heard = Listings(I)
      /\ \A i \in 1..asOf : OwnRow(i) => i \in I
  BY HeardAll
<1>2. NetFlow(OfRange(heard, from, to)) = Came(rows, J)
  BY <1>1, FlowOfRange
<1>3. /\ K \in SUBSET (1..Len(rows)) /\ J \in SUBSET K
      /\ \A i \in K \ J : i \in 1..asOf /\ i \notin I
  <2> HIDE DEF In, I
  <2>1. \A i \in 1..asOf : i \in 1..Len(rows)
    BY <1>1
  <2>2. ASSUME NEW i \in J, i \notin 1..asOf
        PROVE  i \in L
    <3>1. i \in 1..Len(rows) /\ In(i)
      BY <1>1
    <3>2. i \in (asOf + 1)..Len(rows)
      BY <1>1, <2>2, <3>1
    <3> QED
      BY <3>1, <3>2
  <2>3. K \in SUBSET (1..Len(rows))
    BY <1>1, <2>1
  <2>4. J \in SUBSET K
    BY <2>2
  <2>5. \A i \in K \ J : i \in 1..asOf /\ i \notin I
    OBVIOUS
  <2> QED
    BY <2>3, <2>4, <2>5
<1>4. \A i \in K \ J : \A a \in Owns : ~Names(rows[i], a)
  BY <1>1, <1>3 DEF OwnRow
<1>5. rows \in Seq(Row) /\ NetAmong(K, Owns) = Came(rows, K)
  BY <1>3, BooksNet DEF NetShape
<1>6. L \in SUBSET ((asOf + 1)..Len(rows))
  OBVIOUS
<1> HIDE DEF J, L, I, In
<1>7. Came(rows, K) = Came(rows, J)
  <2> HIDE DEF K
  <2> QED
    BY <1>3, <1>4, <1>5, CameOwned
<1>8. NetFlow(OfRange(heard, from, to)) = NetAmong(K, Owns)
  BY <1>2, <1>5, <1>7
<1> QED
  BY <1>6, <1>8 DEF In

\* While nothing is posted, the lists are those of the books.
LEMMA HeardSettled ==
  ASSUME BooksSound, HeardSound, heard \subseteq Books, todo = <<>>,
         step \in {"current", "previous", "recent"}, asOf = Len(rows),
         Unfilled(LimitOf(step))
  PROVE  heard = Settled
<1>1. Len(rows) \in Nat
  BY BooksShelf
<1>2. /\ heard = Listings(HeardRows)
      /\ \A i \in HeardRows : OwnRow(i)
      /\ \A i \in 1..asOf : OwnRow(i) => i \in HeardRows
  BY <1>1, HeardAll
<1>3. HeardRows = {j \in 1..asOf : OwnRow(j)}
  BY <1>2 DEF HeardRows
<1> QED
  BY <1>2, <1>3 DEF Settled, Listings, OwnRow

\* The moment of a page, and its month.
LEMMA NowIs ==
  ASSUME NowSound, backend \in {"C", "Rust"}, clock \in Nat
  PROVE  /\ page.now \in Int /\ MonthOf(page.now) \in Int
         /\ MonthStart(MonthOf(page.now)) \in Int
         /\ MonthEnd(MonthOf(page.now)) \in Int
<1>1. PICK c \in 0..clock : page.now = AsRead(c)
  BY DEF NowSound
<1>2. c \in Nat /\ page.now \in Int
  BY <1>1, AsReadKeeps
<1>3. TicksPerMonth \in Nat \ {0}
  BY DashboardAssumption, StatementsAssumption DEF TicksPerMonth
<1>4. MonthOf(page.now) \in Int
  BY <1>2, <1>3 DEF MonthOf
<1>5. 0 \in Nat
  OBVIOUS
<1> QED
  BY <1>2, <1>4, <1>5, MonthsAre

(***************************************************************************)
(* The steps of a page and its parts.                                      *)
(***************************************************************************)

ReadingFacts ==
  /\ BooksSound /\ HeardSound /\ heard \subseteq Books /\ asOf \in Nat
  /\ backend \in {"C", "Rust"} /\ clock \in Nat /\ ClockSound /\ WealthSound

\* A page that is begun has nothing yet.
LEMMA AskParts ==
  ASSUME AskPage
  PROVE  StartParts' /\ AgreeParts'
<1>1. PICK k \in Pages : page' = [kind |-> k]
  BY DEF AskPage
<1>2. DOMAIN page' = {"kind"}
  BY <1>1
<1> QED
  BY <1>2 DEF StartParts, AgreeParts, NowPart, TotalPart, FlowPart, CurrentPart,
              PreviousPart, ChartPart, Has

\* A list adds nothing to the page.
LEMMA ListParts ==
  ASSUME StartParts, AgreeParts, PartsOK, PartsOK', PageStep, page' = page,
         asOf' = asOf, step' = step, step # "idle", step # "shown",
         backend \in {"C", "Rust"}
  PROVE  StartParts' /\ AgreeParts'
<1>1. \A part : SamePart(part)
  BY DEF SamePart
<1>2. page'.kind = page.kind
  OBVIOUS
<1>3. Has("current") => Has("now")
  BY DEF PartsOK
<1>5. Has("total") => ~(page.kind = "summary" /\ backend = "C")
  BY DEF PartsOK
<1>6. NowPart' /\ FlowPart' /\ TotalPart'
  BY <1>1, <1>2, <1>3, <1>5, NowFrame, FlowFrame, TotalFrame DEF StartParts
<1>7. CurrentPart'
  BY <1>1, <1>2, <1>3, CurrentFrame DEF AgreeParts
<1>8. PreviousPart' /\ ChartPart'
  <2>1. CASE page.kind = "dashboard"
    <3>1. ~Has("chart")' /\ (Has("previous") => Has("now"))
      BY <1>2, <2>1 DEF PartsOK
    <3> QED
      BY <1>1, <1>2, <3>1, PreviousFrame DEF AgreeParts, ChartPart
  <2>2. CASE page.kind # "dashboard"
    BY <1>2, <2>2 DEF PreviousPart, ChartPart, Settles
  <2> QED
    BY <2>1, <2>2
<1> QED
  BY <1>6, <1>7, <1>8 DEF StartParts, AgreeParts

\* The balances are those after all rows.
LEMMA AccountsParts ==
  ASSUME ReadingFacts, StartParts, PartsOK, PartsOK', PageStep, ReadAccounts,
         "kind" \in DOMAIN page
  PROVE  StartParts' /\ AgreeParts'
<1> DEFINE parts == [total |-> SumFunctionOnSet(balance, Owns)]
<1>0. PICK n : n = Len(rows)
  OBVIOUS
<1>1. page' = With(parts) /\ DOMAIN parts = {"total"}
      /\ parts["total"] = SumFunctionOnSet(balance, Owns)
  BY DEF ReadAccounts
<1> HIDE DEF parts
<1>2. /\ \A part : part # "total" => SamePart(part)
      /\ page'.total = SumFunctionOnSet(balance, Owns)
  BY <1>1, WithIs
<1>3. page'.kind = page.kind
  BY <1>2 DEF SamePart
<1>4. /\ step = "accounts"
      /\ step' = IF page.kind = "dashboard" THEN "now"
                 ELSE IF backend = "Rust" THEN "current" ELSE "shown"
      /\ asOf' = IF step' = "now" THEN n ELSE asOf
  BY <1>0 DEF ReadAccounts
<1>5. /\ rows' = rows /\ backend' = backend /\ Horizon = n /\ Horizon' = n
      /\ n \in Nat /\ asOf <= n
  BY <1>0, BooksShelf DEF ReadingFacts, PageStep, Horizon, HeardSound
<1>6. TotalOf(n)'
  <2>1. SumFunctionOnSet(balance, Owns) = WealthAfter(1..n)
    BY <1>0 DEF ReadingFacts, WealthSound
  <2>2. WealthAfter(1..n)' = WealthAfter(1..n)
    BY <1>5 DEF WealthAfter, NetAmong
  <2> QED
    BY <1>2, <2>1, <2>2 DEF TotalOf
<1>7. CASE page.kind = "dashboard"
  <2>1. /\ asOf' = n /\ n \in asOf'..Horizon'
        /\ step' = "now" /\ page'.kind = "dashboard"
    BY <1>3, <1>4, <1>5, <1>7
  <2>2. TotalPart'
    BY <1>6, <2>1 DEF TotalPart
  <2>3. ~Has("now")' /\ ~Has("current")' /\ ~Has("previous")' /\ ~Has("chart")'
    BY <2>1 DEF PartsOK
  <2> QED
    BY <2>2, <2>3 DEF StartParts, AgreeParts, NowPart, FlowPart, CurrentPart,
                      PreviousPart, ChartPart
<1>8. CASE page.kind # "dashboard"
  <2>1. page.kind = "summary" /\ page'.kind = "summary" /\ asOf' = asOf
    BY <1>3, <1>4, <1>8 DEF PartsOK
  <2>2. n \in asOf'..Horizon'
    BY <1>5, <2>1 DEF ReadingFacts
  <2>3. AgreeParts'
    BY <2>1 DEF AgreeParts, CurrentPart, PreviousPart, ChartPart, Settles
  <2>4. NowPart'
    BY <1>2, <2>1, NowFrame DEF StartParts
  <2>5. CASE backend = "Rust"
    <3>1. step' = "current"
      BY <1>4, <2>1, <2>5
    <3>2. ~Has("current")'
      BY <1>5, <2>1, <2>5, <3>1 DEF PartsOK
    <3>3. TotalPart'
      BY <1>5, <1>6, <2>1, <2>2, <2>5 DEF TotalPart
    <3> QED
      BY <2>3, <2>4, <3>2, <3>3 DEF StartParts, FlowPart
  <2>6. CASE backend = "C"
    <3>1. step' = "shown"
      BY <1>4, <2>1, <2>6
    <3>2. Has("current") /\ Has("now")
      BY <1>4, <2>1, <2>6 DEF PartsOK
    <3>3. FlowPart'
      BY <1>2, <1>3, <2>1, <3>2, FlowFrame DEF StartParts
    <3>4. Has("current")'
      BY <1>2, <3>2 DEF SamePart, Has
    <3>5. FlowOf(n)'
      BY <1>5, <3>3, <3>4 DEF FlowPart, FlowOf
    <3>6. TotalPart'
      BY <1>6, <2>1, <2>2, <3>5 DEF TotalPart
    <3> QED
      BY <2>3, <2>4, <3>3, <3>6 DEF StartParts
  <2> QED
    BY <2>5, <2>6 DEF ReadingFacts
<1> QED
  BY <1>7, <1>8

\* No row is of a later moment than the one the page is of.
LEMMA ClockParts ==
  ASSUME ReadingFacts, StartParts, PartsOK, PartsOK', PageStep, LookAtClock,
         "kind" \in DOMAIN page
  PROVE  StartParts' /\ AgreeParts'
<1> DEFINE parts == [now |-> AsRead(clock)]
<1>0. PICK n : n = Len(rows)
  OBVIOUS
<1>1. page' = With(parts) /\ DOMAIN parts = {"now"} /\ parts["now"] = AsRead(clock)
  BY DEF LookAtClock
<1> HIDE DEF parts
<1>2. /\ \A part : part # "now" => SamePart(part)
      /\ page'.now = AsRead(clock)
  BY <1>1, WithIs
<1>3. page'.kind = page.kind
  BY <1>2 DEF SamePart
<1>4. /\ step = "now" /\ asOf' = IF page.kind = "dashboard" THEN asOf ELSE n
      /\ step' \in {"current", "accounts"}
      /\ step' = "current" \/ (~Has("total") /\ backend # "C")
      /\ backend' = backend
  BY <1>0 DEF LookAtClock, Has
<1>5. /\ rows' = rows /\ stamps' = stamps /\ clock' = clock /\ Horizon = n
      /\ n \in Nat /\ asOf <= n
  BY <1>0, <1>4, BooksShelf DEF ReadingFacts, PageStep, Horizon, HeardSound
<1>6. NowPart'
  <2>1. \A i \in 1..asOf' : stamps[i].at <= clock
    BY <1>0, <1>4, <1>5 DEF ReadingFacts, ClockSound
  <2>2. clock \in 0..clock
    BY DEF ReadingFacts
  <2> QED
    BY <1>2, <1>4, <1>5, <2>1, <2>2 DEF NowPart, NowSound, AsRead
<1>7. FlowPart' /\ AgreeParts'
  <2>1. ~Has("current")'
    BY <1>4 DEF PartsOK, ReadingFacts
  <2>2. page'.kind = "dashboard" => ~Has("previous")' /\ ~Has("chart")'
    BY <1>4 DEF PartsOK
  <2> QED
    BY <2>1, <2>2 DEF AgreeParts, FlowPart, CurrentPart, PreviousPart, ChartPart,
                      Settles
<1>8. TotalPart'
  <2>1. CASE page.kind = "dashboard"
    BY <1>2, <1>3, <1>4, <2>1, TotalFrame DEF StartParts
  <2>2. CASE page.kind # "dashboard"
    <3>1. ~Has("total")
      BY <1>4, <2>2 DEF PartsOK
    <3>2. ~Has("total")'
      BY <1>2, <3>1 DEF SamePart, Has
    <3> QED
      BY <3>2 DEF TotalPart
  <2> QED
    BY <2>1, <2>2
<1> QED
  BY <1>6, <1>7, <1>8 DEF StartParts

\* The figures of the month are those of the lists.
CurrentRange == OfRange(heard, MonthStart(MonthOf(page.now)), RangeEnd)

\* What the step adds to the page.
LEMMA CurrentIs ==
  ASSUME Current, "kind" \in DOMAIN page
  PROVE  /\ step = "current" /\ todo = <<>> /\ step' # "current" /\ asOf' = asOf
         /\ backend' = backend
         /\ step' = IF page.kind = "dashboard" THEN "previous"
                    ELSE IF backend = "Rust" THEN "shown" ELSE "accounts"
         /\ \A part : part # "current" => SamePart(part)
         /\ page'.kind = page.kind
         /\ Has("current")' /\ page'.current = CurrentRange
<1> DEFINE parts == [current |-> CurrentRange]
<1>1. page' = With(parts) /\ DOMAIN parts = {"current"}
      /\ parts["current"] = CurrentRange
  BY DEF Current, Closing, CurrentRange, RangeEnd
<1> HIDE DEF parts
<1>2. /\ \A part : part # "current" => SamePart(part)
      /\ Has("current")' /\ page'.current = CurrentRange
  BY <1>1, WithIs DEF Has
<1>3. page'.kind = page.kind
  BY <1>2 DEF SamePart
<1> QED
  BY <1>2, <1>3 DEF Current, Closing

\* The figures of the month are those of the rows it covers.
LEMMA CurrentKeepsParts ==
  ASSUME ReadingFacts, StartParts, AgreeParts, PartsOK, PartsOK', PageStep,
         Current, "kind" \in DOMAIN page
  PROVE  StartParts' /\ AgreeParts'
<1>0. PICK n : n = Len(rows)
  OBVIOUS
<1>1. /\ step = "current" /\ todo = <<>> /\ asOf' = asOf /\ backend' = backend
      /\ \A part : part # "current" => SamePart(part)
      /\ page'.kind = page.kind
      /\ Has("current")' /\ page'.current = CurrentRange
      /\ step' = IF page.kind = "dashboard" THEN "previous"
                 ELSE IF backend = "Rust" THEN "shown" ELSE "accounts"
  BY CurrentIs
<1>2. Has("now") /\ page'.now = page.now /\ NowSound /\ Has("now")'
  <2>1. Has("now")
    BY <1>1 DEF PartsOK
  <2> QED
    BY <1>1, <2>1 DEF SamePart, Has, StartParts, NowPart
<1>3. /\ MonthStart(MonthOf(page.now)) \in Int /\ RangeEnd \in Int
  BY <1>2, NowIs DEF ReadingFacts, RangeEnd
<1>4. NowPart'
  BY <1>1, NowFrame DEF StartParts
<1>5. TotalPart'
  <2>1. Has("total") => ~(page.kind = "summary" /\ backend = "C")
    BY <1>1 DEF PartsOK
  <2> QED
    BY <1>1, <2>1, TotalFrame DEF StartParts
<1>6. LimitOf(step) = StatsLimit
  BY <1>1 DEF LimitOf
<1>7. FlowPart'
  <2> SUFFICES ASSUME Unfilled(StatsLimit)'
               PROVE  FlowOf(Horizon)'
    BY DEF FlowPart, FlowOf
  <2>1. Unfilled(LimitOf(step))
    BY <1>1, <1>6, FrameSame
  <2>2. PICK from \in Int, to \in Int :
          from = MonthStart(MonthOf(page.now)) /\ to = RangeEnd
    BY <1>3
  <2>3. PICK L \in SUBSET ((asOf + 1)..Len(rows)) :
          NetFlow(OfRange(heard, from, to))
            = NetAmong({i \in 1..asOf : InRange(i, from, to)} \cup L, Owns)
    BY <1>1, <2>1, FlowHeard DEF ReadingFacts
  <2>4. PICK K : K = {i \in 1..asOf : InRange(i, from, to)}
    OBVIOUS
  <2>5. K = {i \in 1..asOf : InCurrent(i)}'
    <3>1. \A i : InCurrent(i)' <=> InRange(i, from, to)
      BY <1>1, <1>2, <2>2, FrameSame DEF InCurrent, InRange, RangeEnd, MonthOf,
         MonthStart, MonthEnd
    <3> QED
      BY <1>1, <2>4, <3>1
  <2>6. NetFlow(page.current)' = NetAmong(K \cup L, Owns)'
    <3>1. NetFlow(page.current)' = NetFlow(OfRange(heard, from, to))
      BY <1>1, <2>2 DEF NetFlow, CurrentRange
    <3> QED
      BY <1>1, <2>3, <2>4, <3>1, FrameSame
  <2>7. L \in SUBSET ((asOf' + 1)..Horizon')
    BY <1>1, FrameSame
  <2> QED
    BY <2>5, <2>6, <2>7 DEF FlowOf
<1>8. CurrentPart'
  <2> SUFFICES ASSUME (Settles /\ Unfilled(StatsLimit))'
               PROVE  (page.current = OfMonth(Settled, MonthOf(page.now)))'
    BY DEF CurrentPart
  <2>1. page.kind = "dashboard" /\ asOf = Len(rows) /\ Unfilled(LimitOf(step))
    BY <1>1, <1>6, FrameSame DEF Settles
  <2>2. heard = Settled
    BY <1>1, <2>1, HeardSettled DEF ReadingFacts
  <2>3. PICK S, month : S = Settled /\ month = MonthOf(page.now)
    OBVIOUS
  <2>4. S = Settled' /\ month = MonthOf(page.now)'
    BY <1>1, <1>2, <2>3, FrameSame DEF MonthOf
  <2>5. page'.current = OfMonth(S, month)
    BY <1>1, <2>1, <2>2, <2>3 DEF CurrentRange, RangeEnd, OfMonth
  <2>6. page'.current = OfMonth(S, month)'
    BY <1>1, <2>5, FrameSame
  <2> QED
    BY <2>4, <2>6
<1>9. PreviousPart' /\ ChartPart'
  <2>1. page'.kind = "dashboard" => ~Has("previous")' /\ ~Has("chart")'
    BY <1>1 DEF PartsOK
  <2> QED
    BY <2>1 DEF PreviousPart, ChartPart, Settles
<1> QED
  BY <1>4, <1>5, <1>7, <1>8, <1>9 DEF StartParts, AgreeParts

\* What the step adds to the page.
LEMMA PreviousIs ==
  ASSUME Previous, "kind" \in DOMAIN page
  PROVE  /\ step = "previous" /\ todo = <<>> /\ step' = "recent" /\ asOf' = asOf
         /\ backend' = backend
         /\ \A part : part # "previous" => SamePart(part)
         /\ page'.kind = page.kind
         /\ Has("previous")'
         /\ page'.previous = OfMonth(heard, MonthOf(page.now) - 1)
<1> DEFINE parts == [previous |-> OfMonth(heard, MonthOf(page.now) - 1)]
<1>1. page' = With(parts) /\ DOMAIN parts = {"previous"}
      /\ parts["previous"] = OfMonth(heard, MonthOf(page.now) - 1)
  BY DEF Previous, Closing
<1> HIDE DEF parts
<1>2. /\ \A part : part # "previous" => SamePart(part)
      /\ Has("previous")'
      /\ page'.previous = OfMonth(heard, MonthOf(page.now) - 1)
  BY <1>1, WithIs DEF Has
<1>3. page'.kind = page.kind
  BY <1>2 DEF SamePart
<1> QED
  BY <1>2, <1>3 DEF Previous, Closing, reader

\* So are those of the last month.
LEMMA PreviousKeepsParts ==
  ASSUME ReadingFacts, StartParts, AgreeParts, PartsOK, PartsOK', PageStep,
         Previous, "kind" \in DOMAIN page
  PROVE  StartParts' /\ AgreeParts'
<1>1. /\ step = "previous" /\ todo = <<>> /\ asOf' = asOf /\ backend' = backend
      /\ \A part : part # "previous" => SamePart(part)
      /\ page'.kind = page.kind
      /\ Has("previous")' /\ step' = "recent"
      /\ page'.previous = OfMonth(heard, MonthOf(page.now) - 1)
  BY PreviousIs
<1>2. page.kind = "dashboard" /\ Has("now") /\ Has("current") /\ page'.now = page.now
  <2>1. page.kind = "dashboard"
    BY <1>1 DEF PartsOK
  <2>2. Has("now") /\ Has("current")
    BY <1>1, <2>1 DEF PartsOK
  <2> QED
    BY <1>1, <2>1, <2>2 DEF SamePart, Has
<1>3. SamePart("now") /\ SamePart("total") /\ SamePart("current")
  BY <1>1
<1>4. NowPart' /\ TotalPart' /\ FlowPart' /\ CurrentPart'
  BY <1>1, <1>2, <1>3, NowFrame, TotalFrame, FlowFrame, CurrentFrame
     DEF StartParts, AgreeParts
<1>5. LimitOf(step) = StatsLimit
  BY <1>1 DEF LimitOf
<1>6. PreviousPart'
  <2> SUFFICES ASSUME (Settles /\ Unfilled(StatsLimit))'
               PROVE  (page.previous = OfMonth(Settled, MonthOf(page.now) - 1))'
    BY DEF PreviousPart
  <2>1. asOf = Len(rows) /\ Unfilled(LimitOf(step))
    BY <1>1, <1>5, FrameSame DEF Settles
  <2>2. heard = Settled
    BY <1>1, <2>1, HeardSettled DEF ReadingFacts
  <2>3. PICK S, month : S = Settled /\ month = MonthOf(page.now) - 1
    OBVIOUS
  <2>4. S = Settled' /\ month = (MonthOf(page.now) - 1)'
    BY <1>1, <1>2, <2>3, FrameSame DEF MonthOf
  <2>5. page'.previous = OfMonth(S, month)'
    BY <1>1, <2>2, <2>3, FrameSame
  <2> QED
    BY <2>4, <2>5
<1>7. ChartPart'
  <2>1. ~Has("chart")'
    BY <1>1, <1>2 DEF PartsOK
  <2> QED
    BY <2>1 DEF ChartPart
<1> QED
  BY <1>4, <1>6, <1>7 DEF StartParts, AgreeParts

\* The chart ends with today, or later.
LEMMA DaysOrder ==
  ASSUME NEW x \in Nat, NEW y \in Nat, x <= y
  PROVE  DayOf(x) \in Nat /\ DayOf(y) \in Nat /\ DayOf(x) <= DayOf(y)
<1> DEFINE d == TicksPerDay
<1>1. d \in Nat \ {0}
  BY StatementsAssumption
<1> HIDE DEF d
<1>2. PICK j, k : j = x \div d /\ k = y \div d
  OBVIOUS
<1>3. /\ j \in Nat /\ x % d \in 0..(d - 1) /\ x = d * j + (x % d) /\ d * j \in Int
  BY <1>1, <1>2, Parted
<1>4. /\ k \in Nat /\ y % d \in 0..(d - 1) /\ y = d * k + (y % d) /\ d * k \in Int
  BY <1>1, <1>2, Parted
<1>5. PICK r, s : r = x % d /\ s = y % d
  OBVIOUS
<1>6. r >= 0 /\ r \in Int /\ s \in 0..(d - 1)
  BY <1>1, <1>3, <1>4, <1>5
<1>7. d * k + s >= d * j
  BY <1>3, <1>4, <1>5, <1>6
<1>8. k >= j
  BY <1>1, <1>3, <1>4, <1>6, <1>7, Units
<1> QED
  BY <1>2, <1>3, <1>4, <1>8 DEF DayOf, d

\* Days in units: the least day a time is of.
LEMMA DayAt ==
  ASSUME NEW x \in Nat, NEW j \in Int
  PROVE  /\ DayOf(x) \in Nat /\ TicksPerDay * j \in Int
         /\ x >= TicksPerDay * j <=> DayOf(x) >= j
<1> DEFINE d == TicksPerDay
<1>1. d \in Nat \ {0}
  BY StatementsAssumption
<1> HIDE DEF d
<1>2. PICK k, r : k = x \div d /\ r = x % d
  OBVIOUS
<1>3. k \in Nat /\ r \in 0..(d - 1) /\ x = d * k + r /\ d * k \in Int
  BY <1>1, <1>2, Parted
<1>4. (d * k + r >= d * j <=> k >= j) /\ d * j \in Int
  BY <1>1, <1>3, Units
<1> QED
  BY <1>2, <1>3, <1>4 DEF DayOf, d

\* The last second of a month is of its last day.
LEMMA MonthLasts ==
  ASSUME NEW now \in Nat
  PROVE  LET month == MonthOf(now)
         IN /\ month \in Nat /\ MonthStart(month) \in Nat /\ MonthStart(month) <= now
            /\ DayOf(now) <= DayOf(MonthEnd(month)) /\ DayOf(MonthEnd(month)) \in Nat
<1> DEFINE D == TicksPerMonth
           d == TicksPerDay
           p == DaysPerMonth
           s == TicksPerSecond
<1>1. d \in Nat \ {0} /\ p \in Nat \ {0} /\ D = p * d /\ s \in Nat \ {0} /\ d % s = 0
  BY StatementsAssumption, DashboardAssumption DEF TicksPerMonth
<1>2. D \in Nat \ {0}
  BY <1>1
<1> HIDE DEF D, d, p, s
<1>3. PICK month, r : month = now \div D /\ r = now % D
  OBVIOUS
<1>4. /\ month \in Nat /\ r \in 0..(D - 1) /\ now = D * month + r
      /\ D * month \in Int
  BY <1>2, <1>3, Parted
<1>5. MonthOf(now) = month /\ MonthStart(month) = month * D
      /\ MonthEnd(month) = (month + 1) * D - s
  BY <1>3 DEF MonthOf, MonthStart, MonthEnd, D, s
<1>6. PICK last : last = (month + 1) * p - 1
  OBVIOUS
<1>7. last \in Nat
  <2>1. (month + 1) * p \in Nat
    BY <1>1, <1>4
  <2>2. (month + 1) * p = month * p + p /\ month * p \in Nat
    BY <1>1, <1>4
  <2> QED
    BY <1>1, <1>6, <2>1, <2>2
<1>8. (month + 1) * D = d * (last + 1) /\ d * (last + 1) = d * last + d
  <2>1. last + 1 = (month + 1) * p
    BY <1>1, <1>4, <1>6
  <2>2. d * ((month + 1) * p) = (month + 1) * (p * d)
    BY <1>1, <1>4
  <2>3. d * (last + 1) = d * last + d
    BY <1>1, <1>7
  <2> QED
    BY <1>1, <2>1, <2>2, <2>3
<1>9. d * last \in Nat /\ d * (last + 1) \in Nat
  BY <1>1, <1>7
<1>10. now < d * (last + 1)
  <2>1. (month + 1) * D = D * month + D
    BY <1>2, <1>4
  <2> QED
    BY <1>2, <1>4, <1>8, <2>1
<1>11. d >= s
  <2>1. d \div s \in Nat /\ d = s * (d \div s) + (d % s)
    BY <1>1, Parted
  <2>2. PICK k : k = d \div s
    OBVIOUS
  <2>3. k \in Nat /\ d = s * k /\ k # 0
    BY <1>1, <2>1, <2>2
  <2>4. (k - 1) \in Nat /\ s * (k - 1) \in Nat /\ s * k = s * (k - 1) + s
    BY <1>1, <2>3
  <2> QED
    BY <1>1, <2>3, <2>4
<1>12. PICK end : end = MonthEnd(month)
  OBVIOUS
<1>13. end \in Nat /\ end >= d * last
  BY <1>1, <1>5, <1>8, <1>9, <1>11, <1>12
<1>14. DayOf(end) >= last /\ DayOf(end) \in Nat
  BY <1>7, <1>13, DayAt DEF d
<1>15. DayOf(now) <= last /\ DayOf(now) \in Nat
  <2>1. last + 1 \in Int
    BY <1>7
  <2>2. /\ DayOf(now) \in Nat /\ d * (last + 1) \in Int
        /\ now >= d * (last + 1) <=> DayOf(now) >= last + 1
    BY <2>1, DayAt DEF d
  <2> QED
    BY <1>7, <1>9, <1>10, <2>2
<1>16. DayOf(now) <= DayOf(end)
  BY <1>7, <1>14, <1>15
<1>17. month * D \in Nat /\ month * D <= now
  <2>1. month * D = D * month
    BY <1>2, <1>4
  <2>2. D * month \in Nat
    BY <1>2, <1>4
  <2> QED
    BY <1>2, <1>4, <2>1, <2>2
<1> QED
  BY <1>4, <1>5, <1>12, <1>14, <1>16, <1>17

\* The moment a page is of.
LEMMA MomentIs ==
  ASSUME NEW c \in Nat, backend \in {"C", "Rust"}
  PROVE  AsRead(c) \in Nat /\ (backend = "Rust" => AsRead(c) = c)
<1>1. PICK d : d = TicksPerSecond
  OBVIOUS
<1>2. d \in Nat \ {0}
  BY <1>1, StatementsAssumption
<1>3. c \div d \in Nat /\ c % d \in 0..(d - 1) /\ c = d * (c \div d) + (c % d)
  BY <1>2, Parted
<1>4. PICK k, r : k = c \div d /\ r = c % d
  OBVIOUS
<1>5. c - r = d * k /\ d * k \in Nat
  BY <1>2, <1>3, <1>4
<1> QED
  BY <1>1, <1>4, <1>5 DEF AsRead

TodayOf(month) ==
  IF backend = "C" \/ MonthOf(clock) # month
  THEN DayOf(IF backend = "C" THEN page.now ELSE MonthEnd(month))
  ELSE DayOf(clock)

\* The chart has a point for the day the page is of.
LEMMA TodayIn ==
  ASSUME NowSound, backend \in {"C", "Rust"}, clock \in Nat
  PROVE  DayOf(page.now)
           \in DayOf(MonthStart(MonthOf(page.now)))..TodayOf(MonthOf(page.now))
<1>1. PICK c \in 0..clock : page.now = AsRead(c)
  BY DEF NowSound
<1>2. PICK now : now = page.now
  OBVIOUS
<1>3. c \in Nat /\ now \in Nat /\ (backend = "Rust" => now = c)
  BY <1>1, <1>2, MomentIs
<1>4. PICK month : month = MonthOf(now)
  OBVIOUS
<1>5. /\ MonthStart(month) \in Nat /\ MonthStart(month) <= now
      /\ DayOf(now) <= DayOf(MonthEnd(month)) /\ DayOf(MonthEnd(month)) \in Nat
  BY <1>3, <1>4, MonthLasts
<1>6. /\ DayOf(MonthStart(month)) \in Nat /\ DayOf(now) \in Nat
      /\ DayOf(MonthStart(month)) <= DayOf(now)
  BY <1>3, <1>5, DaysOrder
<1>7. DayOf(now) <= TodayOf(month) /\ TodayOf(month) \in Int
  <2>1. CASE backend = "C"
    BY <1>2, <1>6, <2>1 DEF TodayOf
  <2>2. CASE backend = "Rust" /\ MonthOf(clock) # month
    BY <1>5, <1>6, <2>2 DEF TodayOf
  <2>3. CASE backend = "Rust" /\ MonthOf(clock) = month
    <3>1. now <= clock
      BY <1>3, <2>3
    <3>2. DayOf(clock) \in Nat /\ DayOf(now) <= DayOf(clock)
      BY <1>3, <3>1, DaysOrder
    <3> QED
      BY <2>3, <3>2 DEF TodayOf
  <2> QED
    BY <2>1, <2>2, <2>3
<1> QED
  BY <1>2, <1>4, <1>6, <1>7

\* What the step adds to the page.
LEMMA ChartIs ==
  ASSUME ChartAndRecent, "kind" \in DOMAIN page
  PROVE  /\ step = "recent" /\ todo = <<>> /\ step' = "shown" /\ asOf' = asOf
         /\ backend' = backend
         /\ \A part : part # "chart" /\ part # "recent" => SamePart(part)
         /\ page'.kind = page.kind /\ Has("chart")'
         /\ page'.chart = Chart(heard, MonthOf(page.now), TodayOf(MonthOf(page.now)))
<1> DEFINE f == Chart(heard, MonthOf(page.now), TodayOf(MonthOf(page.now)))
<1>1. \E g : page' = With([chart |-> f, recent |-> g])
  BY DEF ChartAndRecent, Closing, TodayOf
<1> HIDE DEF f
<1>2. PICK g : page' = With([chart |-> f, recent |-> g])
  BY <1>1
<1> DEFINE parts == [chart |-> f, recent |-> g]
<1>3. page' = With(parts) /\ DOMAIN parts = {"chart", "recent"}
      /\ parts["chart"] = f
  BY <1>2
<1> HIDE DEF parts
<1>4. /\ \A part : part # "chart" /\ part # "recent" => SamePart(part)
      /\ Has("chart")' /\ page'.chart = f
  BY <1>3, WithIs DEF Has
<1>5. page'.kind = page.kind
  BY <1>4 DEF SamePart
<1>6. step = "recent" /\ todo = <<>> /\ step' = "shown" /\ asOf' = asOf
      /\ backend' = backend
  BY DEF ChartAndRecent, Closing
<1> QED
  BY <1>4, <1>5, <1>6 DEF f

\* At that point it has what was spent in the month until then.
LEMMA ChartKeepsParts ==
  ASSUME ReadingFacts, StartParts, AgreeParts, PartsOK, PartsOK', PageStep,
         ChartAndRecent, "kind" \in DOMAIN page
  PROVE  StartParts' /\ AgreeParts'
<1> DEFINE month == MonthOf(page.now)
<1>1. /\ step = "recent" /\ todo = <<>> /\ asOf' = asOf /\ backend' = backend
      /\ \A part : part # "chart" /\ part # "recent" => SamePart(part)
      /\ page'.kind = page.kind
      /\ page'.chart = Chart(heard, month, TodayOf(month))
  BY ChartIs
<1>2. /\ page.kind = "dashboard" /\ Has("now") /\ Has("current")
      /\ page'.now = page.now /\ NowSound
  <2>1. page.kind = "dashboard"
    BY <1>1 DEF PartsOK
  <2>2. Has("now") /\ Has("current")
    BY <1>1, <2>1 DEF PartsOK
  <2> QED
    BY <1>1, <2>1, <2>2 DEF SamePart, Has, StartParts, NowPart
<1>3. SamePart("now") /\ SamePart("total") /\ SamePart("current")
      /\ SamePart("previous")
  BY <1>1
<1>4. NowPart' /\ TotalPart' /\ FlowPart' /\ CurrentPart' /\ PreviousPart'
  BY <1>1, <1>2, <1>3, NowFrame, TotalFrame, FlowFrame, CurrentFrame, PreviousFrame
     DEF StartParts, AgreeParts
<1>5. LimitOf(step) = RecentLimit
  BY <1>1 DEF LimitOf
<1>6. ChartPart'
  <2> SUFFICES ASSUME (Settles /\ Unfilled(RecentLimit))'
               PROVE  (page.chart[DayOf(page.now)]
                         = SpentUntil(Settled, MonthOf(page.now), DayOf(page.now)))'
    BY DEF ChartPart
  <2>1. asOf = Len(rows) /\ Unfilled(LimitOf(step))
    BY <1>1, <1>5, FrameSame DEF Settles
  <2>2. heard = Settled
    BY <1>1, <2>1, HeardSettled DEF ReadingFacts
  <2>3. PICK S, m, day : S = Settled /\ m = month /\ day = DayOf(page.now)
    OBVIOUS
  <2>4. S = Settled' /\ m = MonthOf(page.now)' /\ day = DayOf(page.now)'
    BY <1>1, <1>2, <2>3, FrameSame DEF MonthOf, DayOf
  <2>5. day \in DayOf(MonthStart(m))..TodayOf(m)
    BY <1>2, <2>3, TodayIn DEF ReadingFacts
  <2>6. page'.chart[day] = SpentUntil(S, m, day)
    BY <1>1, <2>2, <2>3, <2>5 DEF Chart
  <2>7. \A T, x, y : SpentUntil(T, x, y)' = SpentUntil(T, x, y)
    BY <1>1 DEF SpentUntil, InMonth, AsRead
  <2> QED
    BY <2>4, <2>6, <2>7
<1> QED
  BY <1>4, <1>6 DEF StartParts, AgreeParts

PageInv == ClockSound /\ WealthSound /\ HeardSound /\ PageSound

\* What the lemmas about the parts are stated of.
LEMMA Facts ==
  ASSUME Core, PageTypeOK, PageInv
  PROVE  ReadingFacts /\ "kind" \in DOMAIN page /\ upTo \in Nat
<1>1. backend \in {"C", "Rust"} /\ asOf \in Nat /\ upTo \in Nat
  BY StatementsAssumption, JournalAssumption DEF Core, StatementTypeOK
<1>2. clock \in Nat
  BY JournalAssumption DEF Core, BooksSound, JournalTypeOK
<1> QED
  BY <1>1, <1>2 DEF Core, PageTypeOK, PageInv, ReadingFacts

\* Every step of a page leaves what is known of its parts true.
LEMMA PageKeepsPage ==
  ASSUME Core, PageTypeOK, PageInv, PageReader
  PROVE  PageSound'
<1>1. ReadingFacts /\ "kind" \in DOMAIN page
  BY Facts
<1>2. PageParts /\ PartsSound
  BY PageIs DEF PageInv, PageParts, PartsSound
<1>3. PartsSound'
  BY <1>1, <1>2, PageKeepsParts DEF ReadingFacts
<1>4. ASSUME PageParts' PROVE PageSound'
  BY <1>4, PageIs, PTL
<1>5. CASE PageDone
  BY <1>5 DEF PageDone, PageSound
<1>6. ASSUME ~PageDone, step' # "idle"
      PROVE  StartParts' /\ AgreeParts'
  <2>1. PageStep
    BY <1>6, PageStepIs
  <2>2. PartsOK'
    BY <1>3, <1>6 DEF PartsSound
  <2>3. CASE AskPage
    BY <2>3, AskParts
  <2>4. ASSUME step # "idle" PROVE PartsOK /\ StartParts /\ AgreeParts
    BY <1>2, <2>4 DEF PageParts
  <2>5. CASE ReadAccounts
    BY <1>1, <2>1, <2>2, <2>4, <2>5, AccountsParts DEF ReadAccounts
  <2>6. CASE LookAtClock
    BY <1>1, <2>1, <2>2, <2>4, <2>6, ClockParts DEF LookAtClock
  <2>7. ASSUME NEW s \in {"current", "previous", "recent"}, ListNext(s)
        PROVE  StartParts' /\ AgreeParts'
    <3>1. step = s /\ page' = page /\ asOf' = asOf /\ step' = step
      BY <2>7 DEF ListNext, reader
    <3>2. step # "idle" /\ step # "shown"
      BY <3>1
    <3> QED
      BY <1>1, <2>1, <2>2, <2>4, <3>1, <3>2, ListParts DEF ReadingFacts
  <2>8. CASE Current
    BY <1>1, <2>1, <2>2, <2>4, <2>8, CurrentKeepsParts DEF Current, Closing
  <2>9. CASE Previous
    BY <1>1, <2>1, <2>2, <2>4, <2>9, PreviousKeepsParts DEF Previous, Closing
  <2>10. CASE ChartAndRecent
    BY <1>1, <2>1, <2>2, <2>4, <2>10, ChartKeepsParts DEF ChartAndRecent, Closing
  <2> QED
    BY <1>6, <2>3, <2>5, <2>6, <2>7, <2>8, <2>9, <2>10 DEF PageReader
<1>7. CASE ~PageDone
  <2>1. PageParts'
    BY <1>3, <1>6, <1>7 DEF PageParts, PartsSound
  <2> QED
    BY <1>4, <2>1
<1> QED
  BY <1>5, <1>7

\* So it does with what has been heard.
LEMMA PageKeepsHeard ==
  ASSUME Core, PageTypeOK, PageInv, PageReader
  PROVE  HeardSound'
<1>1. /\ ReadingFacts /\ upTo \in Nat /\ Len(rows) \in Nat /\ HeardSound
  BY Facts, BooksShelf DEF Core, PageInv
<1>2. rows' = rows /\ asOf \in Nat
  BY <1>1, PageReaderLeaves DEF PageLeaves, world, ReadingFacts
<1>3. ASSUME NEW s \in {"current", "previous", "recent"}, ListNext(s)
      PROVE  HeardSound'
  BY <1>1, <1>3, ListKeepsHeard DEF ReadingFacts
<1>4. CASE AskPage
  BY <1>1, <1>2, <1>4, QuietHeard DEF AskPage, reader
<1>5. CASE ReadAccounts
  BY <1>1, <1>2, <1>5, QuietHeard DEF ReadAccounts
<1>6. CASE LookAtClock
  BY <1>1, <1>2, <1>6, QuietHeard DEF LookAtClock
<1>7. CASE Current
  <2>1. /\ heard' = {} /\ asOf' = asOf
        /\ step' \in {"previous", "shown", "accounts"}
        /\ (step' = "shown" => upTo' = Len(rows))
        /\ (step' = "previous" => todo' = Owned)
    BY <1>7 DEF Current, Closing
  <2> QED
    BY <1>1, <1>2, <2>1, QuietHeard
<1>8. CASE Previous
  BY <1>1, <1>2, <1>8, QuietHeard DEF Previous, Closing, reader
<1>9. CASE ChartAndRecent
  <2>1. heard' = {} /\ asOf' = asOf /\ step' = "shown" /\ upTo' = Len(rows)
    BY <1>9 DEF ChartAndRecent, Closing
  <2> QED
    BY <1>1, <1>2, <2>1, QuietHeard
<1>10. CASE PageDone
  BY <1>1, <1>2, <1>10, QuietHeard DEF PageDone
<1> QED
  BY <1>3, <1>4, <1>5, <1>6, <1>7, <1>8, <1>9, <1>10 DEF PageReader

\* So it does with all of them.
LEMMA PageKeepsInv ==
  ASSUME Core, PageTypeOK, PageInv, PageReader
  PROVE  PageInv'
<1>1. UNCHANGED world
  BY PageReaderLeaves DEF PageLeaves
<1>2. ClockSound' /\ WealthSound'
  BY <1>1 DEF PageInv, world, store, ClockSound, WealthSound, WealthAfter, NetAmong
<1> QED
  BY <1>2, PageKeepsHeard, PageKeepsPage DEF PageInv

\* Steps of a statement, or none.
LEMMA IdleKeepsInv ==
  ASSUME Core, PageTypeOK, PageInv, UNCHANGED world, UNCHANGED dash,
         step = "idle", asOf' \in {0, asOf, Len(rows)}
  PROVE  PageInv'
<1>1. /\ ReadingFacts /\ upTo \in Nat /\ Len(rows) \in Nat /\ HeardSound
  BY Facts, BooksShelf DEF Core, PageInv
<1>2. ClockSound' /\ WealthSound'
  BY DEF PageInv, world, store, ClockSound, WealthSound, WealthAfter, NetAmong
<1>3. rows' = rows /\ heard' = heard /\ step' = "idle"
  BY DEF world, store, dash
<1>4. HeardSound'
  BY <1>1, <1>3, QuietHeard DEF ReadingFacts
<1>5. PageSound'
  BY <1>3 DEF PageSound
<1> QED
  BY <1>2, <1>4, <1>5 DEF PageInv

(***************************************************************************)
(* Movements that are posted leave what is known of a page true.           *)
(***************************************************************************)

\* What a posted movement leaves alone of a page.
PostedLater ==
  /\ Grows /\ BooksSound /\ BooksSound' /\ Len(rows) \in Nat /\ Len(rows') \in Nat
  /\ page' = page /\ step' = step /\ todo' = todo /\ heard' = heard
  /\ asOf' = asOf /\ upTo' = upTo /\ backend' = backend
  /\ clock \in Nat /\ clock' \in Nat /\ clock <= clock'
  /\ asOf \in Nat /\ upTo \in Nat /\ Horizon \in Nat /\ Horizon' \in Nat
  /\ asOf <= Horizon /\ Horizon <= Len(rows) /\ Horizon <= Horizon'
  /\ Horizon' <= Len(rows')

LEMMA JournalLater ==
  ASSUME Core, PageTypeOK, PageInv, JournalNext, UNCHANGED <<reader, dash>>
  PROVE  PostedLater
<1>1. /\ ReadingFacts /\ upTo \in Nat /\ HeardSound
  BY Facts DEF PageInv
<1>2. BooksSound' /\ Grows
  BY <1>1, JournalKeeps DEF ReadingFacts
<1>3. Len(rows) \in Nat /\ Len(rows') \in Nat
  <2>1. BookShape /\ BookShape'
    BY <1>1, <1>2, BookHasShape, PTL DEF ReadingFacts
  <2> QED
    BY <2>1, JournalAssumption DEF BookShape
<1>4. clock \in Nat /\ clock' \in Nat /\ clock <= clock'
  BY <1>1, JournalKeepsWealth DEF ReadingFacts
<1>5. /\ page' = page /\ step' = step /\ todo' = todo /\ heard' = heard
      /\ asOf' = asOf /\ upTo' = upTo /\ backend' = backend
  BY DEF reader, dash
<1>6. Horizon \in Nat /\ Horizon' \in Nat
  BY <1>1, <1>3, <1>5 DEF Horizon
<1>7. Horizon <= Horizon' /\ Horizon' <= Len(rows')
  BY <1>1, <1>2, <1>3, <1>5, <1>6 DEF HeardSound, Horizon, Grows
<1> QED
  BY <1>1, <1>2, <1>3, <1>4, <1>5, <1>6, <1>7 DEF PostedLater, ReadingFacts, HeardSound

\* Of the rows a page was begun with, everything is as it was.
LEMMA LaterSame ==
  ASSUME PostedLater
  PROVE  /\ \A i \in 1..asOf : /\ stamps'[i] = stamps[i] /\ rows'[i] = rows[i]
                               /\ Listing(i)' = Listing(i)
         /\ \A limit \in Nat : Unfilled(limit)' => Unfilled(limit)
         /\ \A I \in SUBSET (1..Len(rows)) :
              /\ NetAmong(I, Owns)' = NetAmong(I, Owns)
              /\ WealthAfter(I)' = WealthAfter(I)
         /\ \A at : AsRead(at)' = AsRead(at)
<1> USE DEF PostedLater
<1>1. ASSUME NEW i \in 1..asOf
      PROVE  stamps'[i] = stamps[i] /\ rows'[i] = rows[i] /\ Listing(i)' = Listing(i)
  <2>1. i \in 1..Len(rows)
    OBVIOUS
  <2>2. stamps'[i] = stamps[i] /\ rows'[i] = rows[i]
    BY <2>1 DEF Grows
  <2> QED
    BY <2>2 DEF Listing
<1>2. ASSUME NEW limit \in Nat, Unfilled(limit)'
      PROVE  Unfilled(limit)
  <2> SUFFICES ASSUME NEW a \in Owns, Fills(a, limit, Horizon)
               PROVE  FALSE
    BY DEF Unfilled
  <2>1. PICK m, n : m = Horizon /\ n = Horizon'
    OBVIOUS
  <2>2. m \in 0..Len(rows) /\ n \in Nat /\ m <= n
    BY <2>1
  <2>3. Fills(a, limit, n)'
    BY <2>1, <2>2, GrownFills
  <2>4. ~Fills(a, limit, n)'
    BY <1>2, <2>1 DEF Unfilled, Fills
  <2> QED
    BY <2>3, <2>4
<1>3. ASSUME NEW I \in SUBSET (1..Len(rows))
      PROVE  /\ NetAmong(I, Owns)' = NetAmong(I, Owns)
             /\ WealthAfter(I)' = WealthAfter(I)
  BY WealthGrown
<1>4. \A at : AsRead(at)' = AsRead(at)
  BY DEF AsRead
<1> QED
  BY <1>1, <1>2, <1>3, <1>4

\* So each of its parts stays true.
LEMMA LaterNow ==
  ASSUME PostedLater, NowSound
  PROVE  NowSound'
<1>1. PICK c \in 0..clock : page.now = AsRead(c) /\ \A i \in 1..asOf : stamps[i].at <= c
  BY DEF NowSound
<1>2. c \in 0..clock'
  BY DEF PostedLater
<1>3. \A i \in 1..asOf' : stamps'[i].at <= c
  BY <1>1, LaterSame DEF PostedLater
<1>4. page'.now = AsRead(c)'
  BY <1>1, LaterSame DEF PostedLater
<1> QED
  BY <1>2, <1>3, <1>4 DEF NowSound

LEMMA LaterFlow ==
  ASSUME PostedLater, NEW m \in 0..Len(rows), FlowOf(m), NEW n \in Nat, m <= n
  PROVE  FlowOf(n)'
<1> SUFFICES ASSUME Unfilled(StatsLimit)'
             PROVE  FlowOf(n)'
  BY DEF FlowOf
<1>1. Unfilled(StatsLimit)
  BY LaterSame, DashboardAssumption
<1>2. PICK L \in SUBSET ((asOf + 1)..m) :
        NetFlow(page.current) = NetAmong({i \in 1..asOf : InCurrent(i)} \cup L, Owns)
  BY <1>1 DEF FlowOf
<1>3. PICK K : K = {i \in 1..asOf : InCurrent(i)}
  OBVIOUS
<1>4. \A i \in 1..asOf : InCurrent(i)' <=> InCurrent(i)
  BY LaterSame DEF InCurrent, RangeEnd, PostedLater
<1>5. K = {i \in 1..asOf : InCurrent(i)}'
  BY <1>3, <1>4 DEF PostedLater
<1>6. K \cup L \in SUBSET (1..Len(rows))
  <2>1. \A i \in 1..asOf : i \in 1..Len(rows)
    BY DEF PostedLater
  <2>2. \A i \in (asOf + 1)..m : i \in 1..Len(rows)
    BY DEF PostedLater
  <2> QED
    BY <1>3, <2>1, <2>2
<1>7. PICK M : M = K \cup L
  OBVIOUS
<1>8. NetAmong(M, Owns)' = NetAmong(M, Owns)
  BY <1>6, <1>7, LaterSame
<1>9. NetFlow(page.current)' = NetFlow(page.current)
  BY DEF NetFlow, PostedLater
<1>10. NetFlow(page.current)' = NetAmong(K \cup L, Owns)'
  BY <1>2, <1>3, <1>7, <1>8, <1>9
<1>11. L \in SUBSET ((asOf' + 1)..n)
  <2>1. \A i \in (asOf + 1)..m : i \in (asOf + 1)..n
    BY DEF PostedLater
  <2> QED
    BY <2>1 DEF PostedLater
<1> QED
  BY <1>5, <1>10, <1>11 DEF FlowOf

LEMMA LaterStart ==
  ASSUME PostedLater, StartParts
  PROVE  StartParts'
<1>1. Has("now")' = Has("now") /\ Has("total")' = Has("total")
      /\ Has("current")' = Has("current")
  BY DEF Has, PostedLater
<1>2. NowPart'
  BY <1>1, LaterNow DEF StartParts, NowPart
<1>3. FlowPart'
  <2> SUFFICES ASSUME Has("current")
               PROVE  FlowOf(Horizon)'
    BY <1>1 DEF FlowPart
  <2>1. PICK m, n : m = Horizon /\ n = Horizon'
    OBVIOUS
  <2>2. m \in 0..Len(rows) /\ n \in Nat /\ m <= n /\ FlowOf(m)
    BY <2>1 DEF PostedLater, StartParts, FlowPart
  <2>3. FlowOf(n)'
    BY <2>2, LaterFlow
  <2> QED
    BY <2>1, <2>3 DEF FlowOf
<1>4. TotalPart'
  <2> SUFFICES ASSUME Has("total")
               PROVE  TotalPart'
    BY <1>1 DEF TotalPart
  <2>1. PICK m \in asOf..Horizon :
          /\ TotalOf(m) /\ (page.kind = "dashboard" => m = asOf)
          /\ page.kind = "summary" /\ backend = "C" => FlowOf(m)
    BY DEF StartParts, TotalPart
  <2>2. m \in 0..Len(rows) /\ m \in Nat /\ m <= m /\ m \in asOf'..Horizon'
    BY <2>1 DEF PostedLater
  <2>3. TotalOf(m)'
    <3>1. 1..m \in SUBSET (1..Len(rows))
      BY <2>2
    <3>2. PICK I : I = 1..m
      OBVIOUS
    <3>3. WealthAfter(I)' = WealthAfter(I)
      BY <3>1, <3>2, LaterSame
    <3> QED
      BY <2>1, <3>2, <3>3 DEF TotalOf, PostedLater
  <2>4. page.kind = "summary" /\ backend = "C" => FlowOf(m)'
    BY <2>1, <2>2, LaterFlow
  <2> QED
    BY <2>1, <2>2, <2>3, <2>4 DEF TotalPart, PostedLater
<1> QED
  BY <1>2, <1>3, <1>4 DEF StartParts

LEMMA LaterAgree ==
  ASSUME PostedLater, AgreeParts
  PROVE  AgreeParts'
<1>1. Settles' => Settles
  BY DEF Settles, PostedLater
<1>2. /\ Unfilled(StatsLimit)' => Unfilled(StatsLimit)
      /\ Unfilled(RecentLimit)' => Unfilled(RecentLimit)
  BY LaterSame, DashboardAssumption
<1>3. /\ Has("current")' = Has("current") /\ Has("previous")' = Has("previous")
      /\ Has("chart")' = Has("chart") /\ page' = page
  BY DEF Has, PostedLater
<1>4. Settled' = Settled
  <2>1. \A i \in 1..asOf : Listing(i)' = Listing(i) /\ rows'[i] = rows[i]
    BY LaterSame
  <2> QED
    BY <2>1 DEF Settled, PostedLater
<1>5. \A T, month : OfMonth(T, month)' = OfMonth(T, month)
  <2>1. \A T : Read(T)' = Read(T)
    <3>1. ReadsBy /\ ReadsBy'
      BY ReadIsBy, PTL
    <3> QED
      BY <3>1 DEF ReadsBy, PostedLater
  <2> QED
    BY <2>1 DEF OfMonth, OfRange
<1>6. \A T, x, y : SpentUntil(T, x, y)' = SpentUntil(T, x, y)
  BY DEF SpentUntil, InMonth, AsRead, PostedLater
<1>7. PICK S, month, day : /\ S = Settled /\ month = MonthOf(page.now)
                           /\ day = DayOf(page.now)
  OBVIOUS
<1>8. S = Settled' /\ month = MonthOf(page.now)' /\ day = DayOf(page.now)'
  BY <1>3, <1>4, <1>7 DEF MonthOf, DayOf
<1>9. CurrentPart'
  BY <1>1, <1>2, <1>3, <1>5, <1>7, <1>8 DEF AgreeParts, CurrentPart
<1>10. PreviousPart'
  BY <1>1, <1>2, <1>3, <1>5, <1>7, <1>8 DEF AgreeParts, PreviousPart
<1>11. ChartPart'
  BY <1>1, <1>2, <1>3, <1>6, <1>7, <1>8 DEF AgreeParts, ChartPart
<1> QED
  BY <1>9, <1>10, <1>11 DEF AgreeParts

\* Rows that come later need not have been heard.
LEMMA LaterHeard ==
  ASSUME PostedLater, HeardSound
  PROVE  HeardSound'
<1> USE DEF PostedLater
<1>1. \A t \in heard' : \E a \in Owns : Names(t.row, a)
  BY DEF HeardSound
<1>2. ASSUME step' \in {"current", "previous", "recent"},
             NEW a \in Owns \ ToSet(todo'), ~Fills(a, LimitOf(step), Len(rows))',
             NEW i \in 1..asOf, Names(rows'[i], a)
      PROVE  (Listing(i) \in heard)'
  <2>1. LimitOf(step) \in Nat /\ LimitOf(step)' = LimitOf(step)
    BY DashboardAssumption DEF LimitOf
  <2>2. PICK limit, m, n : limit = LimitOf(step) /\ m = Len(rows) /\ n = Len(rows')
    OBVIOUS
  <2>3. limit \in Nat /\ m \in 0..Len(rows) /\ n \in Nat /\ m <= n
    BY <2>1, <2>2 DEF Grows
  <2>4. ~Fills(a, limit, n)'
    BY <1>2, <2>1, <2>2 DEF Fills
  <2>5. ~Fills(a, limit, m)
    BY <2>3, <2>4, GrownFills
  <2>6. Names(rows[i], a) /\ Listing(i)' = Listing(i)
    BY <1>2, LaterSame
  <2>7. a \in Owns \ ToSet(todo)
    BY <1>2
  <2> QED
    BY <1>2, <2>2, <2>5, <2>6, <2>7 DEF HeardSound
<1> QED
  BY <1>1, <1>2 DEF HeardSound

\* So movements that are posted leave all of it true.
LEMMA JournalKeepsInv ==
  ASSUME Core, PageTypeOK, PageInv, JournalNext, UNCHANGED <<reader, dash>>
  PROVE  PageInv'
<1>1. PostedLater
  BY JournalLater
<1>2. ClockSound' /\ WealthSound'
  BY JournalKeepsWealth DEF Core, PageInv
<1>3. HeardSound'
  BY <1>1, LaterHeard DEF PageInv
<1>4. PageParts
  BY PageIs DEF PageInv
<1>5. PageParts'
  <2>1. PartsOK => PartsOK'
    BY <1>1 DEF PartsOK, Has, PostedLater
  <2> QED
    BY <1>1, <1>4, <2>1, LaterStart, LaterAgree DEF PageParts, PostedLater
<1>6. PageSound'
  <2>1. PageSound' <=> PageParts'
    BY PageIs, PTL
  <2> QED
    BY <1>5, <2>1
<1> QED
  BY <1>2, <1>3, <1>6 DEF PageInv

\* Nothing happens.
LEMMA NoneKeepsInv ==
  ASSUME Core, PageTypeOK, PageInv, UNCHANGED world, UNCHANGED dash,
         asOf' = asOf, upTo' = upTo, backend' = backend
  PROVE  PageInv'
<1>1. /\ balance' = balance /\ rows' = rows /\ stamps' = stamps /\ clock' = clock
      /\ dated' = dated /\ page' = page /\ step' = step /\ todo' = todo
      /\ heard' = heard
  BY DEF world, dash
<1>2. ClockSound' /\ WealthSound'
  BY <1>1 DEF PageInv, ClockSound, WealthSound, WealthAfter, NetAmong
<1>3. HeardSound'
  BY <1>1 DEF PageInv, HeardSound, Horizon, Listing, Fills
<1>4. PageSound'
  <2>1. PageParts
    BY PageIs DEF PageInv
  <2>2. PostedLater
    <3>1. /\ ReadingFacts /\ upTo \in Nat /\ HeardSound /\ BooksSound'
      BY Facts, SameWorld DEF PageInv, Core
    <3>2. Len(rows) \in Nat
      BY <3>1, BooksShelf DEF ReadingFacts
    <3> QED
      BY <1>1, <3>1, <3>2 DEF PostedLater, ReadingFacts, HeardSound, Horizon, Grows
  <2>3. PartsOK => PartsOK'
    BY <1>1 DEF PartsOK, Has
  <2>4. PageParts'
    BY <1>1, <2>1, <2>2, <2>3, LaterStart, LaterAgree DEF PageParts
  <2>5. PageSound' <=> PageParts'
    BY PageIs, PTL
  <2> QED
    BY <2>4, <2>5
<1> QED
  BY <1>2, <1>3, <1>4 DEF PageInv

(***************************************************************************)
(* The balance of the first of the month.                                  *)
(***************************************************************************)

\* The rows of two parts net what each part does.
LEMMA NetParts ==
  ASSUME NetShape, NEW I \in SUBSET (1..Len(rows)), NEW J \in SUBSET (1..Len(rows)),
         I \cap J = {}
  PROVE  /\ NetAmong(I, Owns) \in Int /\ NetAmong(J, Owns) \in Int
         /\ NetAmong(I \cup J, Owns) = NetAmong(I, Owns) + NetAmong(J, Owns)
<1>1. PICK K : K = I \cup J
  OBVIOUS
<1>2. K \in SUBSET (1..Len(rows))
  BY <1>1
<1>3. /\ NetAmong(I, Owns) = Came(rows, I) /\ NetAmong(J, Owns) = Came(rows, J)
      /\ NetAmong(K, Owns) = Came(rows, K) /\ rows \in Seq(Row)
  BY <1>2 DEF NetShape
<1>4. Came(rows, I \cup J) = Came(rows, I) + Came(rows, J)
  BY <1>3, CameParts
<1>5. Came(rows, I) \in Int /\ Came(rows, J) \in Int
  BY <1>3, BroughtWeighs
<1> QED
  BY <1>1, <1>3, <1>4, <1>5

LEMMA NetNone ==
  ASSUME NetShape
  PROVE  NetAmong({}, Owns) = 0
<1>1. PICK none : none = {}
  OBVIOUS
<1>2. none \in SUBSET (1..Len(rows))
  BY <1>1
<1>3. NetAmong(none, Owns) = Came(rows, none)
  BY <1>2 DEF NetShape
<1> QED
  BY <1>1, <1>3, CameNone

LEMMA BeganType ==
  Began \in Int
<1>1. Weighs(Opening, Owns)
  BY OwnsAre, PostingAssumption DEF Weighs
<1> QED
  BY <1>1, SumType DEF Began

\* What the customer had before the rows A of the first a, when there are m.
LEMMA WealthBefore ==
  ASSUME NetShape, NEW a \in Nat, NEW m \in Nat, NEW n \in Nat, a <= m,
         m <= n, n <= Len(rows),
         NEW A \in SUBSET (1..a), NEW L \in SUBSET ((a + 1)..n)
  PROVE  /\ WealthAfter(1..m) - NetAmong(A \cup L, Owns)
              = WealthAfter((1..a) \ A) + NetAmong((a + 1)..m, Owns)
                  - NetAmong(L, Owns)
         /\ WealthAfter((1..a) \ A) \in Int /\ NetAmong(L, Owns) \in Int
         /\ NetAmong((a + 1)..m, Owns) \in Int
<1>0. Len(rows) \in Nat /\ Began \in Int
  BY BeganType DEF NetShape
<1>1. PICK B, C, M : B = (1..a) \ A /\ C = (a + 1)..m /\ M = 1..m
  OBVIOUS
<1>2. PICK X : X = 1..a
  OBVIOUS
<1>3. /\ M = X \cup C /\ X = A \cup B /\ X \cap C = {} /\ A \cap B = {} /\ A \cap L = {}
  <2>1. M = X \cup C
    BY <1>1, <1>2
  <2>2. X = A \cup B /\ A \cap B = {}
    BY <1>1, <1>2
  <2>3. X \cap C = {}
    BY <1>1, <1>2
  <2>4. A \cap L = {}
    <3>1. \A i \in L : i \notin 1..a
      OBVIOUS
    <3> QED
      BY <3>1
  <2> QED
    BY <2>1, <2>2, <2>3, <2>4
<1>4. /\ A \in SUBSET (1..Len(rows)) /\ B \in SUBSET (1..Len(rows))
      /\ C \in SUBSET (1..Len(rows)) /\ X \in SUBSET (1..Len(rows))
      /\ L \in SUBSET (1..Len(rows))
  <2>1. \A i \in 1..a : i \in 1..Len(rows)
    BY <1>0
  <2>2. \A i \in (a + 1)..n : i \in 1..Len(rows)
    BY <1>0
  <2>3. \A i \in (a + 1)..m : i \in 1..Len(rows)
    BY <1>0
  <2> QED
    BY <1>1, <1>2, <2>1, <2>2, <2>3
<1>5. /\ NetAmong(X, Owns) \in Int /\ NetAmong(C, Owns) \in Int
      /\ NetAmong(M, Owns) = NetAmong(X, Owns) + NetAmong(C, Owns)
  BY <1>3, <1>4, NetParts
<1>6. /\ NetAmong(A, Owns) \in Int /\ NetAmong(B, Owns) \in Int
      /\ NetAmong(X, Owns) = NetAmong(A, Owns) + NetAmong(B, Owns)
  BY <1>3, <1>4, NetParts
<1>7. /\ NetAmong(L, Owns) \in Int
      /\ NetAmong(A \cup L, Owns) = NetAmong(A, Owns) + NetAmong(L, Owns)
  BY <1>3, <1>4, NetParts
<1>8. WealthAfter(M) = Began + NetAmong(M, Owns)
      /\ WealthAfter(B) = Began + NetAmong(B, Owns)
  BY DEF WealthAfter, Began
<1> QED
  BY <1>0, <1>1, <1>5, <1>6, <1>7, <1>8

\* What is known of a page that is shown.
ShownFacts ==
  /\ NetShape /\ asOf \in Nat /\ upTo \in Nat /\ asOf <= upTo /\ upTo <= Len(rows)
  /\ backend \in {"C", "Rust"} /\ clock \in Nat /\ NowSound
  /\ \A i \in 1..Len(rows) : stamps[i].at \in Nat
  /\ page.kind \in {"dashboard", "summary"}

PageFacts == Core /\ PageTypeOK /\ PageInv

LEMMA ShownIs ==
  ASSUME PageFacts, step = "shown"
  PROVE  /\ ShownFacts /\ Horizon = upTo /\ PartsOK /\ StartParts /\ AgreeParts
         /\ Has("total") /\ Has("now") /\ Has("current")
         /\ page.kind = "dashboard" => Has("previous") /\ Has("chart")
<1>1. ReadingFacts /\ upTo \in Nat
  BY Facts DEF PageFacts
<1>2. PartsOK /\ StartParts /\ AgreeParts
  BY PageIs DEF PageFacts, PageInv, PageParts
<1>3. /\ Has("total") /\ Has("now") /\ Has("current")
      /\ page.kind \in {"dashboard", "summary"}
      /\ page.kind = "dashboard" => Has("previous") /\ Has("chart")
  BY <1>2 DEF PartsOK
<1>4. NowSound
  BY <1>2, <1>3 DEF StartParts, NowPart
<1>5. Horizon = upTo
  BY DEF Horizon
<1>6. NetShape /\ \A i \in 1..Len(rows) : stamps[i].at \in Nat
  BY <1>1, BooksNet, BooksShelf DEF ReadingFacts
<1> QED
  BY <1>1, <1>2, <1>3, <1>4, <1>5, <1>6 DEF ShownFacts, ReadingFacts, HeardSound

\* The rows of the range are those of the month, or all since it began.
LEMMA RangeIs ==
  ASSUME ShownFacts, NEW A, A = {i \in 1..asOf : InCurrent(i)},
         NEW month, month = MonthOf(page.now)
  PROVE  /\ page.kind = "dashboard" => A = During(month, asOf)
         /\ page.kind = "summary" => (1..asOf) \ A = Before(month, asOf)
<1>1. month \in Int
  BY NowIs DEF ShownFacts
<1>2. PICK c \in 0..clock : page.now = AsRead(c) /\ \A i \in 1..asOf : stamps[i].at <= c
  BY DEF ShownFacts, NowSound
<1>3. c \in Nat
  BY <1>2 DEF ShownFacts
<1>4. ASSUME NEW i \in 1..asOf
      PROVE  /\ page.kind = "dashboard" =>
                  (InCurrent(i) <=> /\ MonthOf(stamps[i].at) = month
                                    /\ ~Lost(backend, stamps[i].at, TicksPerMonth))
             /\ page.kind = "summary" =>
                  (InCurrent(i) <=> ~(MonthOf(stamps[i].at) < month))
  <2>1. i \in 1..Len(rows)
    BY DEF ShownFacts, NetShape
  <2>2. PICK at : at = stamps[i].at
    OBVIOUS
  <2>3. at \in Nat /\ at <= c
    BY <1>2, <2>1, <2>2 DEF ShownFacts
  <2>4. /\ AsRead(at) \in Int /\ MonthOf(at) \in Nat
        /\ AsRead(at) >= MonthStart(month) <=> MonthOf(at) >= month
        /\ AsRead(at) <= MonthEnd(month)
             <=> /\ MonthOf(at) <= month
                 /\ ~(MonthOf(at) = month /\ Lost(backend, at, TicksPerMonth))
    BY <1>1, <2>3, MonthsAre DEF ShownFacts
  <2>5. AsRead(at) <= page.now
    BY <1>2, <1>3, <2>3, AsReadKeeps
  <2>6. CASE page.kind = "dashboard"
    <3>1. InCurrent(i) <=> /\ AsRead(at) >= MonthStart(month)
                           /\ AsRead(at) <= MonthEnd(month)
      BY <2>2, <2>6 DEF InCurrent, RangeEnd
    <3> QED
      BY <1>1, <2>2, <2>4, <2>6, <3>1
  <2>7. CASE page.kind = "summary"
    <3>1. InCurrent(i) <=> AsRead(at) >= MonthStart(month)
      BY <2>2, <2>5, <2>7 DEF InCurrent, RangeEnd
    <3> QED
      BY <1>1, <2>2, <2>4, <2>7, <3>1
  <2> QED
    BY <2>6, <2>7 DEF ShownFacts
<1>5. page.kind = "dashboard" => A = During(month, asOf)
  BY <1>4 DEF During
<1>6. page.kind = "summary" => (1..asOf) \ A = Before(month, asOf)
  BY <1>4 DEF Before
<1> QED
  BY <1>5, <1>6

\* The balances less the net flow of the month are those before the month.
LEMMA StartFollows == PageFacts => StartExplained
<1> DEFINE month == MonthOf(page.now)
           start == page.total - NetFlow(page.current)
           late == (asOf + 1)..upTo
<1> SUFFICES ASSUME PageFacts, step = "shown", Whole(StatsLimit)
             PROVE  IF page.kind = "dashboard"
                    THEN \E I \in SUBSET late :
                           start = WealthAfter((1..asOf) \ During(month, asOf))
                                     - NetAmong(I, Owns)
                    ELSE \E I \in SUBSET late,
                            J \in IF backend = "Rust" THEN SUBSET late ELSE {{}} :
                           start = WealthAfter(Before(month, asOf))
                                     + NetAmong(I, Owns) - NetAmong(J, Owns)
  BY DEF StartExplained, Shown
<1>1. /\ ShownFacts /\ Horizon = upTo /\ StartParts /\ Has("total") /\ Has("current")
  BY ShownIs
<1>2. /\ NetShape /\ asOf \in Nat /\ upTo \in Nat /\ asOf <= upTo
      /\ upTo <= Len(rows)
  BY <1>1 DEF ShownFacts
<1>3. Unfilled(StatsLimit)
  BY <1>1 DEF Whole, Unfilled
<1>4. PICK A : A = {i \in 1..asOf : InCurrent(i)}
  OBVIOUS
<1>5. PICK m \in asOf..upTo :
        /\ page.total = WealthAfter(1..m) /\ (page.kind = "dashboard" => m = asOf)
        /\ page.kind = "summary" /\ backend = "C" => FlowOf(m)
  BY <1>1 DEF StartParts, TotalPart, TotalOf
<1>6. \E L \in SUBSET late : NetFlow(page.current) = NetAmong(A \cup L, Owns)
  BY <1>1, <1>3, <1>4 DEF StartParts, FlowPart, FlowOf
<1>7. A \in SUBSET (1..asOf) /\ m \in Nat /\ asOf <= m /\ m <= upTo
  BY <1>2, <1>4, <1>5
<1>8. ASSUME NEW L \in SUBSET late, NetFlow(page.current) = NetAmong(A \cup L, Owns)
      PROVE  /\ start = WealthAfter((1..asOf) \ A) + NetAmong((asOf + 1)..m, Owns)
                          - NetAmong(L, Owns)
             /\ WealthAfter((1..asOf) \ A) \in Int /\ NetAmong(L, Owns) \in Int
             /\ NetAmong((asOf + 1)..m, Owns) \in Int
  <2>1. PICK a, n : a = asOf /\ n = upTo
    OBVIOUS
  <2>2. /\ a \in Nat /\ n \in Nat /\ a <= m /\ m <= n /\ n <= Len(rows)
        /\ A \in SUBSET (1..a) /\ L \in SUBSET ((a + 1)..n)
    BY <1>2, <1>7, <2>1
  <2>3. /\ WealthAfter(1..m) - NetAmong(A \cup L, Owns)
             = WealthAfter((1..a) \ A) + NetAmong((a + 1)..m, Owns)
                 - NetAmong(L, Owns)
        /\ WealthAfter((1..a) \ A) \in Int /\ NetAmong(L, Owns) \in Int
        /\ NetAmong((a + 1)..m, Owns) \in Int
    BY <1>2, <1>7, <2>2, WealthBefore
  <2> QED
    BY <1>5, <1>8, <2>1, <2>3
<1>9. (asOf + 1)..m \in SUBSET late
  BY <1>2, <1>7
<1>10. CASE page.kind = "dashboard"
  <2>1. A = During(month, asOf)
    BY <1>1, <1>4, <1>10, RangeIs
  <2>2. PICK L \in SUBSET late : NetFlow(page.current) = NetAmong(A \cup L, Owns)
    BY <1>6
  <2>3. NetAmong((asOf + 1)..m, Owns) = 0
    <3>1. (asOf + 1)..m = {}
      BY <1>2, <1>5, <1>10
    <3> QED
      BY <1>2, <3>1, NetNone
  <2>4. start = WealthAfter((1..asOf) \ A) - NetAmong(L, Owns)
    <3>1. PICK x, y, z : /\ x = WealthAfter((1..asOf) \ A) /\ y = NetAmong(L, Owns)
                         /\ z = NetAmong((asOf + 1)..m, Owns)
      OBVIOUS
    <3>2. start = x + z - y /\ x \in Int /\ y \in Int /\ z = 0
      BY <1>8, <2>2, <2>3, <3>1
    <3> HIDE DEF start
    <3> QED
      BY <3>1, <3>2
  <2> QED
    BY <1>10, <2>1, <2>4
<1>11. CASE page.kind = "summary" /\ backend = "Rust"
  <2>1. (1..asOf) \ A = Before(month, asOf)
    BY <1>1, <1>4, <1>11, RangeIs
  <2>2. PICK L \in SUBSET late : NetFlow(page.current) = NetAmong(A \cup L, Owns)
    BY <1>6
  <2>3. PICK I : I = (asOf + 1)..m
    OBVIOUS
  <2>4. I \in SUBSET late /\ start = WealthAfter(Before(month, asOf))
                                       + NetAmong(I, Owns) - NetAmong(L, Owns)
    BY <1>8, <1>9, <2>1, <2>2, <2>3
  <2> QED
    BY <1>11, <2>4
<1>12. CASE page.kind = "summary" /\ backend = "C"
  <2>1. (1..asOf) \ A = Before(month, asOf)
    BY <1>1, <1>4, <1>12, RangeIs
  <2>2. PICK L \in SUBSET ((asOf + 1)..m) :
          NetFlow(page.current) = NetAmong(A \cup L, Owns)
    BY <1>3, <1>4, <1>5, <1>12 DEF FlowOf
  <2>3. L \in SUBSET late
    BY <1>9, <2>2
  <2>4. PICK C, I, none : C = (asOf + 1)..m /\ I = C \ L /\ none = {}
    OBVIOUS
  <2>5. /\ C \in SUBSET (1..Len(rows)) /\ C = I \cup L /\ I \cap L = {}
        /\ I \in SUBSET late
    <3>1. \A i \in late : i \in 1..Len(rows)
      BY <1>2 DEF NetShape
    <3> QED
      BY <1>9, <2>2, <2>4, <3>1
  <2>6. /\ NetAmong(I, Owns) \in Int /\ NetAmong(L, Owns) \in Int
        /\ NetAmong(C, Owns) = NetAmong(I, Owns) + NetAmong(L, Owns)
    <3>1. I \in SUBSET (1..Len(rows)) /\ L \in SUBSET (1..Len(rows))
      BY <2>5
    <3> QED
      BY <1>2, <2>5, <3>1, NetParts
  <2>7. NetAmong(none, Owns) = 0
    BY <1>2, <2>4, NetNone
  <2>8. start = WealthAfter(Before(month, asOf)) + NetAmong(I, Owns)
                  - NetAmong(none, Owns)
    <3>1. /\ start = WealthAfter(Before(month, asOf)) + NetAmong(C, Owns)
                       - NetAmong(L, Owns)
          /\ WealthAfter(Before(month, asOf)) \in Int
      BY <1>8, <2>1, <2>2, <2>3, <2>4
    <3> HIDE DEF start, month
    <3> QED
      BY <2>6, <2>7, <3>1
  <2>9. none \in {{}}
    BY <2>4
  <2> HIDE DEF start, month, late
  <2> QED
    BY <1>12, <2>5, <2>8, <2>9
<1> QED
  BY <1>1, <1>10, <1>11, <1>12 DEF ShownFacts

(***************************************************************************)
(* A page agrees with the books.                                           *)
(***************************************************************************)

\* The values of rows, however their sum is written.
LEMMA RowsSum ==
  ASSUME NetShape, NEW S \in SUBSET (1..Len(rows))
  PROVE  SumFunction([i \in S |-> rows[i].value]) = SumFunctionOnSet(Values(rows), S)
<1> DEFINE w == [i \in S |-> rows[i].value]
<1>1. SumFunction(w) = SumFunctionOnSet(w, S)
  BY DEF SumFunction
<1>2. \A i \in S : w[i] = rows[i].value /\ w[i] = Values(rows)[i]
  BY DEF Values
<1>3. \A i \in S : rows[i].value \in Int
  <2> SUFFICES ASSUME NEW i \in S
               PROVE  rows[i].value \in Int
    OBVIOUS
  <2>1. rows[i] \in Row
    BY DEF NetShape
  <2> QED
    BY <2>1, BringsType
<1>4. IsFiniteSet(S)
  <2>1. IsFiniteSet(1..Len(rows))
    BY FS_Interval DEF NetShape
  <2> QED
    BY <2>1, FS_Subset
<1> HIDE DEF w
<1>5. PICK v : v = Values(rows)
  OBVIOUS
<1>6. Weighs(w, S) /\ Alike(v, w, S)
  BY <1>2, <1>3, <1>4, <1>5 DEF Weighs, Alike
<1>7. SumFunctionOnSet(v, S) = SumFunctionOnSet(w, S)
  BY <1>6, SumAlike
<1> QED
  BY <1>1, <1>5, <1>7 DEF w

\* The rows of the customer.
OwnRows == {j \in 1..asOf : \E a \in Owns : Names(rows[j], a)}

SpentRows(m) == {j \in During(m, upTo) : Spends(Entered(j))}

\* The rows heard that were spent in a month are those of the books.
LEMMA SpentRowsAre ==
  ASSUME ShownFacts, asOf = upTo, NEW m \in Int
  PROVE  /\ {i \in OwnRows : InRange(i, MonthStart(m), MonthEnd(m))
                             /\ rows[i].kind \in Spendings} = SpentRows(m)
         /\ {i \in OwnRows : /\ InRange(i, MonthStart(m), MonthEnd(m))
                             /\ Spends(Listing(i))
                             /\ DayOf(AsRead(stamps[i].at)) <= DayOf(page.now)}
              = SpentRows(m)
<1> DEFINE A == {i \in OwnRows : InRange(i, MonthStart(m), MonthEnd(m))
                                 /\ rows[i].kind \in Spendings}
           B == {i \in OwnRows : /\ InRange(i, MonthStart(m), MonthEnd(m))
                                 /\ Spends(Listing(i))
                                 /\ DayOf(AsRead(stamps[i].at)) <= DayOf(page.now)}
<1>1. PICK c \in 0..clock : page.now = AsRead(c) /\ \A i \in 1..asOf : stamps[i].at <= c
  BY DEF ShownFacts, NowSound
<1>2. c \in Nat
  BY <1>1 DEF ShownFacts
<1>3. ASSUME NEW i \in 1..asOf
      PROVE  /\ i \in A <=> i \in SpentRows(m)
             /\ i \in B <=> i \in SpentRows(m)
  <2>1. i \in 1..Len(rows) /\ i \in 1..upTo
    BY DEF ShownFacts, NetShape
  <2>2. PICK at, r : at = stamps[i].at /\ r = rows[i]
    OBVIOUS
  <2>3. at \in Nat /\ at <= c /\ r \in Row
    BY <1>1, <2>1, <2>2 DEF ShownFacts, NetShape
  <2>4. InRange(i, MonthStart(m), MonthEnd(m))
          <=> MonthOf(at) = m /\ ~Lost(backend, at, TicksPerMonth)
    <3>1. /\ AsRead(at) \in Int /\ MonthOf(at) \in Nat
          /\ AsRead(at) >= MonthStart(m) <=> MonthOf(at) >= m
          /\ AsRead(at) <= MonthEnd(m)
               <=> /\ MonthOf(at) <= m
                   /\ ~(MonthOf(at) = m /\ Lost(backend, at, TicksPerMonth))
      BY <2>3, MonthsAre DEF ShownFacts
    <3> QED
      BY <2>2, <3>1 DEF InRange
  <2>5. DayOf(AsRead(at)) <= DayOf(page.now)
    <3>1. AsRead(at) \in Nat /\ AsRead(c) \in Nat
      BY <1>2, <2>3, MomentIs DEF ShownFacts
    <3>2. AsRead(at) <= AsRead(c)
      BY <1>2, <2>3, AsReadKeeps
    <3> QED
      BY <1>1, <3>1, <3>2, DaysOrder
  <2>6. i \in During(m, upTo)
          <=> MonthOf(at) = m /\ ~Lost(backend, at, TicksPerMonth)
    BY <2>1, <2>2 DEF During
  <2>7. (Spends(Listing(i)) <=> r.kind \in Spendings /\ r.from \in Owns)
        /\ (Spends(Entered(i)) <=> r.kind \in Spendings /\ r.from \in Owns)
    BY <2>2 DEF Spends, Listing, Entered, Spendings
  <2>8. i \in OwnRows <=> r.from \in Owns \/ r.to \in Owns
    BY <2>2 DEF OwnRows, Names
  <2>9. r.kind \in Spendings => r.to \notin Owns
    BY <2>3, OwnsAre DEF Row, BankMeets, Spendings
  <2>10. i \in A <=> /\ i \in OwnRows /\ InRange(i, MonthStart(m), MonthEnd(m))
                     /\ r.kind \in Spendings
    BY <2>2
  <2>11. i \in B <=> /\ i \in OwnRows /\ InRange(i, MonthStart(m), MonthEnd(m))
                     /\ Spends(Listing(i)) /\ DayOf(AsRead(at)) <= DayOf(page.now)
    BY <2>2
  <2>12. i \in SpentRows(m) <=> i \in During(m, upTo) /\ Spends(Entered(i))
    BY DEF SpentRows
  <2> HIDE DEF A, B
  <2> QED
    BY <2>4, <2>5, <2>6, <2>7, <2>8, <2>9, <2>10, <2>11, <2>12
<1>4. OwnRows \subseteq 1..asOf /\ SpentRows(m) \subseteq 1..asOf
  BY DEF OwnRows, SpentRows, During
<1>5. A \subseteq 1..asOf /\ B \subseteq 1..asOf
  BY <1>4
<1> HIDE DEF A, B
<1>6. A = SpentRows(m) /\ B = SpentRows(m)
  BY <1>3, <1>4, <1>5
<1> QED
  BY <1>6 DEF A, B

\* So the chart, the figures and the books come to the same.
LEMMA PageFollows == PageFacts => PageAgrees
<1> DEFINE month == MonthOf(page.now)
           Spent(m) == SumFunction([i \in SpentRows(m) |-> rows[i].value])
           Spending(figures) == OfKinds(figures, Spendings)
<1> SUFFICES ASSUME PageFacts, step = "shown", page.kind = "dashboard", asOf = upTo,
                    Whole(RecentLimit), Whole(StatsLimit)
             PROVE  /\ page.chart[DayOf(page.now)] = Spending(page.current)
                    /\ Spending(page.current) = Spent(month)
                    /\ Spending(page.previous) = Spent(month - 1)
  BY DEF PageAgrees, Shown, SpentRows, Spendings
<1>1. /\ ShownFacts /\ Horizon = upTo /\ AgreeParts /\ Has("now") /\ Has("current")
      /\ Has("previous") /\ Has("chart") /\ Settles
  BY ShownIs DEF Settles
<1>2. Unfilled(StatsLimit) /\ Unfilled(RecentLimit)
  BY <1>1 DEF Whole, Unfilled
<1>3. /\ page.current = OfMonth(Settled, month)
      /\ page.previous = OfMonth(Settled, month - 1)
      /\ page.chart[DayOf(page.now)] = SpentUntil(Settled, month, DayOf(page.now))
  BY <1>1, <1>2 DEF AgreeParts, CurrentPart, PreviousPart, ChartPart
<1>4. PICK W, x : W = OwnRows /\ x = month
  OBVIOUS
<1>5. /\ BooksSound /\ NetShape /\ W \in SUBSET (1..Len(rows)) /\ Settled = Listings(W)
  <2>1. BooksSound /\ NetShape
    BY <1>1 DEF PageFacts, Core, ShownFacts
  <2>2. \A i \in 1..asOf : i \in 1..Len(rows)
    BY <1>1 DEF ShownFacts, NetShape
  <2> QED
    BY <1>4, <2>1, <2>2 DEF OwnRows, Settled, Listings
<1>6. x \in Int /\ x - 1 \in Int
  BY <1>1, <1>4, NowIs DEF ShownFacts
<1>7. ASSUME NEW m \in Int
      PROVE  /\ Spending(OfMonth(Settled, m)) = Spent(m)
             /\ SpentUntil(Settled, m, DayOf(page.now)) = Spent(m)
  <2>1. SpentRows(m) \in SUBSET (1..Len(rows))
    BY <1>1 DEF SpentRows, During, ShownFacts, NetShape
  <2>2. Spent(m) = SumFunctionOnSet(Values(rows), SpentRows(m))
    BY <1>5, <2>1, RowsSum
  <2>3. PICK from \in Int, to \in Int : from = MonthStart(m) /\ to = MonthEnd(m)
    <3>1. 0 \in Nat
      OBVIOUS
    <3> QED
      BY <1>1, <3>1, MonthsAre DEF ShownFacts
  <2>4. OfKinds(OfRange(Listings(W), from, to), Spendings)
          = SumFunctionOnSet(Values(rows), {i \in W : InRange(i, from, to)
                                              /\ rows[i].kind \in Spendings})
    BY <1>5, SpendingOfRange
  <2>5. SpentUntil(Listings(W), m, DayOf(page.now))
          = SumFunctionOnSet(Values(rows),
              {i \in W : /\ InRange(i, MonthStart(m), MonthEnd(m))
                         /\ Spends(Listing(i))
                         /\ DayOf(AsRead(stamps[i].at)) <= DayOf(page.now)})
    BY <1>5, SpentIs
  <2>6. /\ {i \in W : InRange(i, from, to) /\ rows[i].kind \in Spendings}
             = SpentRows(m)
        /\ {i \in W : /\ InRange(i, MonthStart(m), MonthEnd(m))
                      /\ Spends(Listing(i))
                      /\ DayOf(AsRead(stamps[i].at)) <= DayOf(page.now)}
             = SpentRows(m)
    BY <1>1, <1>4, <2>3, SpentRowsAre
  <2>7. OfMonth(Settled, m) = OfRange(Listings(W), from, to)
    BY <1>5, <2>3 DEF OfMonth
  <2>8. Spending(OfMonth(Settled, m)) = Spent(m)
    BY <2>2, <2>4, <2>6, <2>7
  <2>9. SpentUntil(Settled, m, DayOf(page.now)) = Spent(m)
    BY <1>5, <2>2, <2>5, <2>6
  <2> QED
    BY <2>8, <2>9
<1> HIDE DEF Spent, Spending, month
<1>8. Spending(OfMonth(Settled, x)) = Spent(x)
      /\ SpentUntil(Settled, x, DayOf(page.now)) = Spent(x)
      /\ Spending(OfMonth(Settled, x - 1)) = Spent(x - 1)
  BY <1>6, <1>7
<1> QED
  BY <1>3, <1>4, <1>8

\* In the beginning there is no page.
LEMMA InitPage == DashboardInit => PageInv
<1> SUFFICES ASSUME DashboardInit
             PROVE  PageInv
  OBVIOUS
<1>1. /\ rows = <<>> /\ asOf = 0 /\ step = "idle" /\ heard = {} /\ Len(rows) = 0
      /\ balance = Opening /\ dated = [w \in Writers |-> Undated]
  BY DEF DashboardInit, StatementInit, JournalInit, Init
<1>2. BooksSound
  BY InitCore DEF Core
<1>3. ClockSound
  BY <1>1 DEF ClockSound
<1>4. WealthSound
  <2>1. NetShape /\ 1..Len(rows) = {}
    BY <1>1, <1>2, BooksNet
  <2>2. NetAmong(1..Len(rows), Owns) = 0
    BY <2>1, NetNone
  <2>3. WealthAfter(1..Len(rows)) = Began
    BY <2>2, BeganType DEF WealthAfter, Began
  <2> QED
    BY <1>1, <2>3 DEF WealthSound, Began
<1>5. HeardSound
  BY <1>1 DEF HeardSound, Horizon
<1> QED
  BY <1>1, <1>3, <1>4, <1>5 DEF PageInv, PageSound

(***************************************************************************)
(* All steps.                                                              *)
(***************************************************************************)

\* What every state has.
ReadingInv == Core /\ PageTypeOK /\ OneReader /\ RecentInv /\ PageInv

LEMMA ReadingInit == DashboardInit => ReadingInv
<1> SUFFICES ASSUME DashboardInit
             PROVE  ReadingInv
  OBVIOUS
<1>1. Core
  BY InitCore
<1>2. PageTypeOK
  <2>1. Len(Owned) \in 0..Len(Owned)
    BY DashboardAssumption
  <2>2. \E i \in 0..Len(Owned) : <<>> = SubSeq(Owned, i + 1, Len(Owned))
    BY <2>1, TodoIs
  <2>3. "kind" \in DOMAIN NoPage /\ NoPage.kind = Absent
    BY DEF NoPage
  <2> QED
    BY <2>2, <2>3 DEF DashboardInit, PageTypeOK
<1>3. OneReader
  BY DEF DashboardInit, OneReader
<1>4. RecentInv
  <2>1. rows = <<>> /\ asOf = 0 /\ step = "idle" /\ Len(<<>>) = 0
    BY DEF DashboardInit, StatementInit, JournalInit, Init
  <2> QED
    BY <2>1 DEF RecentInv, RecentSound, RecentActivity, Shown
<1> QED
  BY <1>1, <1>2, <1>3, <1>4, InitPage DEF ReadingInv

LEMMA ReadingStep == ReadingInv /\ [ReadingNext]_dvars => ReadingInv'
<1> SUFFICES ASSUME ReadingInv, [ReadingNext]_dvars
             PROVE  ReadingInv'
  OBVIOUS
<1> USE DEF ReadingInv
<1>1. CASE PageReader
  BY <1>1, PageKeepsCore, PageKeepsRecent, PageKeepsInv
<1>2. CASE step = "idle" /\ StatementReader /\ UNCHANGED dash
  <2>1. Core'
    BY <1>2, ReaderKeepsCore
  <2>2. OneReader'
    BY <1>2 DEF OneReader, dash
  <2>3. Books' = Books
    <3>1. UNCHANGED world
      BY <1>2 DEF StatementReader, Ask, ReadBalance, ReadRows, ReadDone
    <3> QED
      BY <3>1 DEF Books, Listing, world
  <2>4. PageTypeOK'
    BY <1>2, <2>3 DEF PageTypeOK, dash
  <2>5. RecentInv'
    BY <1>2, ReaderKeepsRecent
  <2>6. PageInv'
    <3>1. UNCHANGED world /\ asOf' \in {0, asOf, Len(rows)}
      BY <1>2 DEF StatementReader, Ask, ReadBalance, ReadRows, ReadDone
    <3> QED
      BY <1>2, <3>1, IdleKeepsInv
  <2> QED
    BY <2>1, <2>2, <2>4, <2>5, <2>6
<1>3. CASE JournalNext /\ UNCHANGED <<reader, dash>>
  <2>1. Core'
    BY <1>3, JournalKeepsCore
  <2>2. PageTypeOK'
    BY <1>3, WorldKeepsPage
  <2>3. OneReader'
    BY <1>3 DEF OneReader, reader, dash
  <2>4. RecentInv'
    BY <1>3, WorldKeepsRecent
  <2>5. PageInv'
    BY <1>3, JournalKeepsInv
  <2> QED
    BY <2>1, <2>2, <2>3, <2>4, <2>5
<1>4. CASE UNCHANGED dvars
  <2>1. /\ UNCHANGED world /\ rows' = rows /\ stamps' = stamps
        /\ pc' = pc /\ query' = query /\ seen' = seen /\ result' = result
        /\ asOf' = asOf /\ upTo' = upTo /\ backend' = backend
        /\ page' = page /\ step' = step /\ todo' = todo /\ heard' = heard
    BY <1>4 DEF dvars, world
  <2>2. BooksSound' /\ JournalTypeOK' /\ Book' = Book
    BY <2>1, SameWorld DEF Core
  <2>3. StatementTypeOK' /\ ReaderSound'
    BY <2>1, <2>2 DEF Core, StatementTypeOK, ReaderSound
  <2>4. Explained' /\ Paged'
    BY <2>1, <2>2 DEF Core, Explained, Paged, Answered
  <2>5. PageTypeOK' /\ OneReader'
    BY <2>1 DEF PageTypeOK, OneReader, Books, Listing
  <2>6. RecentInv'
    BY <2>1 DEF RecentInv, RecentSound, RecentActivity, Accounted, Shown, AsRead
  <2>7. PageInv'
    BY <2>1, NoneKeepsInv DEF dash
  <2> QED
    BY <2>2, <2>3, <2>4, <2>5, <2>6, <2>7 DEF Core
<1> QED
  BY <1>1, <1>2, <1>3, <1>4 DEF ReadingNext

\* While movements are posted, the books explain the balances, a statement knows
\* what the rows had come to at its first SELECT, and a page has heard only what
\* is in the books.
THEOREM InductiveHolds == ReadingSpec => []Inductive
<1>1. ReadingInv => Inductive
  BY CoreHolds
     DEF ReadingInv, Inductive, DashboardTypeOK, PageTypeOK, Core, RecentInv,
         PageInv
<1> QED
  BY <1>1, ReadingInit, ReadingStep, PTL DEF ReadingSpec

\* No page is longer than its total, and no list of a page has a row that is
\* not in the books (dashboard_service.c).
THEOREM TypeCorrect == ReadingSpec => []DashboardTypeOK
<1>1. Inductive => DashboardTypeOK
  BY DEF Inductive
<1> QED
  BY <1>1, InductiveHolds, PTL

\* Every balance of a statement, and its bounds, is the one the account had
\* after that movement in the order of dates, less what was posted between its
\* two SELECTs (transaction_service.c:664).
THEOREM ExplainedHolds == ReadingSpec => []Explained
<1>1. Inductive => Explained
  BY DEF Inductive, StatementInductive
<1> QED
  BY <1>1, InductiveHolds, PTL

\* A page of a statement holds the rows of the ranks asked for, each once, in
\* the order asked for: the pages of one state of the books make up the whole.
THEOREM PagedHolds == ReadingSpec => []Paged
<1>1. Inductive => Paged
  BY DEF Inductive, StatementInductive
<1> QED
  BY <1>1, InductiveHolds, PTL

\* `from` and `to` name whole days, the last included up to its last instant, in
\* the C service (transaction_service.c:722).
THEOREM WholeDaysHolds == ReadingSpec => []WholeDaysInC
<1>1. Inductive => WholeDaysInC
  BY DEF Inductive, StatementInductive, WholeDaysInC, WholeDays, DaysCounted, Cut, Lost
<1> QED
  BY <1>1, InductiveHolds, PTL

\* In both services they do but for what was recorded after the first instant of
\* the last second, which the Rust service leaves out (transaction.rs:391).
THEOREM DaysCountedHolds == ReadingSpec => []DaysCounted
<1>1. Inductive => DaysCounted
  BY DEF Inductive, StatementInductive
<1> QED
  BY <1>1, InductiveHolds, PTL

\* The recent activity of a dashboard is in order, shows nothing twice, and
\* leaves out no movement there was when the dashboard was begun that is of a
\* later second than one it shows (dashboard_service.c:125).
THEOREM RecentActivityHolds == ReadingSpec => []RecentActivity
<1>1. Inductive => RecentActivity
  BY DEF Inductive
<1> QED
  BY <1>1, InductiveHolds, PTL

\* The balance of today less the net flow of the month is the balance the
\* customer had on the first of the month, but for movements posted while the
\* page was put together, each of which counts as a whole or not at all
\* (dashboard_service.c:368).
THEOREM StartExplainedHolds == ReadingSpec => []StartExplained
<1>1. ReadingInv => StartExplained
  BY StartFollows DEF ReadingInv, PageFacts
<1> QED
  BY <1>1, ReadingInit, ReadingStep, PTL DEF ReadingSpec

\* When nothing is posted meanwhile, and no list is longer than what is read of
\* it, a dashboard agrees with the books and with itself: its chart ends at the
\* spending of the month, and the spending of both months is what their rows
\* come to (dashboard_service.c:125).
THEOREM PageAgreesHolds == ReadingSpec => []PageAgrees
<1>1. ReadingInv => PageAgrees
  BY PageFollows DEF ReadingInv, PageFacts
<1> QED
  BY <1>1, ReadingInit, ReadingStep, PTL DEF ReadingSpec
=============================================================================
