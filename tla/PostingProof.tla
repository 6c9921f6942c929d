----------------------------- MODULE PostingProof -----------------------------
(****************************************************************************)
(* What the vocabulary of Posting comes to, for every sequence of rows: the *)
(* net of an account is a sum that one more row adds its delta to, and one  *)
(* more row posted to a balance moves it by that same delta.                *)
(*                                                                          *)
(* NetOf is recursive, so this takes induction.  No prover here can         *)
(* instantiate an induction theorem that takes a predicate; what they can   *)
(* use is one about the SET of the numbers the claim holds of.              *)
(****************************************************************************)
EXTENDS Posting, Functions, FiniteSets, FiniteSetTheorems, NaturalsInduction, WellFoundedInduction, TLAPS

\* A set of numbers has a least one.
LEMMA LeastNumber ==
  ASSUME NEW T \in SUBSET Nat, T # {}
  PROVE  \E x \in T : \A y \in T : x <= y
<1>1. IsWellFoundedOn(OpToRel(<, Nat), Nat)
  BY ONLY NatLessThanWellFounded, Zenon
<1>2. PICK x \in T : \A y \in T : ~ (<<y, x>> \in OpToRel(<, Nat))
  BY <1>1, WFMin, Zenon
<1>3. \A y \in T : ~ (y < x)
  BY <1>2 DEF OpToRel
<1> QED
  BY <1>3

\* Induction: a set of numbers that holds zero, and with every number the
\* next one, holds them all.
LEMMA AllNumbers ==
  ASSUME NEW S \in SUBSET Nat, 0 \in S, \A n \in S : n + 1 \in S
  PROVE  S = Nat
<1> SUFFICES ASSUME Nat \ S # {} PROVE FALSE
  OBVIOUS
<1>1. PICK x \in Nat \ S : \A y \in Nat \ S : x <= y
  BY LeastNumber
<1>2. x - 1 \in Nat /\ x - 1 \in S
  BY <1>1
<1> QED
  BY <1>1, <1>2

-----------------------------------------------------------------------------
\* f[n] is the sum of the first n numbers of d, for every n up to k.
IsSum(f, d, k) ==
  f = [n \in 0..k |-> IF n = 0 THEN 0 ELSE f[n - 1] + d[n]]

\* The same, of a function whose domain may be larger.
SumsTo(f, d, k) == f[0] = 0 /\ \A n \in 1..k : f[n] = f[n - 1] + d[n]

Agree(d, e, k) == \A n \in 1..k : d[n] = e[n]

\* There are such sums.
LEMMA SumExists ==
  ASSUME NEW N \in Nat, NEW d, \A n \in 1..N : d[n] \in Int
  PROVE  \E f \in [0..N -> Int] : IsSum(f, d, N)
<1> DEFINE S == {k \in Nat : k <= N => \E f \in [0..k -> Int] : IsSum(f, d, k)}
<1>1. 0 \in S
  <2>1. [n \in 0..0 |-> 0] \in [0..0 -> Int] /\ IsSum([n \in 0..0 |-> 0], d, 0)
    BY DEF IsSum
  <2> QED
    BY <2>1
<1>2. ASSUME NEW k \in S PROVE k + 1 \in S
  <2> SUFFICES ASSUME k + 1 <= N
               PROVE  \E g \in [0..(k + 1) -> Int] : IsSum(g, d, k + 1)
    OBVIOUS
  <2>1. PICK f \in [0..k -> Int] : IsSum(f, d, k)
    OBVIOUS
  <2> DEFINE g == [n \in 0..(k + 1) |->
                     IF n = k + 1 THEN f[k] + d[n] ELSE f[n]]
  <2>2. g \in [0..(k + 1) -> Int]
    BY <2>1
  <2>3. ASSUME NEW n \in 0..(k + 1)
        PROVE  g[n] = IF n = 0 THEN 0 ELSE g[n - 1] + d[n]
    BY <2>1 DEF IsSum
  <2>4. IsSum(g, d, k + 1)
    BY <2>3 DEF IsSum
  <2> QED
    BY <2>2, <2>4
<1>3. S = Nat
  <2>1. S \in SUBSET Nat
    OBVIOUS
  <2> HIDE DEF S
  <2> QED
    BY <1>1, <1>2, <2>1, AllNumbers
<1> QED
  BY <1>3

\* Sums of numbers that agree agree.
LEMMA SumsAgree ==
  ASSUME NEW N \in Nat, NEW d, NEW e, Agree(d, e, N),
         NEW f, SumsTo(f, d, N), NEW g, SumsTo(g, e, N)
  PROVE  f[N] = g[N]
<1> USE DEF Agree, SumsTo
<1> DEFINE S == {k \in Nat : k <= N => f[k] = g[k]}
<1>1. 0 \in S
  OBVIOUS
<1>2. ASSUME NEW k \in S PROVE k + 1 \in S
  <2> SUFFICES ASSUME k + 1 <= N PROVE f[k + 1] = g[k + 1]
    OBVIOUS
  <2>1. k + 1 \in 1..N /\ (k + 1) - 1 = k /\ f[k] = g[k]
    OBVIOUS
  <2> QED
    BY <2>1
<1>3. S = Nat
  <2>1. S \in SUBSET Nat
    OBVIOUS
  <2> HIDE DEF S
  <2> QED
    BY <1>1, <1>2, <2>1, AllNumbers
<1> QED
  BY <1>3

LEMMA IsSumSumsTo ==
  ASSUME NEW N \in Nat, NEW k \in 0..N, NEW d, NEW f, IsSum(f, d, N)
  PROVE  SumsTo(f, d, k)
BY DEF IsSum, SumsTo

LEMMA SumUnique ==
  ASSUME NEW N \in Nat, NEW d, NEW f, NEW g, IsSum(f, d, N), IsSum(g, d, N)
  PROVE  f[N] = g[N]
<1>1. N \in 0..N /\ Agree(d, d, N)
  BY DEF Agree
<1> QED
  BY <1>1, IsSumSumsTo, SumsAgree

\* The sum of one number more.
LEMMA SumOfMore ==
  ASSUME NEW N \in Nat, NEW M \in Nat, M = N + 1,
         NEW d, NEW e, Agree(d, e, N),
         NEW f, NEW g, IsSum(f, d, M), IsSum(g, e, N)
  PROVE  f[M] = g[N] + d[M]
<1>1. N \in 0..N /\ N \in 0..M /\ M \in 0..M /\ M # 0 /\ M - 1 = N
  OBVIOUS
<1>2. SumsTo(f, d, N) /\ SumsTo(g, e, N)
  BY <1>1, IsSumSumsTo
<1>3. f[N] = g[N]
  BY <1>2, SumsAgree
<1>4. f[M] = f[M - 1] + d[M]
  BY <1>1 DEF IsSum
<1> QED
  BY <1>1, <1>3, <1>4

-----------------------------------------------------------------------------
\* What each row of rs counts for in the net of a.
Share(r, a) == IF Names(r, a) THEN Delta(r, a) ELSE 0
Shares(rs, a) == [n \in 1..Len(rs) |-> Share(rs[n], a)]

LEMMA ShareType ==
  ASSUME NEW r \in Row, NEW a
  PROVE  Share(r, a) \in Int
<1>1. r.value \in Int
  BY PostingAssumption DEF Row
<1> QED
  BY <1>1 DEF Share, Delta

\* The net of a is the sum of the shares.
LEMMA NetOfIsSum ==
  ASSUME NEW rs \in Seq(Row), NEW a
  PROVE  \E f \in [0..Len(rs) -> Int] :
           IsSum(f, Shares(rs, a), Len(rs)) /\ NetOf(rs, a) = f[Len(rs)]
<1> DEFINE d == Shares(rs, a)
           G(f) == f = [n \in 0..Len(rs) |->
                          IF n = 0 THEN 0
                          ELSE f[n - 1] + (IF Names(rs[n], a)
                                           THEN Delta(rs[n], a) ELSE 0)]
<1>1. Len(rs) \in Nat /\ \A n \in 1..Len(rs) : d[n] \in Int
  BY ShareType DEF Shares
<1>2. PICK f \in [0..Len(rs) -> Int] : IsSum(f, d, Len(rs))
  BY <1>1, SumExists
<1>3. \A h : G(h) <=> IsSum(h, d, Len(rs))
  BY <1>1 DEF IsSum, Share, Shares
<1>4. G(CHOOSE h : G(h))
  <2>1. G(f)
    BY <1>2, <1>3
  <2> HIDE DEF G
  <2> QED
    BY <2>1
<1>5. NetOf(rs, a) = (CHOOSE h : G(h))[Len(rs)]
  BY DEF NetOf
<1>6. IsSum(CHOOSE h : G(h), d, Len(rs))
  BY <1>3, <1>4
<1>7. f[Len(rs)] = (CHOOSE h : G(h))[Len(rs)]
  <2> HIDE DEF d, G
  <2> QED
    BY <1>1, <1>2, <1>6, SumUnique
<1> QED
  BY <1>1, <1>2, <1>5, <1>7

\* No rows, no net.
LEMMA NetOfNone == \A a : NetOf(<<>>, a) = 0
<1> SUFFICES ASSUME NEW a PROVE NetOf(<<>>, a) = 0
  OBVIOUS
<1>1. <<>> \in Seq(Row) /\ Len(<<>>) = 0
  OBVIOUS
<1>2. PICK f : IsSum(f, Shares(<<>>, a), 0) /\ NetOf(<<>>, a) = f[0]
  <2>1. \E f \in [0..Len(<<>>) -> Int] :
          IsSum(f, Shares(<<>>, a), Len(<<>>)) /\ NetOf(<<>>, a) = f[Len(<<>>)]
    BY <1>1, NetOfIsSum
  <2> QED
    BY <1>1, <2>1
<1> QED
  BY <1>2 DEF IsSum

LEMMA NetOfType ==
  ASSUME NEW rs \in Seq(Row), NEW a
  PROVE  NetOf(rs, a) \in Int
BY NetOfIsSum

\* One more row adds its share.
LEMMA NetOfAppend ==
  ASSUME NEW rs \in Seq(Row), NEW r \in Row, NEW a
  PROVE  NetOf(Append(rs, r), a) = NetOf(rs, a) + Share(r, a)
<1> DEFINE N == Len(rs)
           M == Len(Append(rs, r))
           d == Shares(Append(rs, r), a)
           e == Shares(rs, a)
<1>1. /\ Append(rs, r) \in Seq(Row) /\ M = N + 1 /\ N \in Nat
      /\ Append(rs, r)[M] = r
      /\ \A n \in 1..N : Append(rs, r)[n] = rs[n]
  OBVIOUS
<1>2. PICK f : IsSum(f, e, N) /\ NetOf(rs, a) = f[N]
  BY <1>1, NetOfIsSum
<1>3. PICK g : IsSum(g, d, M) /\ NetOf(Append(rs, r), a) = g[M]
  BY <1>1, NetOfIsSum
<1>4. d[M] = Share(r, a) /\ Agree(d, e, N)
  BY <1>1 DEF Shares, Agree
<1>5. g[M] = f[N] + d[M]
  <2>1. N \in Nat /\ M \in Nat /\ M = N + 1
    BY <1>1
  <2> HIDE DEF N, M, d, e
  <2> QED
    BY <1>2, <1>3, <1>4, <2>1, SumOfMore
<1> QED
  BY <1>2, <1>3, <1>4, <1>5

-----------------------------------------------------------------------------
\* The balance of any account but the bank's moves by what the statement of
\* that account will count the row for.
LEMMA PostedIsShare ==
  ASSUME NEW r \in Row, r.from # r.to, NEW a \in Accounts \ {Bank},
         NEW bal \in Int
  PROVE  PostedTo(bal, r, a) = bal + Share(r, a)
<1>1. r.value \in Int /\ r.kind \in Kinds /\ BankMeets(r)
  BY PostingAssumption DEF Row
<1> QED
  BY <1>1 DEF PostedTo, Share, Names, Delta, Debits, Credits, BankMeets, Kinds

\* So a balance that the books explain is still explained by them when the row
\* has been posted to it and entered.
LEMMA PostingKeepsExplained ==
  ASSUME NEW rs \in Seq(Row), NEW r \in Row, r.from # r.to,
         NEW a \in Accounts \ {Bank}, NEW bal \in Int,
         bal = Opening[a] + NetOf(rs, a)
  PROVE  PostedTo(bal, r, a) = Opening[a] + NetOf(Append(rs, r), a)
<1>1. Opening[a] \in Int
  BY PostingAssumption
<1> QED
  BY <1>1, NetOfType, NetOfAppend, ShareType, PostedIsShare

(***************************************************************************)
(* Sums over finite sets.                                                  *)
(***************************************************************************)

\* One member after another, as a fold takes them.
Picks(s) == CHOOSE x \in s : TRUE

FoldAt(g, w, s) == IF s = {} THEN 0 ELSE w[Picks(s)] + g[s \ {Picks(s)}]

IsFold(g, w, S) == g = [s \in SUBSET S |-> FoldAt(g, w, s)]

\* Sums of w over all parts of S.
IsTotal(g, w, S) ==
  /\ g \in [SUBSET S -> Int] /\ g[{}] = 0
  /\ \A s \in SUBSET S : \A x \in s : g[s] = w[x] + g[s \ {x}]

Weighs(w, S) == IsFiniteSet(S) /\ \A x \in S : w[x] \in Int

LEMMA PartsFinite ==
  ASSUME NEW S, IsFiniteSet(S), NEW s \in SUBSET S
  PROVE  /\ IsFiniteSet(s) /\ Cardinality(s) \in Nat
         /\ Cardinality(s) = 0 <=> s = {}
         /\ \A x \in s : /\ s \ {x} \in SUBSET S
                         /\ Cardinality(s \ {x}) = Cardinality(s) - 1
<1>1. IsFiniteSet(s) /\ Cardinality(s) \in Nat
  BY FS_Subset, FS_CardinalityType
<1>2. Cardinality(s) = 0 <=> s = {}
  BY <1>1, FS_EmptySet
<1>3. \A x \in s : Cardinality(s \ {x}) = Cardinality(s) - 1
  BY <1>1, FS_RemoveElement
<1> QED
  BY <1>1, <1>2, <1>3

LEMMA FoldExists ==
  ASSUME NEW S, NEW w, Weighs(w, S)
  PROVE  \E g \in [SUBSET S -> Int] : IsFold(g, w, S)
<1> USE DEF Weighs
<1> DEFINE Up(g, n) ==
             \A s \in SUBSET S : Cardinality(s) <= n => g[s] = FoldAt(g, w, s)
           A == {n \in Nat : \E g \in [SUBSET S -> Int] : Up(g, n)}
<1>1. \A s \in SUBSET S : s # {} => Picks(s) \in s
  BY DEF Picks
<1>2. 0 \in A
  <2> DEFINE g == [s \in SUBSET S |-> 0]
  <2>1. Up(g, 0)
    <3> SUFFICES ASSUME NEW s \in SUBSET S, Cardinality(s) <= 0
                 PROVE  g[s] = FoldAt(g, w, s)
      OBVIOUS
    <3>1. s = {}
      BY PartsFinite
    <3> QED
      BY <3>1 DEF FoldAt
  <2>2. g \in [SUBSET S -> Int]
    OBVIOUS
  <2> HIDE DEF g, Up
  <2> QED
    BY <2>1, <2>2
<1>3. ASSUME NEW n \in A
      PROVE  n + 1 \in A
  <2>1. PICK g \in [SUBSET S -> Int] : Up(g, n)
    OBVIOUS
  <2>2. n \in Nat /\ n + 1 \in Nat
    OBVIOUS
  <2> DEFINE h == [s \in SUBSET S |->
                     IF Cardinality(s) <= n THEN g[s] ELSE FoldAt(g, w, s)]
  <2>3. ASSUME NEW s \in SUBSET S
        PROVE  FoldAt(g, w, s) \in Int
    <3>1. CASE s = {}
      BY <3>1 DEF FoldAt
    <3>2. CASE s # {}
      <4>1. Picks(s) \in S /\ s \ {Picks(s)} \in SUBSET S
        BY <1>1, <3>2
      <4> QED
        BY <3>2, <4>1 DEF FoldAt
    <3> QED
      BY <3>1, <3>2
  <2>4. h \in [SUBSET S -> Int]
    BY <2>3
  <2>5. \A s \in SUBSET S : h[s] = FoldAt(g, w, s) \/ Cardinality(s) <= n
    OBVIOUS
  <2>6. \A s \in SUBSET S : Cardinality(s) <= n => h[s] = g[s]
    OBVIOUS
  <2> HIDE DEF h
  <2>7. Up(h, n + 1)
    <3> SUFFICES ASSUME NEW s \in SUBSET S, Cardinality(s) <= n + 1
                 PROVE  h[s] = FoldAt(h, w, s)
      OBVIOUS
    <3>1. h[s] = FoldAt(g, w, s)
      BY <2>1, <2>5, <2>6
    <3>2. CASE s = {}
      BY <3>1, <3>2 DEF FoldAt
    <3>3. CASE s # {}
      <4> DEFINE r == s \ {Picks(s)}
      <4>1. r \in SUBSET S /\ Cardinality(r) <= n
        <5>1. Picks(s) \in s
          BY <1>1, <3>3
        <5>2. Cardinality(s) \in Nat /\ Cardinality(r) = Cardinality(s) - 1
          BY <5>1, PartsFinite
        <5> QED
          BY <2>2, <5>2
      <4>2. h[r] = g[r]
        BY <2>6, <4>1
      <4> QED
        BY <3>1, <3>3, <4>2 DEF FoldAt
    <3> QED
      BY <3>2, <3>3
  <2> HIDE DEF Up
  <2> QED
    BY <2>2, <2>4, <2>7, Zenon
<1>4. A = Nat
  <2>1. A \in SUBSET Nat
    OBVIOUS
  <2> HIDE DEF A
  <2> QED
    BY <1>2, <1>3, <2>1, AllNumbers
<1>5. Cardinality(S) \in A
  BY <1>4, FS_CardinalityType
<1>6. PICK g \in [SUBSET S -> Int] : Up(g, Cardinality(S))
  BY <1>5
<1>7. \A s \in SUBSET S : g[s] = FoldAt(g, w, s)
  BY <1>6, FS_Subset
<1> QED
  BY <1>7 DEF IsFold

\* Only one function sums up in that order.
LEMMA FoldUnique ==
  ASSUME NEW S, NEW w, Weighs(w, S), NEW g, IsFold(g, w, S),
         NEW h, IsFold(h, w, S)
  PROVE  g = h
<1> USE DEF Weighs
<1> DEFINE A == {n \in Nat : \A s \in SUBSET S : Cardinality(s) = n => g[s] = h[s]}
<1>1. \A s \in SUBSET S : g[s] = FoldAt(g, w, s) /\ h[s] = FoldAt(h, w, s)
  BY DEF IsFold
<1>2. 0 \in A
  BY <1>1, PartsFinite DEF FoldAt
<1>3. ASSUME NEW n \in A
      PROVE  n + 1 \in A
  <2> SUFFICES ASSUME NEW s \in SUBSET S, Cardinality(s) = n + 1
               PROVE  g[s] = h[s]
    OBVIOUS
  <2>1. s # {} /\ Picks(s) \in s
    BY PartsFinite DEF Picks
  <2>2. s \ {Picks(s)} \in SUBSET S /\ Cardinality(s \ {Picks(s)}) = n
    BY <2>1, PartsFinite
  <2>3. g[s \ {Picks(s)}] = h[s \ {Picks(s)}]
    BY <2>2
  <2> QED
    BY <1>1, <2>1, <2>3 DEF FoldAt
<1>4. A = Nat
  <2>1. A \in SUBSET Nat
    OBVIOUS
  <2> HIDE DEF A
  <2> QED
    BY <1>2, <1>3, <2>1, AllNumbers
<1>5. \A s \in SUBSET S : g[s] = h[s]
  BY <1>4, PartsFinite
<1> QED
  BY <1>5 DEF IsFold

\* It does not matter which member is taken first.
LEMMA FoldIsTotal ==
  ASSUME NEW S, NEW w, Weighs(w, S),
         NEW g \in [SUBSET S -> Int], IsFold(g, w, S)
  PROVE  IsTotal(g, w, S)
<1> USE DEF Weighs
<1> DEFINE A == {n \in Nat : \A s \in SUBSET S : Cardinality(s) = n =>
                               \A x \in s : g[s] = w[x] + g[s \ {x}]}
<1>1. \A s \in SUBSET S : g[s] = FoldAt(g, w, s)
  BY DEF IsFold
<1>2. 0 \in A
  BY PartsFinite
<1>3. ASSUME NEW n \in A
      PROVE  n + 1 \in A
  <2> SUFFICES ASSUME NEW s \in SUBSET S, Cardinality(s) = n + 1, NEW x \in s
               PROVE  g[s] = w[x] + g[s \ {x}]
    OBVIOUS
  <2> DEFINE c == Picks(s)
             r == s \ {c}
             q == s \ {x}
  <2>1. s # {} /\ c \in s
    BY DEF Picks
  <2>2. r \in SUBSET S /\ Cardinality(r) = n /\ q \in SUBSET S /\ Cardinality(q) = n
    BY <2>1, PartsFinite
  <2>3. g[s] = w[c] + g[r]
    BY <1>1, <2>1 DEF FoldAt
  <2>4. CASE x = c
    BY <2>3, <2>4
  <2>5. CASE x # c
    <3>1. x \in r /\ c \in q /\ r \ {x} = q \ {c}
      BY <2>1, <2>5
    <3>2. g[r] = w[x] + g[r \ {x}]
      BY <2>2, <3>1
    <3>3. g[q] = w[c] + g[q \ {c}]
      BY <2>2, <3>1
    <3>4. w[x] \in Int /\ w[c] \in Int /\ g[q \ {c}] \in Int
      BY <2>1, <2>2
    <3>5. PICK a, b, e : a = w[x] /\ b = w[c] /\ e = g[q \ {c}]
      OBVIOUS
    <3>6. g[r] = a + e /\ g[q] = b + e /\ g[s] = b + g[r]
      BY <2>3, <3>1, <3>2, <3>3, <3>5
    <3>7. a \in Int /\ b \in Int /\ e \in Int
      BY <3>4, <3>5
    <3>8. b + (a + e) = a + (b + e)
      BY <3>7
    <3> QED
      BY <3>5, <3>6, <3>8
  <2> QED
    BY <2>4, <2>5
<1>4. A = Nat
  <2>1. A \in SUBSET Nat
    OBVIOUS
  <2> HIDE DEF A
  <2> QED
    BY <1>2, <1>3, <2>1, AllNumbers
<1>5. \A s \in SUBSET S : \A x \in s : g[s] = w[x] + g[s \ {x}]
  BY <1>4, PartsFinite
<1>6. g[{}] = 0
  BY <1>1 DEF FoldAt
<1> QED
  BY <1>5, <1>6 DEF IsTotal

\* What the sum over a set is.
LEMMA SumIsTotal ==
  ASSUME NEW S, NEW w, Weighs(w, S)
  PROVE  \E g : IsTotal(g, w, S) /\ SumFunctionOnSet(w, S) = g[S]
<1>1. PICK g \in [SUBSET S -> Int] : IsFold(g, w, S)
  BY FoldExists
<1> DEFINE h == CHOOSE x : IsFold(x, w, S)
<1>2. SumFunctionOnSet(w, S) = h[S]
  BY DEF SumFunctionOnSet, FoldFunctionOnSet, MapThenFoldSet, IsFold, FoldAt,
         Picks
<1>3. IsFold(h, w, S)
  BY <1>1
<1> HIDE DEF h
<1>4. h = g
  BY <1>1, <1>3, FoldUnique
<1> QED
  BY <1>1, <1>2, <1>4, FoldIsTotal

LEMMA SumType ==
  ASSUME NEW S, NEW w, Weighs(w, S)
  PROVE  SumFunctionOnSet(w, S) \in Int
<1>1. PICK g : IsTotal(g, w, S) /\ SumFunctionOnSet(w, S) = g[S]
  BY SumIsTotal
<1> QED
  BY <1>1 DEF IsTotal

LEMMA SumNone ==
  ASSUME NEW w
  PROVE  SumFunctionOnSet(w, {}) = 0
<1>1. Weighs(w, {})
  BY FS_EmptySet DEF Weighs
<1>2. PICK g : IsTotal(g, w, {}) /\ SumFunctionOnSet(w, {}) = g[{}]
  BY <1>1, SumIsTotal
<1> QED
  BY <1>2 DEF IsTotal

\* The same weights.
Alike(u, w, S) == \A x \in S : u[x] = w[x]

LEMMA TotalsAgree ==
  ASSUME NEW S, NEW T \in SUBSET S, NEW u, NEW w, IsFiniteSet(S),
         Alike(u, w, T), NEW g, IsTotal(g, w, S), NEW h, IsTotal(h, u, T)
  PROVE  \A s \in SUBSET T : g[s] = h[s]
<1> DEFINE A == {n \in Nat : \A s \in SUBSET T : Cardinality(s) = n => g[s] = h[s]}
<1>0. IsFiniteSet(T)
  BY FS_Subset
<1>1. 0 \in A
  BY <1>0, PartsFinite DEF IsTotal
<1>2. ASSUME NEW n \in A
      PROVE  n + 1 \in A
  <2> SUFFICES ASSUME NEW s \in SUBSET T, Cardinality(s) = n + 1
               PROVE  g[s] = h[s]
    OBVIOUS
  <2>1. PICK x \in s : TRUE
    BY <1>0, PartsFinite
  <2>2. s \ {x} \in SUBSET T /\ Cardinality(s \ {x}) = n
    BY <1>0, PartsFinite
  <2>3. g[s \ {x}] = h[s \ {x}] /\ u[x] = w[x]
    BY <2>2 DEF Alike
  <2>4. g[s] = w[x] + g[s \ {x}]
    BY DEF IsTotal
  <2>5. h[s] = u[x] + h[s \ {x}]
    BY DEF IsTotal
  <2> QED
    BY <2>3, <2>4, <2>5
<1>3. A = Nat
  <2>1. A \in SUBSET Nat
    OBVIOUS
  <2> HIDE DEF A
  <2> QED
    BY <1>1, <1>2, <2>1, AllNumbers
<1> QED
  BY <1>0, <1>3, PartsFinite

LEMMA SumAlike ==
  ASSUME NEW S, NEW u, NEW w, Weighs(w, S), Alike(u, w, S)
  PROVE  SumFunctionOnSet(u, S) = SumFunctionOnSet(w, S) /\ Weighs(u, S)
<1>1. Weighs(u, S) /\ IsFiniteSet(S)
  BY DEF Weighs, Alike
<1>2. PICK g : IsTotal(g, w, S) /\ SumFunctionOnSet(w, S) = g[S]
  BY SumIsTotal
<1>3. PICK h : IsTotal(h, u, S) /\ SumFunctionOnSet(u, S) = h[S]
  BY <1>1, SumIsTotal
<1>4. g[S] = h[S]
  BY <1>1, <1>2, <1>3, TotalsAgree
<1> QED
  BY <1>1, <1>2, <1>3, <1>4

\* The sum over two sets with nothing in common.
LEMMA SumJoins ==
  ASSUME NEW S, NEW T, S \cap T = {}, NEW w, Weighs(w, S \cup T)
  PROVE  /\ SumFunctionOnSet(w, S \cup T)
              = SumFunctionOnSet(w, S) + SumFunctionOnSet(w, T)
         /\ Weighs(w, S) /\ Weighs(w, T)
<1> DEFINE U == S \cup T
<1>1. IsFiniteSet(U) /\ IsFiniteSet(S) /\ IsFiniteSet(T)
  BY FS_Subset DEF Weighs
<1>2. Weighs(w, S) /\ Weighs(w, T)
  BY <1>1 DEF Weighs
<1>3. PICK g : IsTotal(g, w, U) /\ SumFunctionOnSet(w, U) = g[U]
  BY SumIsTotal
<1>4. Alike(w, w, S) /\ Alike(w, w, T)
  BY DEF Alike
<1>5. SumFunctionOnSet(w, S) = g[S]
  <2>1. PICK h : IsTotal(h, w, S) /\ SumFunctionOnSet(w, S) = h[S]
    BY <1>2, SumIsTotal
  <2>2. S \in SUBSET U /\ IsTotal(g, w, U)
    BY <1>3
  <2> HIDE DEF U
  <2>3. \A s \in SUBSET S : g[s] = h[s]
    BY <1>1, <1>4, <2>1, <2>2, TotalsAgree
  <2> QED
    BY <2>1, <2>3
<1>6. SumFunctionOnSet(w, T) = g[T]
  <2>1. PICK h : IsTotal(h, w, T) /\ SumFunctionOnSet(w, T) = h[T]
    BY <1>2, SumIsTotal
  <2>2. T \in SUBSET U /\ IsTotal(g, w, U)
    BY <1>3
  <2> HIDE DEF U
  <2>3. \A s \in SUBSET T : g[s] = h[s]
    BY <1>1, <1>4, <2>1, <2>2, TotalsAgree
  <2> QED
    BY <2>1, <2>3
<1> DEFINE A == {n \in Nat : \A t \in SUBSET T : Cardinality(t) = n =>
                               g[S \cup t] = g[S] + g[t]}
<1>7. g[S] \in Int /\ g[{}] = 0
  BY <1>3 DEF IsTotal
<1>8. 0 \in A
  <2> SUFFICES ASSUME NEW t \in SUBSET T, Cardinality(t) = 0
               PROVE  g[S \cup t] = g[S] + g[t]
    OBVIOUS
  <2>1. t = {} /\ S \cup t = S
    BY <1>1, PartsFinite
  <2> QED
    BY <1>7, <2>1
<1>9. ASSUME NEW n \in A
      PROVE  n + 1 \in A
  <2> SUFFICES ASSUME NEW t \in SUBSET T, Cardinality(t) = n + 1
               PROVE  g[S \cup t] = g[S] + g[t]
    OBVIOUS
  <2>1. PICK x \in t : TRUE
    BY <1>1, PartsFinite
  <2> DEFINE r == t \ {x}
  <2>2. r \in SUBSET T /\ Cardinality(r) = n
    BY <1>1, PartsFinite
  <2>3. g[S \cup r] = g[S] + g[r]
    BY <2>2
  <2>4. (S \cup t) \ {x} = S \cup r /\ x \in S \cup t /\ S \cup t \in SUBSET U
    OBVIOUS
  <2>5. g[S \cup t] = w[x] + g[S \cup r]
    BY <1>3, <2>4 DEF IsTotal
  <2>6. g[t] = w[x] + g[r] /\ g[r] \in Int /\ w[x] \in Int
    BY <1>3, <2>2 DEF IsTotal, Weighs
  <2> HIDE DEF r
  <2> QED
    BY <1>7, <2>3, <2>5, <2>6
<1>10. A = Nat
  <2>1. A \in SUBSET Nat
    OBVIOUS
  <2> HIDE DEF A
  <2> QED
    BY <1>8, <1>9, <2>1, AllNumbers
<1>11. g[U] = g[S] + g[T]
  BY <1>1, <1>10, PartsFinite
<1> QED
  BY <1>2, <1>3, <1>5, <1>6, <1>11

\* One member more.
LEMMA SumOneMore ==
  ASSUME NEW S, NEW x, x \notin S, NEW w, Weighs(w, S \cup {x})
  PROVE  /\ SumFunctionOnSet(w, S \cup {x}) = SumFunctionOnSet(w, S) + w[x]
         /\ Weighs(w, S)
<1> DEFINE U == S \cup {x}
<1>1. IsFiniteSet(U) /\ IsFiniteSet(S) /\ Weighs(w, S) /\ w[x] \in Int
  BY FS_Subset DEF Weighs
<1>2. PICK g : IsTotal(g, w, U) /\ SumFunctionOnSet(w, U) = g[U]
  BY SumIsTotal
<1>3. PICK h : IsTotal(h, w, S) /\ SumFunctionOnSet(w, S) = h[S]
  BY <1>1, SumIsTotal
<1>4. g[S] = h[S]
  BY <1>1, <1>2, <1>3, TotalsAgree DEF Alike
<1>5. U \ {x} = S
  OBVIOUS
<1>6. g[U] = w[x] + g[S] /\ g[S] \in Int
  BY <1>2, <1>5 DEF IsTotal
<1> QED
  BY <1>1, <1>2, <1>3, <1>4, <1>6

\* What has the sums of w over all parts has the sum over the whole.
LEMMA TotalIsSum ==
  ASSUME NEW S, NEW w, Weighs(w, S), NEW g, IsTotal(g, w, S)
  PROVE  SumFunctionOnSet(w, S) = g[S]
<1>1. PICK h : IsTotal(h, w, S) /\ SumFunctionOnSet(w, S) = h[S]
  BY SumIsTotal
<1>2. Alike(w, w, S) /\ IsFiniteSet(S)
  BY DEF Alike, Weighs
<1>3. h[S] = g[S]
  BY <1>1, <1>2, TotalsAgree
<1> QED
  BY <1>1, <1>3

\* Members that weigh nothing add nothing.
LEMMA SumOfZeros ==
  ASSUME NEW S, IsFiniteSet(S), NEW w, \A x \in S : w[x] = 0
  PROVE  SumFunctionOnSet(w, S) = 0
<1> DEFINE g == [s \in SUBSET S |-> 0]
<1>1. Weighs(w, S)
  BY DEF Weighs
<1>2. IsTotal(g, w, S)
  BY DEF IsTotal
<1>3. g[S] = 0
  OBVIOUS
<1> HIDE DEF g
<1> QED
  BY <1>1, <1>2, <1>3, TotalIsSum

LEMMA SumWithoutZeros ==
  ASSUME NEW S, NEW T \in SUBSET S, NEW w, Weighs(w, S),
         \A x \in S \ T : w[x] = 0
  PROVE  SumFunctionOnSet(w, S) = SumFunctionOnSet(w, T)
<1>1. PICK R : R = S \ T
  OBVIOUS
<1>2. IsFiniteSet(R) /\ T \cup R = S /\ T \cap R = {}
  BY <1>1, FS_Subset DEF Weighs
<1>3. SumFunctionOnSet(w, R) = 0
  BY <1>1, <1>2, SumOfZeros
<1>4. /\ SumFunctionOnSet(w, S)
           = SumFunctionOnSet(w, T) + SumFunctionOnSet(w, R)
      /\ Weighs(w, T)
  BY <1>2, SumJoins
<1>5. SumFunctionOnSet(w, T) \in Int
  BY <1>4, SumType
<1> QED
  BY <1>3, <1>4, <1>5

\* Weights that are the sums, or the differences, of others.
LEMMA SumAdds ==
  ASSUME NEW S, NEW u, Weighs(u, S), NEW v, Weighs(v, S), NEW w,
         \A x \in S : w[x] = u[x] + v[x]
  PROVE  SumFunctionOnSet(w, S) = SumFunctionOnSet(u, S) + SumFunctionOnSet(v, S)
<1>1. PICK g : IsTotal(g, u, S) /\ SumFunctionOnSet(u, S) = g[S]
  BY SumIsTotal
<1>2. PICK h : IsTotal(h, v, S) /\ SumFunctionOnSet(v, S) = h[S]
  BY SumIsTotal
<1> DEFINE k == [s \in SUBSET S |-> g[s] + h[s]]
<1>3. Weighs(w, S)
  BY DEF Weighs
<1>4. /\ \A s \in SUBSET S : g[s] \in Int /\ h[s] \in Int
      /\ g[{}] = 0 /\ h[{}] = 0
  BY <1>1, <1>2 DEF IsTotal
<1>5. IsTotal(k, w, S)
  <2>1. k \in [SUBSET S -> Int] /\ k[{}] = 0
    BY <1>4
  <2>2. ASSUME NEW s \in SUBSET S, NEW x \in s
        PROVE  k[s] = w[x] + k[s \ {x}]
    <3>1. g[s] = u[x] + g[s \ {x}] /\ h[s] = v[x] + h[s \ {x}]
      BY <1>1, <1>2 DEF IsTotal
    <3>2. PICK a, b, c, d : /\ a = u[x] /\ b = g[s \ {x}]
                            /\ c = v[x] /\ d = h[s \ {x}]
      OBVIOUS
    <3>3. a \in Int /\ b \in Int /\ c \in Int /\ d \in Int
      BY <1>4, <3>2 DEF Weighs
    <3>4. k[s] = g[s] + h[s] /\ k[s \ {x}] = b + d
      BY <3>2
    <3>5. k[s] = (a + b) + (c + d) /\ w[x] = a + c
      BY <3>1, <3>2, <3>4
    <3> HIDE DEF k
    <3> QED
      BY <3>3, <3>4, <3>5
  <2> QED
    BY <2>1, <2>2 DEF IsTotal
<1>6. k[S] = g[S] + h[S]
  OBVIOUS
<1> HIDE DEF k
<1> QED
  BY <1>1, <1>2, <1>3, <1>5, <1>6, TotalIsSum

LEMMA SumSubtracts ==
  ASSUME NEW S, NEW u, Weighs(u, S), NEW v, Weighs(v, S), NEW w,
         \A x \in S : w[x] = u[x] - v[x]
  PROVE  SumFunctionOnSet(w, S) = SumFunctionOnSet(u, S) - SumFunctionOnSet(v, S)
<1>1. Weighs(w, S) /\ \A x \in S : u[x] = w[x] + v[x]
  BY DEF Weighs
<1>2. SumFunctionOnSet(u, S) = SumFunctionOnSet(w, S) + SumFunctionOnSet(v, S)
  BY <1>1, SumAdds
<1>3. SumFunctionOnSet(w, S) \in Int /\ SumFunctionOnSet(v, S) \in Int
  BY <1>1, SumType
<1> QED
  BY <1>2, <1>3

\* Other names for what is summed up.
Renames(b, I, S) ==
  /\ \A i \in I : b[i] \in S
  /\ \A x \in S : \E i \in I : b[i] = x
  /\ \A i, j \in I : b[i] = b[j] => i = j

Carries(v, b, w, I) == \A i \in I : v[i] = w[b[i]]

LEMMA SumRenamed ==
  ASSUME NEW I, NEW S, NEW b, Renames(b, I, S), NEW w, Weighs(w, S), NEW v,
         IsFiniteSet(I), Carries(v, b, w, I)
  PROVE  SumFunctionOnSet(v, I) = SumFunctionOnSet(w, S)
<1> USE DEF Renames, Carries
<1>1. PICK g : IsTotal(g, w, S) /\ SumFunctionOnSet(w, S) = g[S]
  BY SumIsTotal
<1> DEFINE Of(s) == {b[i] : i \in s}
           h == [s \in SUBSET I |-> g[Of(s)]]
<1>2. Weighs(v, I)
  BY DEF Weighs
<1>3. /\ g \in [SUBSET S -> Int] /\ g[{}] = 0
      /\ \A s \in SUBSET S : \A x \in s : g[s] = w[x] + g[s \ {x}]
  BY <1>1 DEF IsTotal
<1>4. \A s \in SUBSET I : Of(s) \in SUBSET S
  OBVIOUS
<1>5. Of({}) = {} /\ Of(I) = S
  OBVIOUS
<1>6. ASSUME NEW s \in SUBSET I, NEW i \in s
      PROVE  g[Of(s)] = v[i] + g[Of(s \ {i})]
  <2>1. b[i] \in Of(s) /\ Of(s \ {i}) = Of(s) \ {b[i]}
    OBVIOUS
  <2>2. v[i] = w[b[i]] /\ Of(s) \in SUBSET S
    OBVIOUS
  <2>3. PICK t, x : t = Of(s) /\ x = b[i]
    OBVIOUS
  <2> HIDE DEF Of
  <2>4. t \in SUBSET S /\ x \in t /\ Of(s \ {i}) = t \ {x} /\ v[i] = w[x]
    BY <2>1, <2>2, <2>3
  <2>5. g[t] = w[x] + g[t \ {x}]
    BY <1>3, <2>4
  <2> QED
    BY <2>3, <2>4, <2>5
<1> HIDE DEF Of
<1>7. IsTotal(h, v, I)
  BY <1>3, <1>4, <1>5, <1>6 DEF IsTotal
<1>8. h[I] = g[S]
  BY <1>5
<1> HIDE DEF h
<1> QED
  BY <1>1, <1>2, <1>7, <1>8, TotalIsSum
=============================================================================
