---------------------------- MODULE StatisticsProof ----------------------------
(****************************************************************************)
(* What holds of the threads of Statistics, for every number of them, every *)
(* number of transactions and every way to cut them into slices: that they  *)
(* are done before what they share is gone, and that the figures they meet  *)
(* in are the right ones, so that Statistics implements Summary.            *)
(****************************************************************************)
EXTENDS Statistics, PostingProof, FiniteSetTheorems, TLAPS

(***************************************************************************)
(* The slices.                                                             *)
(***************************************************************************)

LEMMA Divided ==
  ASSUME NEW n \in Nat, NEW d \in Nat \ {0}
  PROVE  /\ n \div d \in Nat /\ d * (n \div d) <= n /\ n < d * (n \div d) + d
         /\ n \div d <= n /\ (d <= n => n \div d >= 1)
<1>1. n \div d \in Nat /\ d * (n \div d) <= n /\ n < d * (n \div d) + d
  OBVIOUS
<1> DEFINE q == n \div d
<1>2. q \in Nat /\ d * q <= n /\ n < d * q + d
  BY <1>1
<1> HIDE DEF q
<1>3. q <= d * q
  BY <1>2
<1>4. q = 0 => d * q = 0
  BY <1>2
<1> QED
  BY <1>2, <1>3, <1>4 DEF q

LEMMA Multiples ==
  ASSUME NEW a \in Nat, NEW b \in Nat, a <= b, NEW c \in Nat
  PROVE  a * c \in Nat /\ b * c \in Nat /\ a * c <= b * c
         /\ (a + 1) * c = a * c + c
OBVIOUS

LEMMA Remainder ==
  ASSUME NEW a \in Nat, NEW d \in Nat \ {0}, a < d
  PROVE  a % d = a
OBVIOUS

\* Where there is something to read the slices lie side by side in the list.
LEMMA SlicesFit ==
  ASSUME call \in Calls, NEW n \in Nat \ {0}, NEW k \in Nat, k < Started(n)
  PROVE  /\ ChunkFor(n) \in 1..n /\ Started(n) \in Nat
         /\ k + 1 = Started(n) => n - k * ChunkFor(n) \in 0..n
         /\ k + 1 # Started(n) => k * ChunkFor(n) + ChunkFor(n) <= n
<1> DEFINE p == call.processors
           c == ChunkFor(n)
<1>1. p \in Nat \ {0} /\ call.backend \in {"C", "Rust"}
  BY StatisticsAssumption DEF Call
<1>2. CASE C
  <2> DEFINE d == ThreadsFor(n)
  <2>1. (d \in Nat \ {0} /\ d <= n) \/ (d = p /\ p <= n)
    BY <1>1 DEF ThreadsFor
  <2>2. d \in Nat \ {0} /\ d <= n
    BY <1>1, <2>1
  <2>3. Started(n) = d
    BY <1>2 DEF Started
  <2>4. c = IF n \div d = 0 THEN 1 ELSE n \div d
    BY <1>2 DEF ChunkFor
  <2> HIDE DEF d, c
  <2>5. c = n \div d /\ c \in Nat /\ c >= 1 /\ c <= n /\ d * c <= n
    BY <2>2, <2>4, Divided
  <2>6. (k + 1) * c <= d * c /\ (k + 1) * c = k * c + c /\ k * c \in Nat
    BY <2>2, <2>3, <2>5, Multiples
  <2>7. d * c \in Nat
    BY <2>2, <2>5, Multiples
  <2> QED
    BY <2>2, <2>3, <2>5, <2>6, <2>7 DEF c
<1>3. CASE ~C
  <2>1. c = IF n \div p = 0 THEN 1 ELSE n \div p
    BY <1>3 DEF ChunkFor
  <2>2. Started(n) = (n + c - 1) \div c
    BY <1>3 DEF Started
  <2> HIDE DEF c
  <2>3. c \in Nat \ {0} /\ c <= n
    BY <1>1, <2>1, Divided
  <2> DEFINE s == Started(n)
  <2>4. n + c - 1 \in Nat
    BY <2>3
  <2>5. s \in Nat /\ c * s <= n + c - 1
    BY <2>2, <2>3, <2>4, Divided
  <2> HIDE DEF s
  <2>6. s * c <= n + c - 1
    BY <2>3, <2>5
  <2>7. k + 1 <= s
    BY <2>5 DEF s
  <2>8. (k + 1) * c <= s * c /\ (k + 1) * c = k * c + c /\ k * c \in Nat
        /\ s * c \in Nat
    BY <2>3, <2>5, <2>7, Multiples
  <2>9. k + 1 # s => (k + 2) * c <= s * c /\ (k + 2) * c = (k + 1) * c + c
    BY <2>3, <2>5, <2>7, Multiples
  <2> QED
    BY <2>3, <2>5, <2>6, <2>8, <2>9 DEF s, c
<1> QED
  BY <1>2, <1>3

(***************************************************************************)
(* The list.                                                               *)
(***************************************************************************)

LEMMA GatheredRows ==
  ASSUME call \in Calls
  PROVE  /\ Gathered \subseteq Tx /\ IsFiniteSet(Gathered)
         /\ Cardinality(Gathered) \in Nat /\ Cardinality(Gathered) < SizeT
<1>1. /\ call.books \in SUBSET Tx /\ IsFiniteSet(call.books)
      /\ Cardinality(call.books) < SizeT
  BY StatisticsAssumption DEF Call
<1>2. Gathered \in SUBSET call.books
  BY DEF Gathered, ListOf, Newest
<1>3. /\ IsFiniteSet(Gathered)
      /\ Cardinality(Gathered) <= Cardinality(call.books)
  BY <1>1, <1>2, FS_Subset
<1>4. Cardinality(Gathered) \in Nat /\ Cardinality(call.books) \in Nat
  BY <1>1, <1>3, FS_CardinalityType
<1> QED
  BY <1>1, <1>2, <1>3, <1>4, StatisticsAssumption

LEMMA DedupedRows ==
  ASSUME call \in Calls, NEW s \in Deduped
  PROVE  s \in Seq(Tx) /\ Len(s) < SizeT
<1>1. s \in [1..Cardinality(Gathered) -> Gathered]
  BY DEF Deduped, SetToSeqs
<1> QED
  BY <1>1, GatheredRows

\* How many threads are started, and how much each is given.
LEMMA ShareOK ==
  ASSUME call \in Calls, NEW n \in Nat, n < SizeT
  PROVE  ChunkFor(n) \in 1..(SizeT - 1) /\ Started(n) \in Nat
<1>1. call.processors \in Nat \ {0} /\ SizeT \in Nat \ {0, 1}
  BY StatisticsAssumption DEF Call
<1>2. ThreadsFor(n) \in Nat \ {0}
  BY <1>1 DEF ThreadsFor
<1> DEFINE d == IF C THEN ThreadsFor(n) ELSE call.processors
           c == ChunkFor(n)
<1>3. d \in Nat \ {0}
  BY <1>1, <1>2
<1>4. c = IF n \div d = 0 THEN 1 ELSE n \div d
  BY DEF ChunkFor
<1> HIDE DEF d
<1>5. n \div d \in Nat /\ n \div d <= n
  BY <1>3, Divided
<1>6. c \in 1..(SizeT - 1)
  BY <1>1, <1>4, <1>5
<1> HIDE DEF c
<1>7. (n + c - 1) \div c \in Nat
  <2>1. c \in Nat \ {0} /\ n + c - 1 \in Nat
    BY <1>6
  <2> QED
    BY <2>1, Divided
<1> QED
  BY <1>2, <1>6, <1>7 DEF Started, c

(***************************************************************************)
(* The figures.                                                            *)
(***************************************************************************)

Sums == [{"count", "incoming", "outgoing", "volume"} -> Int64]

LEMMA Quotient ==
  ASSUME NEW n \in Int, NEW d \in Nat \ {0}
  PROVE  /\ n % d \in 0..(d - 1) /\ n \div d \in Int
         /\ n = (d * (n \div d)) + (n % d)
OBVIOUS

\* What is left of a division is all that tells two numbers apart by less than
\* the divisor.
LEMMA SameRemainder ==
  ASSUME NEW d \in Nat \ {0}, NEW p \in Int, NEW q \in Int,
         NEW r \in 0..(d - 1), NEW s \in 0..(d - 1), d * p + r = d * q + s
  PROVE  r = s
<1>1. d * p - d * q = s - r /\ d * p \in Int /\ d * q \in Int
  OBVIOUS
<1>2. ASSUME p > q
      PROVE  FALSE
  <2>1. d * p >= d * q + d
    <3>1. PICK k : k = p - q - 1
      OBVIOUS
    <3>2. k \in Nat /\ d * k \in Nat /\ p = q + 1 + k
      BY <1>2, <3>1
    <3>3. d * p = d * q + d + d * k
      BY <3>2
    <3> QED
      BY <1>1, <3>2, <3>3
  <2> QED
    BY <1>1, <2>1
<1>3. ASSUME q > p
      PROVE  FALSE
  <2>1. d * q >= d * p + d
    <3>1. PICK k : k = q - p - 1
      OBVIOUS
    <3>2. k \in Nat /\ d * k \in Nat /\ q = p + 1 + k
      BY <1>3, <3>1
    <3>3. d * q = d * p + d + d * k
      BY <3>2
    <3> QED
      BY <1>1, <3>2, <3>3
  <2> QED
    BY <1>1, <2>1
<1>4. p = q
  BY <1>2, <1>3
<1> QED
  BY <1>1, <1>4

LEMMA RemainderAdds ==
  ASSUME NEW d \in Nat \ {0}, NEW a \in Int, NEW b \in Int
  PROVE  ((a % d) + b) % d = (a + b) % d
<1>1. PICK p, r : p = a \div d /\ r = a % d
  OBVIOUS
<1>2. r \in 0..(d - 1) /\ p \in Int /\ a = d * p + r
  BY <1>1, Quotient
<1>3. PICK q, s : q = (r + b) \div d /\ s = (r + b) % d
  OBVIOUS
<1>4. s \in 0..(d - 1) /\ q \in Int /\ r + b = d * q + s
  <2>1. r + b \in Int
    BY <1>2
  <2> QED
    BY <1>3, <2>1, Quotient
<1>5. PICK u, v : u = (a + b) \div d /\ v = (a + b) % d
  OBVIOUS
<1>6. v \in 0..(d - 1) /\ u \in Int /\ a + b = d * u + v
  BY <1>5, Quotient
<1>7. d * u + v = d * (p + q) + s
  <2>1. a + b = d * p + (d * q + s)
    <3>1. d * p \in Int /\ d * q \in Int /\ s \in Int /\ r \in Int
      BY <1>2, <1>4
    <3> QED
      BY <1>2, <1>4, <3>1
  <2>2. d * (p + q) = d * p + d * q /\ d * p \in Int /\ d * q \in Int
    BY <1>2, <1>4
  <2> QED
    BY <1>4, <1>6, <2>1, <2>2
<1>8. v = s
  <2>1. p + q \in Int
    BY <1>2, <1>4
  <2> QED
    BY <1>4, <1>6, <1>7, <2>1, SameRemainder
<1> QED
  BY <1>1, <1>3, <1>5, <1>8

\* Wrapping around on the way does not show in the end.
LEMMA WrapAdds ==
  ASSUME NEW a \in Int, NEW b \in Int
  PROVE  /\ Wrap(a) \in Int64 /\ Wrap(a) \in Int
         /\ Wrap(Wrap(a) + b) = Wrap(a + b)
         /\ a \in Int64 => Wrap(a) = a
<1>1. PICK h, d : h = MaxCents + 1 /\ d = 2 * (MaxCents + 1)
  OBVIOUS
<1>2. /\ h \in Nat \ {0} /\ d \in Nat \ {0} /\ d = 2 * h
      /\ \A n \in Int : Wrap(n) = ((n + h) % d) - h
      /\ Int64 = (-h)..(h - 1)
  <2>1. MaxCents \in Nat
    BY PostingAssumption
  <2>2. ASSUME NEW n \in Int
        PROVE  Wrap(n) = ((n + h) % d) - h
    <3>1. n + MaxCents + 1 = n + h
      BY <1>1, <2>1
    <3> QED
      BY <1>1, <3>1 DEF Wrap
  <2>3. -MaxCents - 1 = -h /\ MaxCents = h - 1
    BY <1>1, <2>1
  <2> QED
    BY <1>1, <2>1, <2>2, <2>3 DEF Int64
<1>3. PICK r : r = (a + h) % d
  OBVIOUS
<1>4. r \in 0..(d - 1) /\ Wrap(a) = r - h
  <2>1. a + h \in Int
    BY <1>2
  <2> QED
    BY <1>2, <1>3, <2>1, Quotient
<1>5. Wrap(a) \in Int64 /\ Wrap(a) \in Int
  BY <1>2, <1>4
<1>6. Wrap(Wrap(a) + b) = Wrap(a + b)
  <2>1. Wrap(Wrap(a) + b) = ((r + b) % d) - h
    <3>1. Wrap(a) + b \in Int /\ Wrap(a) + b + h = r + b
      BY <1>2, <1>4
    <3> QED
      BY <1>2, <3>1
  <2>2. Wrap(a + b) = ((a + h + b) % d) - h
    <3>1. a + b \in Int /\ a + b + h = a + h + b
      BY <1>2
    <3> QED
      BY <1>2, <3>1
  <2>3. (r + b) % d = (a + h + b) % d
    <3>1. a + h \in Int
      BY <1>2
    <3> QED
      BY <1>2, <1>3, <3>1, RemainderAdds
  <2> QED
    BY <2>1, <2>2, <2>3
<1>7. ASSUME a \in Int64
      PROVE  Wrap(a) = a
  <2>1. a + h \in Nat /\ a + h < d
    BY <1>2, <1>7
  <2>2. r = a + h
    BY <1>2, <1>3, <2>1, Remainder
  <2> QED
    BY <1>2, <1>4, <2>2
<1> QED
  BY <1>5, <1>6, <1>7

LEMMA NoSumsTyped == NoSums \in Sums /\ Wrapped(NoSums) = NoSums
<1>1. 0 \in Int64
  BY PostingAssumption DEF Int64
<1>2. Wrap(0) = 0
  BY <1>1, WrapAdds
<1>3. NoSums \in Sums
  BY <1>1 DEF NoSums, Sums
<1>4. Wrapped(NoSums) = [k \in {"count", "incoming", "outgoing", "volume"} |-> 0]
  BY <1>2 DEF NoSums, Wrapped
<1>5. NoSums = [k \in {"count", "incoming", "outgoing", "volume"} |-> 0]
  BY DEF NoSums
<1> QED
  BY <1>3, <1>4, <1>5

LEMMA AddedSums ==
  ASSUME call \in Calls, NEW tx \in Tx, sums \in Sums
  PROVE  Added(sums, call.filter, tx) \in Sums
<1>1. tx.row.value \in Int
  BY PostingAssumption DEF Tx, Row
<1> DEFINE net == NetFor(call.filter, tx)
<1>2. net \in Int
  BY <1>1 DEF NetFor
<1> HIDE DEF net
<1>3. Size(net) \in Int
  BY <1>2 DEF Size
<1>4. Int64 \subseteq Int
  BY PostingAssumption DEF Int64
<1>5. /\ sums.count + 1 \in Int
      /\ sums.incoming + (IF net > 0 THEN net ELSE 0) \in Int
      /\ sums.outgoing + (IF net < 0 THEN -net ELSE 0) \in Int
      /\ sums.volume + Size(net) \in Int
  <2>1. /\ sums.count \in Int /\ sums.incoming \in Int
        /\ sums.outgoing \in Int /\ sums.volume \in Int
    BY <1>4 DEF Sums
  <2> QED
    BY <1>2, <1>3, <2>1
<1>6. \A n \in Int : Wrap(n) \in Int64
  BY WrapAdds
<1> QED
  BY <1>5, <1>6 DEF Added, Sums, net

(***************************************************************************)
(* The threads.                                                            *)
(***************************************************************************)

\* The workers, whatever maps they hold.
WorkerOf(held) ==
  [at : Labels, next : Nat, left : 0..(SizeT - 1), batch : SUBSET Tx,
   inside : BOOLEAN, held : held]

LockOf(w, t, locks) ==
  /\ w.inside <=> w.at \in Maps /\ locks[w.at] = t
  /\ \A m \in Maps : locks[m] = t => w.at = m

LostMaps == [Maps -> SUBSET Tx]

InParts ==
  /\ call \in Calls \cup {NoCall}
  /\ main \in {"idle", "gather", "spawn", "abandon", "join", "categorise",
               "crashed"}
  /\ txs \in Seq(Tx)
  /\ lock \in [Maps -> Threads \cup {Free}]
  /\ \A t \in Threads : LockOf(worker[t], t, lock)
  /\ sums \in Sums
  /\ lost \in LostMaps
  /\ \E held : worker \in [Threads -> WorkerOf(held)]
  /\ CallOK /\ ListOK /\ ThreadsOK /\ SpawnOK /\ SlicesOK /\ CrashOK

LEMMA InductiveWorkers == Inductive <=> InParts
<1>1. ASSUME NEW held, worker \in [Threads -> WorkerOf(held)],
             NEW t \in Threads
      PROVE  /\ worker[t].at \in Labels /\ worker[t].next \in Nat
             /\ worker[t].left \in 0..(SizeT - 1)
             /\ worker[t].batch \subseteq Tx
  BY <1>1 DEF WorkerOf
<1>2. WorkersOK <=> \E held : worker \in [Threads -> WorkerOf(held)]
  BY DEF WorkersOK, WorkerOf
<1> QED
  BY <1>1, <1>2 DEF Inductive, InParts, TypeOK, LocksOK, LockOf, Sums,
                    LostMaps

LEMMA InductiveWorkersNext == Inductive' <=> InParts'
BY InductiveWorkers, PTL


\* What a thread at work leaves intact, whatever step it takes.
LEMMA WorkKeeps ==
  ASSUME Inductive, NEW t \in Threads, worker[t].at \notin {"none", "end"},
         NEW H, NEW w \in WorkerOf(H), Mind(t, w), w.at # "none",
         w.next >= worker[t].next,
         w.next + w.left <= worker[t].next + worker[t].left,
         lock' \in [Maps -> Threads \cup {Free}],
         LockOf(w, t, lock'),
         \A u \in Threads \ {t}, m \in Maps : lock'[m] = u <=> lock[m] = u,
         sums' \in Sums, lost' \in LostMaps, UNCHANGED <<call, txs>>,
         main' = main \/ (main' = "crashed" /\ txs = <<>>)
  PROVE  Inductive'
<1> USE InductiveWorkers, InductiveWorkersNext DEF InParts
<1>1. PICK G : worker \in [Threads -> WorkerOf(G)]
  OBVIOUS
<1>2. /\ worker' = [worker EXCEPT ![t] = w] /\ worker'[t] = w
      /\ \A u \in Threads : u # t => worker'[u] = worker[u]
  BY <1>1 DEF Mind
<1>3. main \in {"spawn", "join", "abandon", "crashed"}
  BY DEF ThreadsOK
<1>4. main' \in {"spawn", "join", "abandon", "crashed"}
  BY <1>3
<1>5. worker' \in [Threads -> WorkerOf(G \cup H)]
  <2>1. WorkerOf(G) \subseteq WorkerOf(G \cup H)
        /\ WorkerOf(H) \subseteq WorkerOf(G \cup H)
    BY DEF WorkerOf
  <2> QED
    BY <1>1, <1>2, <2>1
<1>6. \A u \in Threads : LockOf(worker[u], u, lock)'
  BY <1>2 DEF LockOf
<1>7. CallOK' /\ ListOK' /\ CrashOK' /\ ThreadsOK'
  BY <1>3, <1>4 DEF CallOK, ListOK, CrashOK, ThreadsOK, Started, ThreadsFor,
                    ChunkFor, C
<1>8. SpawnOK'
  <2> SUFFICES ASSUME main' = "spawn"
               PROVE  SpawnOK'
    BY DEF SpawnOK
  <2>1. main = "spawn" /\ SpawnOK
    OBVIOUS
  <2>2. Started(Len(txs))' = Started(Len(txs))
    BY DEF Started, ThreadsFor, ChunkFor, C
  <2>3. \A u \in Threads : worker'[u].at # "none" <=> worker[u].at # "none"
    BY <1>2
  <2> QED
    BY <2>1, <2>2, <2>3 DEF SpawnOK
<1>9. SlicesOK'
  <2> SUFFICES ASSUME NEW u \in Threads, worker'[u].at # "none"
               PROVE  /\ worker'[u].next >= 1
                      /\ txs # <<>> =>
                           worker'[u].next + worker'[u].left <= Len(txs) + 1
    BY DEF SlicesOK
  <2>1. CASE u # t
    BY <1>2, <2>1 DEF SlicesOK
  <2>2. CASE u = t
    <3>1. /\ worker[t].next >= 1
          /\ txs # <<>> => worker[t].next + worker[t].left <= Len(txs) + 1
      BY DEF SlicesOK
    <3>2. worker[t] \in WorkerOf(G)
      BY <1>1
    <3>3. /\ worker[t].next \in Nat /\ worker[t].left \in Int
          /\ w.next \in Nat /\ w.left \in Int /\ Len(txs) \in Nat
      BY <3>2, StatisticsAssumption DEF WorkerOf
    <3> QED
      BY <1>2, <2>2, <3>1, <3>3
  <2> QED
    BY <2>1, <2>2
<1> QED
  BY <1>4, <1>5, <1>6, <1>7, <1>8, <1>9

\* A worker's own state after a field or two of it change.
LEMMA WorkerFields ==
  ASSUME NEW H, NEW w \in WorkerOf(H)
  PROVE  /\ w.at \in Labels /\ w.next \in Nat /\ w.left \in 0..(SizeT - 1)
         /\ w.batch \subseteq Tx /\ w.inside \in BOOLEAN /\ w.held \in H
BY DEF WorkerOf

LEMMA TakeKeeps ==
  ASSUME Inductive, NEW t \in Threads, Take(t)
  PROVE  Inductive'
<1> USE InductiveWorkers DEF InParts
<1>1. PICK G : worker \in [Threads -> WorkerOf(G)]
  OBVIOUS
<1>2. PICK w : w = worker[t]
  OBVIOUS
<1>3. w \in WorkerOf(G) /\ w.at = "take" /\ w.left > 0
  BY <1>1, <1>2 DEF Take
<1>4. /\ w.next \in Nat /\ w.left \in Nat /\ w.batch \subseteq Tx
      /\ Len(txs) \in Nat
  BY <1>3, WorkerFields, StatisticsAssumption
<1>5. UNCHANGED <<call, txs, lock, maps, out>>
  BY DEF Take
<1>6. /\ w.inside = FALSE /\ \A m \in Maps : lock[m] # t
      /\ \A v : v.at = "take" /\ v.inside = FALSE => LockOf(v, t, lock')
  BY <1>2, <1>3, <1>5 DEF LockOf, Maps
<1>7. call \in Calls
  BY <1>2, <1>3 DEF CallOK, ThreadsOK
<1>8. CASE w.next > Len(txs)
  <2>1. main' = "crashed" /\ UNCHANGED <<worker, sums, lost>>
    BY <1>2, <1>8 DEF Take
  <2>2. txs = <<>>
    BY <1>2, <1>3, <1>4, <1>8 DEF SlicesOK
  <2>3. Mind(t, w)
    BY <1>1, <1>2, <2>1 DEF Mind
  <2> QED
    BY <1>2, <1>3, <1>4, <1>5, <1>6, <2>1, <2>2, <2>3, WorkKeeps
<1>9. CASE ~(w.next > Len(txs))
  <2>1. PICK q : q = [w EXCEPT !.next = @ + 1, !.left = @ - 1]
    OBVIOUS
  <2>2. PICK tx : tx = txs[w.next]
    OBVIOUS
  <2>3. PICK a : a = (IF C THEN "take" ELSE "types")
    OBVIOUS
  <2>4. main' = main /\ w.next \in 1..Len(txs)
    BY <1>2, <1>3, <1>4, <1>9 DEF Take, SlicesOK
  <2>5. tx \in Tx
    BY <2>2, <2>4
  <2>6. /\ q \in WorkerOf(G) /\ q.next = w.next + 1 /\ q.left = w.left - 1
        /\ q.at = "take" /\ q.inside = FALSE /\ q.batch = w.batch
    <3>1. w.next + 1 \in Nat /\ w.left - 1 \in 0..(SizeT - 1)
      BY <1>3, <1>4, WorkerFields, StatisticsAssumption
    <3> QED
      BY <1>3, <1>6, <2>1, <3>1 DEF WorkerOf
  <2>7. CASE Mind(t, q) /\ UNCHANGED <<sums, lost>>
    <3>1. /\ q.next >= w.next /\ q.next + q.left <= w.next + w.left
          /\ LockOf(q, t, lock') /\ q.at # "none"
      BY <1>4, <1>6, <2>6
    <3> QED
      BY <1>2, <1>3, <1>5, <2>4, <2>6, <2>7, <3>1, WorkKeeps
  <2>8. CASE /\ Mind(t, [q EXCEPT !.batch = @ \cup {tx}, !.at = a])
             /\ sums' = Added(sums, call.filter, tx)
             /\ lost' = lost \/ lost' = [lost EXCEPT !["days"] = @ \cup {tx}]
    <3>1. PICK T : T = q.batch \cup {tx}
      OBVIOUS
    <3>2. PICK v : v = [q EXCEPT !.batch = T, !.at = a]
      OBVIOUS
    <3>3. T \in SUBSET Tx /\ a \in Labels /\ a \in {"take", "types"}
      BY <1>4, <2>3, <2>5, <2>6, <3>1 DEF Labels, Maps
    <3>4. /\ v \in WorkerOf(G) /\ v.next = q.next /\ v.left = q.left
          /\ v.at = a /\ v.inside = FALSE
      BY <2>6, <3>2, <3>3 DEF WorkerOf
    <3>5. Mind(t, v)
      BY <2>8, <3>1, <3>2
    <3>6. sums' \in Sums
      BY <1>7, <2>5, <2>8, AddedSums
    <3>7. /\ v.next >= w.next /\ v.next + v.left <= w.next + w.left
          /\ v.at # "none"
      BY <1>4, <2>6, <3>3, <3>4
    <3>8. LockOf(v, t, lock')
      BY <1>5, <1>6, <3>4 DEF LockOf
    <3>9. lost' \in LostMaps
      BY <2>5, <2>8 DEF LostMaps, Maps
    <3> QED
      BY <1>2, <1>3, <1>5, <2>4, <3>4, <3>5, <3>6, <3>7, <3>8, <3>9, WorkKeeps
  <2> QED
    BY <1>2, <1>9, <2>1, <2>2, <2>3, <2>7, <2>8 DEF Take
<1> QED
  BY <1>8, <1>9

LEMMA FinishKeeps ==
  ASSUME Inductive, NEW t \in Threads, Finish(t)
  PROVE  Inductive'
<1> USE InductiveWorkers DEF InParts
<1>1. PICK G : worker \in [Threads -> WorkerOf(G)]
  OBVIOUS
<1>2. PICK w : w = worker[t]
  OBVIOUS
<1>3. w \in WorkerOf(G) /\ w.at = "take"
  BY <1>1, <1>2 DEF Finish
<1>4. PICK a : a = (IF C THEN "types" ELSE "end")
  OBVIOUS
<1>5. PICK v : v = [w EXCEPT !.at = a]
  OBVIOUS
<1>6. /\ v \in WorkerOf(G) /\ v.next = w.next /\ v.left = w.left
      /\ v.at = a /\ v.inside = w.inside
  BY <1>3, <1>4, <1>5 DEF WorkerOf, Labels, Maps
<1>7. v.next >= w.next /\ v.next + v.left <= w.next + w.left /\ v.at # "none"
  BY <1>3, <1>4, <1>6, WorkerFields, StatisticsAssumption
<1>8. w.inside = FALSE /\ \A m \in Maps : lock[m] # t
  BY <1>2, <1>3 DEF LockOf, Maps, WorkerOf
<1>9. UNCHANGED <<call, main, txs, lock, sums, lost>> /\ Mind(t, v)
  BY <1>2, <1>4, <1>5 DEF Finish
<1>10. LockOf(v, t, lock')
  BY <1>6, <1>8, <1>9 DEF LockOf
<1> QED
  BY <1>2, <1>3, <1>6, <1>7, <1>9, <1>10, WorkKeeps

LEMMA AcquireKeeps ==
  ASSUME Inductive, NEW t \in Threads, Acquire(t)
  PROVE  Inductive'
<1> USE InductiveWorkers DEF InParts
<1>1. PICK G : worker \in [Threads -> WorkerOf(G)]
  OBVIOUS
<1>2. PICK w : w = worker[t]
  OBVIOUS
<1>3. PICK m : m = w.at
  OBVIOUS
<1>4. /\ w \in WorkerOf(G) /\ m \in Maps /\ m \notin {"none", "end"}
      /\ lock[m] = Free
  BY <1>1, <1>2, <1>3 DEF Acquire, Maps
<1>5. PICK h : h = maps[m]
  OBVIOUS
<1>6. PICK v : v = [w EXCEPT !.inside = TRUE, !.held = h]
  OBVIOUS
<1>7. /\ v \in WorkerOf({h}) /\ v.next = w.next /\ v.left = w.left
      /\ v.at = m /\ v.inside = TRUE
  BY <1>3, <1>4, <1>6 DEF WorkerOf
<1>8. v.next >= w.next /\ v.next + v.left <= w.next + w.left
  BY <1>4, <1>7, WorkerFields, StatisticsAssumption
<1>9. /\ UNCHANGED <<call, main, txs, sums, lost>> /\ Mind(t, v)
      /\ lock' = [lock EXCEPT ![m] = t]
  BY <1>2, <1>3, <1>5, <1>6 DEF Acquire
<1>10. /\ lock' \in [Maps -> Threads \cup {Free}] /\ LockOf(v, t, lock')
       /\ \A u \in Threads \ {t}, n \in Maps : lock'[n] = u <=> lock[n] = u
  <2>1. Free \notin Threads
    BY StatisticsAssumption
  <2>2. \A n \in Maps : lock[n] = t => w.at = n
    BY <1>2 DEF LockOf
  <2> QED
    BY <1>3, <1>4, <1>7, <1>9, <2>1, <2>2 DEF LockOf
<1> QED
  BY <1>2, <1>3, <1>4, <1>7, <1>8, <1>9, <1>10, WorkKeeps

LEMMA MergeKeeps ==
  ASSUME Inductive, NEW t \in Threads, Merge(t)
  PROVE  Inductive'
<1> USE InductiveWorkers DEF InParts
<1>1. PICK G : worker \in [Threads -> WorkerOf(G)]
  OBVIOUS
<1>2. PICK w : w = worker[t]
  OBVIOUS
<1>3. PICK m : m = w.at
  OBVIOUS
<1>4. /\ w \in WorkerOf(G) /\ m \in Maps /\ m \notin {"none", "end"}
      /\ w.inside
  BY <1>1, <1>2, <1>3 DEF Merge, Maps
<1>5. PICK a : a = After(t)
  OBVIOUS
<1>6. a \in Labels /\ a # "none" /\ a # m
  BY <1>2, <1>3, <1>4, <1>5 DEF After, Maps, Labels
<1>7. PICK T : T = (IF a \in {"take", "end"} THEN {} ELSE w.batch)
  OBVIOUS
<1>8. T \in SUBSET Tx
  BY <1>4, <1>7, WorkerFields
<1>9. PICK v : v = [w EXCEPT !.at = a, !.inside = FALSE, !.held = <<>>,
                             !.batch = T]
  OBVIOUS
<1>10. /\ v \in WorkerOf({<<>>}) /\ v.next = w.next /\ v.left = w.left
       /\ v.at = a /\ v.inside = FALSE
  BY <1>4, <1>6, <1>8, <1>9 DEF WorkerOf
<1>11. v.next >= w.next /\ v.next + v.left <= w.next + w.left
  BY <1>4, <1>10, WorkerFields, StatisticsAssumption
<1>12. /\ UNCHANGED <<call, main, txs, sums>> /\ Mind(t, v)
       /\ lock' = [lock EXCEPT ![m] = Free]
  BY <1>2, <1>3, <1>5, <1>7, <1>9 DEF Merge
<1>13. /\ lock' \in [Maps -> Threads \cup {Free}] /\ LockOf(v, t, lock')
       /\ \A u \in Threads \ {t}, n \in Maps : lock'[n] = u <=> lock[n] = u
  <2>1. Free \notin Threads
    BY StatisticsAssumption
  <2>2. lock[m] = t /\ \A n \in Maps : lock[n] = t => n = m
    BY <1>2, <1>3, <1>4 DEF LockOf
  <2>3. \A n \in Maps : lock'[n] # t
    BY <1>4, <1>12, <2>1, <2>2
  <2> QED
    BY <1>4, <1>10, <1>12, <2>1, <2>2, <2>3 DEF LockOf
<1>14. lost' \in LostMaps
  <2>1. \E gone \in Dropped(t) :
          lost' = [lost EXCEPT ![worker[t].at] = @ \cup
                    {tx \in worker[t].batch : KeyOf(worker[t].at, tx) \in gone}]
    BY DEF Merge
  <2>2. w.batch \subseteq Tx
    BY <1>4, WorkerFields
  <2> QED
    BY <1>2, <1>3, <1>4, <2>1, <2>2 DEF LostMaps
<1> QED
  BY <1>2, <1>3, <1>4, <1>6, <1>10, <1>11, <1>12, <1>13, <1>14, WorkKeeps

(***************************************************************************)
(* The caller.                                                             *)
(***************************************************************************)

\* A step back to the client, from where no thread runs.
LEMMA ReturnKeeps ==
  ASSUME Inductive, main # "idle", NEW value, Return(value), lost' \in LostMaps,
         \A t \in Threads : worker[t].at \in {"none", "end"}
  PROVE  Inductive'
<1> USE InductiveWorkers, InductiveWorkersNext DEF InParts
<1>1. main' = "idle" /\ txs' = <<>> /\ UNCHANGED <<call, worker, lock, sums>>
  BY DEF Return
<1>2. CallOK' /\ ThreadsOK' /\ SpawnOK' /\ CrashOK'
  BY <1>1 DEF CallOK, ThreadsOK, SpawnOK, CrashOK
<1>3. ListOK'
  BY <1>1, StatisticsAssumption DEF ListOK
<1>4. SlicesOK'
  BY <1>1 DEF SlicesOK
<1>5. txs' \in Seq(Tx) /\ \A t \in Threads : LockOf(worker[t], t, lock)'
  BY <1>1 DEF LockOf
<1> QED
  BY <1>1, <1>2, <1>3, <1>4, <1>5

LEMMA AskKeeps ==
  ASSUME Inductive, Ask
  PROVE  Inductive'
<1> USE InductiveWorkers, InductiveWorkersNext DEF InParts
<1>1. /\ main' = "gather" /\ call' \in Calls /\ txs' = <<>>
      /\ worker' = [t \in Threads |-> NoWorker]
      /\ lock' = [m \in Maps |-> Free] /\ sums' = NoSums
      /\ lost' = NoneShort
  BY DEF Ask, ListOK
<1>2. NoWorker \in WorkerOf({<<>>}) /\ NoWorker.at = "none"
      /\ NoWorker.inside = FALSE
  BY StatisticsAssumption DEF NoWorker, WorkerOf, Labels
<1>3. NoSums \in Sums /\ NoneShort \in LostMaps
  BY NoSumsTyped DEF NoneShort, LostMaps
<1>4. CallOK' /\ ThreadsOK' /\ SpawnOK' /\ CrashOK' /\ SlicesOK'
  BY <1>1, <1>2 DEF CallOK, ThreadsOK, SpawnOK, CrashOK, SlicesOK
<1>5. ListOK'
  BY <1>1, StatisticsAssumption DEF ListOK
<1>6. /\ worker' \in [Threads -> WorkerOf({<<>>})]
      /\ lock' \in [Maps -> Threads \cup {Free}]
      /\ \A t \in Threads : LockOf(worker[t], t, lock)'
  BY <1>1, <1>2, StatisticsAssumption DEF LockOf, Maps
<1> QED
  BY <1>1, <1>3, <1>4, <1>5, <1>6

LEMMA GatherKeeps ==
  ASSUME Inductive, Gather
  PROVE  Inductive'
<1> USE InductiveWorkers, InductiveWorkersNext DEF InParts
<1>1. /\ main = "gather" /\ call \in Calls
      /\ \A t \in Threads : worker[t].at = "none"
      /\ UNCHANGED <<call, worker, lock, sums, lost>> /\ txs' \in Deduped
  BY DEF Gather, CallOK, ThreadsOK
<1>2. PICK s : s = txs'
  OBVIOUS
<1>3. s \in Seq(Tx) /\ Len(s) < SizeT /\ Len(s) \in Nat
  BY <1>1, <1>2, DedupedRows
<1>4. Started(Len(s)) \in Nat
  BY <1>1, <1>3, ShareOK
<1>5. main' = IF Started(Len(s)) = 0 THEN "join" ELSE "spawn"
  BY <1>2 DEF Gather
<1>6. Started(Len(txs))' = Started(Len(s))
  BY <1>1, <1>2 DEF Started, ThreadsFor, ChunkFor, C
<1>7. CallOK' /\ ThreadsOK' /\ CrashOK' /\ SlicesOK'
  BY <1>1, <1>5 DEF CallOK, ThreadsOK, CrashOK, SlicesOK
<1>8. ListOK'
  BY <1>2, <1>3, <1>4, <1>5, <1>6 DEF ListOK
<1>9. SpawnOK'
  <2>1. Cardinality(Threads) \in Nat
    BY StatisticsAssumption, FS_CardinalityType
  <2>2. \A t \in Threads : worker[t].at # "none" <=> t <= 0
    BY <1>1, <2>1, StatisticsAssumption
  <2> QED
    BY <1>1, <1>4, <1>5, <1>6, <2>1, <2>2 DEF SpawnOK
<1>10. \A t \in Threads : LockOf(worker[t], t, lock)'
  BY <1>1 DEF LockOf
<1> QED
  BY <1>1, <1>2, <1>3, <1>5, <1>7, <1>8, <1>9, <1>10

LEMMA SpawnFailsKeeps ==
  ASSUME Inductive, SpawnFails
  PROVE  Inductive'
<1> USE InductiveWorkers, InductiveWorkersNext DEF InParts
<1>1. /\ main = "spawn" /\ main' = "abandon"
      /\ UNCHANGED <<call, txs, worker, lock, sums, lost>>
  BY DEF SpawnFails
<1>2. CallOK' /\ ListOK' /\ ThreadsOK' /\ SpawnOK' /\ SlicesOK' /\ CrashOK'
  BY <1>1 DEF CallOK, ListOK, ThreadsOK, SpawnOK, SlicesOK, CrashOK
<1>3. \A t \in Threads : LockOf(worker[t], t, lock)'
  BY <1>1 DEF LockOf
<1> QED
  BY <1>1, <1>2, <1>3

LEMMA JoinedQuiet ==
  Joined => \A t \in Threads : worker[t].at \in {"none", "end"}
BY DEF Joined, Running

LEMMA JoinKeeps ==
  ASSUME Inductive, Join
  PROVE  Inductive'
<1>1. main = "join" /\ \A t \in Threads : worker[t].at \in {"none", "end"}
  BY JoinedQuiet DEF Join
<1>2. CASE Return(Collected([sums |-> sums, maps |-> maps])) /\ UNCHANGED lost
  BY <1>1, <1>2, ReturnKeeps, InductiveWorkers DEF InParts
<1>3. CASE main' = "categorise" /\ UNCHANGED <<call, txs, worker, lock, sums, lost>>
  <2> USE InductiveWorkers, InductiveWorkersNext DEF InParts
  <2>1. CallOK' /\ ListOK' /\ ThreadsOK' /\ SpawnOK' /\ SlicesOK' /\ CrashOK'
    BY <1>1, <1>3
       DEF CallOK, ListOK, ThreadsOK, SpawnOK, SlicesOK, CrashOK
  <2>2. \A t \in Threads : LockOf(worker[t], t, lock)'
    BY <1>3 DEF LockOf
  <2> QED
    BY <1>3, <2>1, <2>2
<1> QED
  BY <1>2, <1>3 DEF Join

LEMMA SpawnKeeps ==
  ASSUME Inductive, Spawn
  PROVE  Inductive'
<1> USE InductiveWorkers, InductiveWorkersNext DEF InParts
<1>1. /\ main = "spawn" /\ call \in Calls /\ txs \in Seq(Tx)
      /\ UNCHANGED <<call, txs, lock, sums, lost>>
  BY DEF Spawn, CallOK
<1>2. PICK n : n = Len(txs)
  OBVIOUS
<1>3. n \in Nat /\ n < SizeT
  BY <1>1, <1>2 DEF ListOK
<1>4. PICK N : N = Cardinality(Threads)
  OBVIOUS
<1>5. N \in Nat /\ Threads = 1..N
  BY <1>4, StatisticsAssumption, FS_CardinalityType
<1>6. PICK k \in 0..N : /\ k < Started(n)
                        /\ \A t \in Threads : worker[t].at # "none" <=> t <= k
  BY <1>1, <1>2, <1>4 DEF SpawnOK
<1>7. Cardinality(Running) = k
  <2>1. Running = 1..k
    BY <1>5, <1>6 DEF Running
  <2>2. k \in Int /\ 1 \in Int
    OBVIOUS
  <2>3. Cardinality(1..k) = IF 1 > k THEN 0 ELSE k - 1 + 1
    BY <2>2, FS_Interval
  <2> QED
    BY <2>1, <2>3
<1>8. PICK c : c = ChunkFor(n)
  OBVIOUS
<1>9. c \in 1..(SizeT - 1) /\ Started(n) \in Nat
  BY <1>1, <1>3, <1>8, ShareOK
<1>10. PICK s : s = IF k + 1 = Started(n) THEN (n - k * c) % SizeT ELSE c
  OBVIOUS
<1>11. s \in 0..(SizeT - 1) /\ k * c \in Nat
  <2>1. k * c \in Nat /\ k * c \in Int
    BY <1>9, Multiples
  <2>2. n - k * c \in Int
    BY <1>3, <2>1
  <2> QED
    BY <1>9, <1>10, <2>1, <2>2, StatisticsAssumption
<1>12. n # 0 => k * c + 1 + s <= n + 1
  <2> SUFFICES ASSUME n # 0
               PROVE  k * c + 1 + s <= n + 1
    OBVIOUS
  <2>1. /\ k + 1 = Started(n) => n - k * c \in 0..n
        /\ k + 1 # Started(n) => k * c + c <= n
    BY <1>1, <1>3, <1>6, <1>8, SlicesFit
  <2>2. n - k * c \in 0..n => (n - k * c) % SizeT = n - k * c
    <3>1. PICK a : a = n - k * c
      OBVIOUS
    <3>2. SizeT \in Nat \ {0} /\ n \in Nat /\ n < SizeT
      BY <1>3, StatisticsAssumption
    <3>3. ASSUME a \in 0..n
          PROVE  a % SizeT = a
      <4>1. a \in Nat /\ a < SizeT
        BY <3>2, <3>3
      <4> QED
        BY <3>2, <4>1, Remainder
    <3> QED
      BY <3>1, <3>3
  <2> QED
    BY <1>3, <1>9, <1>10, <1>11, <2>1, <2>2
<1>13. PICK w : w = [NoWorker EXCEPT !.at = "take", !.next = k * c + 1,
                                     !.left = s]
  OBVIOUS
<1>14. /\ w \in WorkerOf({<<>>}) /\ w.at = "take" /\ w.next = k * c + 1
       /\ w.left = s /\ w.inside = FALSE
  <2>1. NoWorker \in WorkerOf({<<>>}) /\ NoWorker.inside = FALSE
    BY StatisticsAssumption DEF NoWorker, WorkerOf, Labels
  <2>2. k * c + 1 \in Nat /\ "take" \in Labels
    BY <1>11 DEF Labels
  <2> QED
    BY <1>11, <1>13, <2>1, <2>2 DEF WorkerOf
<1>15. /\ worker' = [worker EXCEPT ![k + 1] = w]
       /\ main' = IF k + 1 = Started(n) THEN "join" ELSE main
  BY <1>2, <1>7, <1>8, <1>10, <1>13 DEF Spawn
<1>16. PICK G : worker \in [Threads -> WorkerOf(G)]
  OBVIOUS
<1>17. \A t \in Threads : worker'[t] = IF t = k + 1 THEN w ELSE worker[t]
  BY <1>15, <1>16
<1>18. worker' \in [Threads -> WorkerOf(G \cup {<<>>})]
  <2>1. WorkerOf(G) \subseteq WorkerOf(G \cup {<<>>})
        /\ WorkerOf({<<>>}) \subseteq WorkerOf(G \cup {<<>>})
    BY DEF WorkerOf
  <2> QED
    BY <1>14, <1>15, <1>16, <1>17, <2>1
<1>19. \A t \in Threads : LockOf(worker[t], t, lock)'
  <2> SUFFICES ASSUME NEW t \in Threads
               PROVE  LockOf(worker'[t], t, lock')
    BY DEF LockOf
  <2>1. CASE t # k + 1
    BY <1>1, <1>17, <2>1
  <2>2. CASE t = k + 1
    <3>1. worker[t].at = "none"
      BY <1>5, <1>6, <2>2
    <3>2. \A m \in Maps : lock[m] # t
      BY <3>1 DEF LockOf, Maps
    <3> QED
      BY <1>1, <1>14, <1>17, <2>2, <3>2 DEF LockOf, Maps
  <2> QED
    BY <2>1, <2>2
<1>20. Started(Len(txs))' = Started(n)
  BY <1>1, <1>2 DEF Started, ThreadsFor, ChunkFor, C
<1>21. CallOK' /\ ListOK' /\ ThreadsOK' /\ CrashOK'
  BY <1>1, <1>2, <1>3, <1>6, <1>9, <1>15, <1>20
     DEF CallOK, ListOK, ThreadsOK, CrashOK
<1>22. SlicesOK'
  <2> SUFFICES ASSUME NEW t \in Threads, worker'[t].at # "none"
               PROVE  /\ worker'[t].next >= 1
                      /\ txs # <<>> =>
                           worker'[t].next + worker'[t].left <= n + 1
    BY <1>1, <1>2 DEF SlicesOK
  <2>1. CASE t # k + 1
    BY <1>2, <1>17, <2>1 DEF SlicesOK
  <2>2. CASE t = k + 1
    <3>1. txs # <<>> => n # 0
      BY <1>1, <1>2
    <3> QED
      BY <1>11, <1>12, <1>14, <1>17, <2>2, <3>1
  <2> QED
    BY <2>1, <2>2
<1>23. SpawnOK'
  <2> SUFFICES ASSUME main' = "spawn"
               PROVE  \E j \in 0..N :
                        /\ j < Started(n)
                        /\ \A t \in Threads :
                             worker'[t].at # "none" <=> t <= j
    BY <1>4, <1>20 DEF SpawnOK
  <2>1. k + 1 < Started(n)
    BY <1>6, <1>9, <1>15
  <2>2. CASE k = N
    <3>1. \A t \in Threads : worker'[t].at # "none" <=> t <= N
      BY <1>5, <1>6, <1>17, <2>2
    <3> QED
      BY <1>5, <1>6, <2>2, <3>1
  <2>3. CASE k # N
    <3>1. k + 1 \in 0..N
      BY <1>5, <2>3
    <3>2. \A t \in Threads : worker'[t].at # "none" <=> t <= k + 1
      BY <1>5, <1>6, <1>14, <1>17
    <3> QED
      BY <2>1, <3>1, <3>2
  <2> QED
    BY <2>2, <2>3
<1> QED
  BY <1>1, <1>15, <1>18, <1>19, <1>21, <1>22, <1>23

(***************************************************************************)
(* What the threads keep to, whatever the figures are.                     *)
(***************************************************************************)

LEMMA InductiveInit == Init => Inductive
<1> SUFFICES ASSUME Init
             PROVE  Inductive
  OBVIOUS
<1> USE InductiveWorkers DEF InParts
<1>1. /\ main = "idle" /\ call = NoCall /\ txs = <<>> /\ sums = NoSums
      /\ lost = NoneShort
      /\ worker = [t \in Threads |-> NoWorker]
      /\ lock = [m \in Maps |-> Free]
  BY DEF Init
<1>2. NoWorker \in WorkerOf({<<>>}) /\ NoWorker.at = "none"
      /\ NoWorker.inside = FALSE
  BY StatisticsAssumption DEF NoWorker, WorkerOf, Labels
<1>3. NoSums \in Sums /\ NoneShort \in LostMaps
  BY NoSumsTyped DEF NoneShort, LostMaps
<1>4. CallOK /\ ThreadsOK /\ SpawnOK /\ CrashOK /\ SlicesOK
  BY <1>1, <1>2 DEF CallOK, ThreadsOK, SpawnOK, CrashOK, SlicesOK
<1>5. ListOK
  BY <1>1, StatisticsAssumption DEF ListOK
<1>6. /\ worker \in [Threads -> WorkerOf({<<>>})]
      /\ lock \in [Maps -> Threads \cup {Free}]
      /\ \A t \in Threads : LockOf(worker[t], t, lock)
  BY <1>1, <1>2, StatisticsAssumption DEF LockOf, Maps
<1> QED
  BY <1>1, <1>3, <1>4, <1>5, <1>6

\* What the second pass stops short of are rows.
LEMMA PaidLost ==
  ASSUME Inductive, Categorise
  PROVE  lost' \in LostMaps
<1>1. lost \in LostMaps /\ txs \in Seq(Tx)
  BY InductiveWorkers DEF InParts
<1>2. PICK R \in SUBSET (1..Len(txs)) :
        lost' = [lost EXCEPT !["categories"] = {txs[i] : i \in R}]
  <2>1. PICK n \in 0..Len(txs) :
          lost' = [lost EXCEPT !["categories"] =
                    {txs[i] : i \in
                       {j \in (n + 1)..Len(txs) :
                          /\ Passes(call.filter, txs[j])
                          /\ Into("categories", txs[j])}}]
    BY DEF Categorise
  <2>2. PICK R : R = {j \in (n + 1)..Len(txs) :
                       /\ Passes(call.filter, txs[j])
                       /\ Into("categories", txs[j])}
    OBVIOUS
  <2>3. R \in SUBSET (1..Len(txs))
    BY <1>1, <2>2
  <2> QED
    BY <2>1, <2>2, <2>3
<1>3. {txs[i] : i \in R} \subseteq Tx
  <2>1. \A i \in R : txs[i] \in Tx
    BY <1>1, <1>2
  <2> QED
    BY <2>1
<1> QED
  BY <1>1, <1>2, <1>3 DEF LostMaps

LEMMA InductiveNext == Inductive /\ [Next]_vars => Inductive'
<1> SUFFICES ASSUME Inductive, [Next]_vars
             PROVE  Inductive'
  OBVIOUS
<1>1. CASE Ask
  BY <1>1, AskKeeps
<1>2. CASE Gather
  BY <1>2, GatherKeeps
<1>3. CASE GatherFails
  <2>1. main = "gather" /\ Return(Failed) /\ lost' \in LostMaps
    BY <1>3, InductiveWorkers DEF GatherFails, InParts
  <2>2. \A t \in Threads : worker[t].at \in {"none", "end"}
    BY <2>1 DEF Inductive, ThreadsOK
  <2> QED
    BY <2>1, <2>2, ReturnKeeps
<1>4. CASE Spawn
  BY <1>4, SpawnKeeps
<1>5. CASE SpawnFails
  BY <1>5, SpawnFailsKeeps
<1>6. CASE Abandon
  <2>1. main = "abandon" /\ Joined /\ Return(Failed) /\ lost' \in LostMaps
    BY <1>6, InductiveWorkers DEF Abandon, InParts
  <2> QED
    BY <2>1, JoinedQuiet, ReturnKeeps
<1>7. CASE Join
  BY <1>7, JoinKeeps
<1>8. CASE Categorise
  <2>1. main = "categorise" /\ \E value : Return(value)
    BY <1>8 DEF Categorise
  <2>3. lost' \in LostMaps
    BY <1>8, PaidLost
  <2>2. \A t \in Threads : worker[t].at \in {"none", "end"}
    BY <2>1 DEF Inductive, ThreadsOK
  <2> QED
    BY <2>1, <2>2, <2>3, ReturnKeeps
<1>9. ASSUME NEW t \in Threads, Work(t)
      PROVE  Inductive'
  BY <1>9, TakeKeeps, FinishKeeps, AcquireKeeps, MergeKeeps DEF Work
<1>10. CASE UNCHANGED vars
  <2>1. UNCHANGED <<call, main, txs, worker, lock, sums, lost>>
    BY <1>10 DEF vars
  <2>2. TypeOK' /\ WorkersOK' /\ LocksOK'
    BY <2>1 DEF Inductive, TypeOK, WorkersOK, LocksOK
  <2>3. Started(Len(txs))' = Started(Len(txs))
    BY <2>1 DEF Started, ThreadsFor, ChunkFor, C
  <2>4. CallOK' /\ ListOK' /\ ThreadsOK' /\ SpawnOK' /\ SlicesOK' /\ CrashOK'
    BY <2>1, <2>3
       DEF Inductive, CallOK, ListOK, ThreadsOK, SpawnOK, SlicesOK, CrashOK
  <2> QED
    BY <2>2, <2>4 DEF Inductive
<1> QED
  BY <1>1, <1>2, <1>3, <1>4, <1>5, <1>6, <1>7, <1>8, <1>9, <1>10
     DEF Next, Caller

\* What makes the rest hold: in every state of every schedule the threads, the
\* mutexes, the list and the slices agree with where the caller is.
THEOREM InductiveHolds == Spec => []Inductive
<1> QED
  BY InductiveInit, InductiveNext, PTL DEF Spec

\* compute_user_statistics and compute_user_statistics_extended keep the types
\* of what they share; a thread holds a mutex exactly when it merges into the
\* map the mutex is of.
THEOREM TypeCorrect == Spec => []TypeOK
<1>1. Inductive => TypeOK
  BY DEF Inductive
<1> QED
  BY <1>1, InductiveHolds, PTL

\* No thread is at work once its caller has gone on to free the list, the
\* arguments and the shared figures: every path joins first.
THEOREM NoUseAfterFreeHolds == Spec => []NoUseAfterFree
<1>1. Inductive => NoUseAfterFree
  <2> SUFFICES ASSUME Inductive, NEW t \in Threads,
                      worker[t].at \notin {"none", "end"}
               PROVE  main \in {"spawn", "join", "abandon", "crashed"}
    BY DEF NoUseAfterFree
  <2> QED
    BY DEF Inductive, TypeOK, ThreadsOK
<1> QED
  BY <1>1, InductiveHolds, PTL

\* No worker reads outside a list that has an entry: the slices of any number
\* of transactions over any number of processors lie within it.  What is left
\* of NeverCrashes is the empty list.
THEOREM CrashesOnlyEmpty == Spec => [](txs # <<>> => main # "crashed")
<1>1. Inductive => (txs # <<>> => main # "crashed")
  BY DEF Inductive, CrashOK
<1> QED
  BY <1>1, InductiveHolds, PTL

(***************************************************************************)
(* The figures of a set of transactions, and of one or more besides.       *)
(***************************************************************************)

\* A sum with one weight more.
LEMMA SumGrows ==
  ASSUME NEW S, NEW x, x \notin S, NEW u, NEW w, DOMAIN u = S,
         DOMAIN w = S \cup {x}, Alike(u, w, S), Weighs(w, S \cup {x})
  PROVE  SumFunction(w) = SumFunction(u) + w[x]
<1>1. /\ SumFunctionOnSet(w, S \cup {x}) = SumFunctionOnSet(w, S) + w[x]
      /\ Weighs(w, S)
  BY SumOneMore
<1>2. SumFunctionOnSet(u, S) = SumFunctionOnSet(w, S)
  BY <1>1, SumAlike
<1> QED
  BY <1>1, <1>2 DEF SumFunction

LEMMA SumUnites ==
  ASSUME NEW S, NEW T, S \cap T = {}, NEW u, NEW v, NEW w, DOMAIN u = S,
         DOMAIN v = T, DOMAIN w = S \cup T, Alike(u, w, S), Alike(v, w, T),
         Weighs(w, S \cup T)
  PROVE  /\ SumFunction(w) = SumFunction(u) + SumFunction(v)
         /\ SumFunction(u) \in Int /\ SumFunction(v) \in Int
<1>1. /\ SumFunctionOnSet(w, S \cup T)
           = SumFunctionOnSet(w, S) + SumFunctionOnSet(w, T)
      /\ Weighs(w, S) /\ Weighs(w, T)
  BY SumJoins
<1>2. /\ SumFunctionOnSet(u, S) = SumFunctionOnSet(w, S)
      /\ SumFunctionOnSet(v, T) = SumFunctionOnSet(w, T)
  BY <1>1, SumAlike
<1>3. SumFunctionOnSet(w, S) \in Int /\ SumFunctionOnSet(w, T) \in Int
  BY <1>1, SumType
<1> QED
  BY <1>1, <1>2, <1>3 DEF SumFunction

LEMMA TxFields ==
  ASSUME NEW tx \in Tx, NEW f
  PROVE  /\ NetFor(f, tx) \in Int /\ tx.row.value \in Nat
         /\ \A m : AmountOf(m, f, tx) \in Int
<1>1. tx.row.value \in Nat
  BY PostingAssumption DEF Tx, Row
<1>2. NetFor(f, tx) \in Int
  BY <1>1 DEF NetFor
<1> QED
  BY <1>1, <1>2 DEF AmountOf

\* The figures over the transactions S that are counted, A of them gains and B
\* losses.
CountedIn(f, T) == {t \in T : Counted(f, t)}
GainsIn(f, S) == {t \in S : NetFor(f, t) > 0}

SumsOver(f, S, A, B) ==
  [count |-> Cardinality(S),
   incoming |-> SumFunction([t \in A |-> NetFor(f, t)]),
   outgoing |-> SumFunction([t \in B |-> -NetFor(f, t)]),
   volume |-> SumFunction([t \in S |-> Size(NetFor(f, t))])]

LEMMA SumsParts ==
  ASSUME NEW f, NEW T, NEW S, S = CountedIn(f, T)
  PROVE  SumsOf(f, T) = SumsOver(f, S, GainsIn(f, S), S \ GainsIn(f, S))
<1>1. SumsOf(f, T) = SumsOver(f, CountedIn(f, T), GainsIn(f, CountedIn(f, T)),
                              CountedIn(f, T) \ GainsIn(f, CountedIn(f, T)))
  BY DEF SumsOf, SumsOver, CountedIn, GainsIn
<1> QED
  BY <1>1

LEMMA SumsOfNone ==
  ASSUME NEW f
  PROVE  SumsOf(f, {}) = NoSums
<1>1. \A w : DOMAIN w = {} => SumFunction(w) = 0
  BY SumNone DEF SumFunction
<1>2. PICK none : none = {}
  OBVIOUS
<1>3. none = CountedIn(f, none) /\ GainsIn(f, none) = none /\ none \ none = none
  BY <1>2 DEF CountedIn, GainsIn
<1>4. SumsOf(f, none) = SumsOver(f, none, none, none)
  BY <1>3, SumsParts
<1>5. Cardinality(none) = 0
  BY <1>2, FS_EmptySet
<1>6. /\ SumFunction([t \in none |-> NetFor(f, t)]) = 0
      /\ SumFunction([t \in none |-> -NetFor(f, t)]) = 0
      /\ SumFunction([t \in none |-> Size(NetFor(f, t))]) = 0
  BY <1>1, <1>2
<1> QED
  BY <1>2, <1>4, <1>5, <1>6 DEF SumsOver, NoSums

\* A transaction that is left out changes nothing, one that is counted is
\* added.
LEMMA SumsOfSkipped ==
  ASSUME NEW f, NEW T, NEW tx, ~Counted(f, tx)
  PROVE  SumsOf(f, T \cup {tx}) = SumsOf(f, T)
<1>1. {t \in T \cup {tx} : Counted(f, t)} = {t \in T : Counted(f, t)}
  OBVIOUS
<1> QED
  BY <1>1 DEF SumsOf

\* The sums and the count of one more, before they wrap around.
Grown(s, f, t) ==
  LET net == NetFor(f, t)
  IN [count |-> s.count + 1,
      incoming |-> s.incoming + (IF net > 0 THEN net ELSE 0),
      outgoing |-> s.outgoing + (IF net < 0 THEN -net ELSE 0),
      volume |-> s.volume + Size(net)]

LEMMA SumsOfOneMore ==
  ASSUME NEW f, NEW T \in SUBSET Tx, IsFiniteSet(T), NEW tx \in Tx,
         tx \notin T, Counted(f, tx)
  PROVE  SumsOf(f, T \cup {tx}) = Grown(SumsOf(f, T), f, tx)
<1> DEFINE K(X) == CountedIn(f, X)
           G(X) == GainsIn(f, X)
<1> USE DEF CountedIn, GainsIn
<1>1. PICK S, n : S = K(T) /\ n = NetFor(f, tx)
  OBVIOUS
<1>2. /\ K(T \cup {tx}) = S \cup {tx} /\ tx \notin S /\ S \in SUBSET Tx
      /\ IsFiniteSet(S) /\ IsFiniteSet(S \cup {tx})
  <2>1. IsFiniteSet(S)
    BY <1>1, FS_Subset
  <2> QED
    BY <1>1, <2>1, FS_AddElement
<1>3. n \in Int /\ \A t \in S : NetFor(f, t) \in Int
  BY <1>1, <1>2, TxFields
<1>4. SumsOf(f, T) = SumsOver(f, S, G(S), S \ G(S))
  <2> HIDE DEF CountedIn, GainsIn
  <2> QED
    BY <1>1, SumsParts
<1> DEFINE U == S \cup {tx}
<1>5. SumsOf(f, T \cup {tx}) = SumsOver(f, U, G(U), U \ G(U))
  <2>1. U = K(T \cup {tx})
    BY <1>2
  <2> HIDE DEF CountedIn, GainsIn, U
  <2> QED
    BY <2>1, SumsParts
<1>6. Cardinality(U) = Cardinality(S) + 1
  BY <1>2, FS_AddElement
<1>7. SumFunction([t \in U |-> Size(NetFor(f, t))])
        = SumFunction([t \in S |-> Size(NetFor(f, t))]) + Size(n)
  <2>1. PICK u, w : /\ u = [t \in S |-> Size(NetFor(f, t))]
                    /\ w = [t \in U |-> Size(NetFor(f, t))]
    OBVIOUS
  <2>2. /\ DOMAIN u = S /\ DOMAIN w = S \cup {tx} /\ Alike(u, w, S)
        /\ w[tx] = Size(n)
    BY <1>1, <2>1 DEF Alike
  <2>3. Weighs(w, S \cup {tx})
    BY <1>1, <1>2, <1>3, <2>1 DEF Weighs, Size
  <2> QED
    BY <1>2, <2>1, <2>2, <2>3, SumGrows
<1>8. SumFunction([t \in G(U) |-> NetFor(f, t)])
        = SumFunction([t \in G(S) |-> NetFor(f, t)])
            + (IF n > 0 THEN n ELSE 0)
  <2>1. PICK A, B : A = G(S) /\ B = G(U)
    OBVIOUS
  <2>2. PICK u, w : /\ u = [t \in A |-> NetFor(f, t)]
                    /\ w = [t \in B |-> NetFor(f, t)]
    OBVIOUS
  <2>3. A \in SUBSET S /\ IsFiniteSet(A) /\ IsFiniteSet(A \cup {tx}) /\ tx \notin A
    <3>1. A \in SUBSET S
      BY <2>1
    <3> QED
      BY <1>2, <3>1, FS_Subset, FS_AddElement
  <2>4. CASE n > 0
    <3>1. B = A \cup {tx}
      BY <1>1, <1>3, <2>1, <2>4
    <3>2. /\ DOMAIN u = A /\ DOMAIN w = A \cup {tx} /\ Alike(u, w, A)
          /\ w[tx] = n
      BY <1>1, <2>2, <3>1 DEF Alike
    <3>3. Weighs(w, A \cup {tx})
      BY <1>1, <1>3, <2>2, <2>3, <3>1 DEF Weighs
    <3>4. SumFunction(w) = SumFunction(u) + w[tx]
      BY <2>3, <3>2, <3>3, SumGrows
    <3> QED
      BY <2>1, <2>2, <2>4, <3>2, <3>4
  <2>5. CASE ~(n > 0)
    <3>1. B = A
      BY <1>1, <1>3, <2>1, <2>5
    <3>2. Weighs(u, A)
      BY <1>3, <2>2, <2>3 DEF Weighs
    <3>3. SumFunction(u) \in Int
      BY <2>2, <3>2, SumType DEF SumFunction
    <3> QED
      BY <2>1, <2>2, <2>5, <3>1, <3>3
  <2> QED
    BY <2>4, <2>5
<1>9. SumFunction([t \in U \ G(U) |-> -NetFor(f, t)])
        = SumFunction([t \in S \ G(S) |-> -NetFor(f, t)])
            + (IF n < 0 THEN -n ELSE 0)
  <2>1. PICK A, B : A = S \ G(S) /\ B = U \ G(U)
    OBVIOUS
  <2>2. PICK u, w : /\ u = [t \in A |-> -NetFor(f, t)]
                    /\ w = [t \in B |-> -NetFor(f, t)]
    OBVIOUS
  <2>3. A \in SUBSET S /\ IsFiniteSet(A) /\ IsFiniteSet(A \cup {tx}) /\ tx \notin A
    <3>1. A \in SUBSET S
      BY <2>1
    <3> QED
      BY <1>2, <3>1, FS_Subset, FS_AddElement
  <2>4. CASE ~(n > 0)
    <3>1. B = A \cup {tx}
      BY <1>1, <1>2, <1>3, <2>1, <2>4
    <3>2. /\ DOMAIN u = A /\ DOMAIN w = A \cup {tx} /\ Alike(u, w, A)
          /\ w[tx] = -n
      BY <1>1, <2>2, <3>1 DEF Alike
    <3>3. Weighs(w, A \cup {tx})
      BY <1>1, <1>3, <2>2, <2>3, <3>1 DEF Weighs
    <3>4. SumFunction(w) = SumFunction(u) + w[tx]
      BY <2>3, <3>2, <3>3, SumGrows
    <3>5. -n = (IF n < 0 THEN -n ELSE 0)
      BY <1>3, <2>4
    <3> QED
      BY <2>1, <2>2, <3>2, <3>4, <3>5
  <2>5. CASE n > 0
    <3>1. B = A
      BY <1>1, <1>2, <1>3, <2>1, <2>5
    <3>2. Weighs(u, A)
      BY <1>3, <2>2, <2>3 DEF Weighs
    <3>3. SumFunction(u) \in Int
      BY <2>2, <3>2, SumType DEF SumFunction
    <3>4. (IF n < 0 THEN -n ELSE 0) = 0
      BY <1>3, <2>5
    <3> QED
      BY <2>1, <2>2, <3>1, <3>3, <3>4
  <2> QED
    BY <2>4, <2>5
<1> HIDE DEF CountedIn, GainsIn, U
<1> QED
  BY <1>1, <1>4, <1>5, <1>6, <1>7, <1>8, <1>9 DEF Grown, SumsOver

LEMMA SumsTyped ==
  ASSUME NEW f, NEW T \in SUBSET Tx, IsFiniteSet(T)
  PROVE  /\ SumsOf(f, T).count \in Int /\ SumsOf(f, T).incoming \in Int
         /\ SumsOf(f, T).outgoing \in Int /\ SumsOf(f, T).volume \in Int
<1>1. PICK S, G : S = CountedIn(f, T) /\ G = GainsIn(f, S)
  OBVIOUS
<1>2. PICK L : L = S \ G
  OBVIOUS
<1>3. S \in SUBSET T /\ G \in SUBSET T /\ L \in SUBSET T
  BY <1>1, <1>2 DEF CountedIn, GainsIn
<1>4. IsFiniteSet(S) /\ IsFiniteSet(G) /\ IsFiniteSet(L)
  BY <1>3, FS_Subset
<1>5. \A t \in T : NetFor(f, t) \in Int
  BY TxFields
<1>6. PICK u, v, w : /\ u = [t \in G |-> NetFor(f, t)]
                     /\ v = [t \in L |-> -NetFor(f, t)]
                     /\ w = [t \in S |-> Size(NetFor(f, t))]
  OBVIOUS
<1>7. Weighs(u, G) /\ Weighs(v, L) /\ Weighs(w, S)
  BY <1>3, <1>4, <1>5, <1>6 DEF Weighs, Size
<1>8. DOMAIN u = G /\ DOMAIN v = L /\ DOMAIN w = S
  BY <1>6
<1>9. SumFunction(u) \in Int /\ SumFunction(v) \in Int /\ SumFunction(w) \in Int
  BY <1>7, <1>8, SumType DEF SumFunction
<1>10. Cardinality(S) \in Int
  BY <1>4, FS_CardinalityType
<1>11. SumsOf(f, T) = SumsOver(f, S, G, L)
  BY <1>1, <1>2, SumsParts
<1> QED
  BY <1>6, <1>9, <1>10, <1>11 DEF SumsOver

LEMMA AddedOneMore ==
  ASSUME NEW f, NEW T \in SUBSET Tx, IsFiniteSet(T), NEW tx \in Tx,
         tx \notin T, Counted(f, tx)
  PROVE  Wrapped(SumsOf(f, T \cup {tx})) = Added(Wrapped(SumsOf(f, T)), f, tx)
<1>1. PICK s, net : s = SumsOf(f, T) /\ net = NetFor(f, tx)
  OBVIOUS
<1>2. /\ s.count \in Int /\ s.incoming \in Int /\ s.outgoing \in Int
      /\ s.volume \in Int
  BY <1>1, SumsTyped
<1>3. PICK i, o, z : /\ i = (IF net > 0 THEN net ELSE 0)
                     /\ o = (IF net < 0 THEN -net ELSE 0)
                     /\ z = Size(net)
  OBVIOUS
<1>4. i \in Int /\ o \in Int /\ z \in Int
  <2>1. net \in Int
    BY <1>1, TxFields
  <2> QED
    BY <1>3, <2>1 DEF Size
<1>5. PICK r : r = SumsOf(f, T \cup {tx})
  OBVIOUS
<1>6. r = [count |-> s.count + 1, incoming |-> s.incoming + i,
           outgoing |-> s.outgoing + o, volume |-> s.volume + z]
  BY <1>1, <1>3, <1>5, SumsOfOneMore DEF Grown
<1>7. s = [count |-> s.count, incoming |-> s.incoming,
           outgoing |-> s.outgoing, volume |-> s.volume]
  BY <1>1 DEF SumsOf
<1>8. PICK v : v = Wrapped(s)
  OBVIOUS
<1>9. /\ v.count = Wrap(s.count) /\ v.incoming = Wrap(s.incoming)
      /\ v.outgoing = Wrap(s.outgoing) /\ v.volume = Wrap(s.volume)
  BY <1>7, <1>8 DEF Wrapped
<1>10. Wrapped(r) = [count |-> Wrap(s.count + 1),
                     incoming |-> Wrap(s.incoming + i),
                     outgoing |-> Wrap(s.outgoing + o),
                     volume |-> Wrap(s.volume + z)]
  BY <1>6 DEF Wrapped
<1>11. Added(v, f, tx) = [count |-> Wrap(v.count + 1),
                          incoming |-> Wrap(v.incoming + i),
                          outgoing |-> Wrap(v.outgoing + o),
                          volume |-> Wrap(v.volume + z)]
  BY <1>1, <1>3 DEF Added
<1>12. /\ Wrap(v.count + 1) = Wrap(s.count + 1)
       /\ Wrap(v.incoming + i) = Wrap(s.incoming + i)
       /\ Wrap(v.outgoing + o) = Wrap(s.outgoing + o)
       /\ Wrap(v.volume + z) = Wrap(s.volume + z)
  <2>1. Wrap(Wrap(s.count) + 1) = Wrap(s.count + 1)
    <3>1. PICK c, e : c = s.count /\ e = 1
      OBVIOUS
    <3>2. c \in Int /\ e \in Int
      BY <1>2, <3>1
    <3>3. Wrap(Wrap(c) + e) = Wrap(c + e)
      BY <3>2, WrapAdds
    <3> QED
      BY <3>1, <3>3
  <2>2. Wrap(Wrap(s.incoming) + i) = Wrap(s.incoming + i)
    BY <1>2, <1>4, WrapAdds
  <2>3. Wrap(Wrap(s.outgoing) + o) = Wrap(s.outgoing + o)
    BY <1>2, <1>4, WrapAdds
  <2>4. Wrap(Wrap(s.volume) + z) = Wrap(s.volume + z)
    BY <1>2, <1>4, WrapAdds
  <2> QED
    BY <1>9, <2>1, <2>2, <2>3, <2>4
<1> QED
  BY <1>1, <1>5, <1>8, <1>10, <1>11, <1>12

(***************************************************************************)
(* The totals of a map.                                                    *)
(***************************************************************************)

LEMMA TotalOfNone ==
  ASSUME NEW m, NEW f
  PROVE  Total(m, f, {}) = <<>>
<1>1. {t \in {} : Into(m, t)} = {}
  OBVIOUS
<1>2. {KeyOf(m, t) : t \in {u \in {} : Into(m, u)}} = {}
  OBVIOUS
<1>3. \A x : DOMAIN x = {} /\ x = [k \in DOMAIN x |-> x[k]] => x = <<>>
  OBVIOUS
<1> DEFINE n == Total(m, f, {})
<1>4. DOMAIN n = {} /\ n = [k \in DOMAIN n |-> n[k]]
  BY <1>2 DEF Total
<1> HIDE DEF n
<1>5. n = <<>>
  BY <1>3, <1>4
<1> QED
  BY <1>5 DEF n

LEMMA WrappedNone == Wrapped(<<>>) = <<>>
<1>1. PICK x : x = Wrapped(<<>>)
  OBVIOUS
<1>2. DOMAIN x = {} /\ x = [k \in DOMAIN x |-> x[k]]
  <2>1. DOMAIN <<>> = {}
    OBVIOUS
  <2> QED
    BY <1>1, <2>1 DEF Wrapped
<1>3. \A y : DOMAIN y = {} /\ y = [k \in DOMAIN y |-> y[k]] => y = <<>>
  OBVIOUS
<1> QED
  BY <1>1, <1>2, <1>3

\* The transactions of a set that go under one key, and what they come to.
Under(m, k, T) == {t \in T : Into(m, t) /\ KeyOf(m, t) = k}
Keys(m, T) == {KeyOf(m, t) : t \in {u \in T : Into(m, u)}}
Amounts(m, f, S) == [t \in S |-> AmountOf(m, f, t)]
Subtotal(m, f, k, T) == SumFunction(Amounts(m, f, Under(m, k, T)))

LEMMA TotalParts ==
  ASSUME NEW m, NEW f, NEW T
  PROVE  Total(m, f, T) = [k \in Keys(m, T) |-> Subtotal(m, f, k, T)]
<1>1. {KeyOf(m, t) : t \in {t \in T : Into(m, t)}} = Keys(m, T)
  BY DEF Keys
<1>2. \A k : {u \in {t \in T : Into(m, t)} : KeyOf(m, u) = k} = Under(m, k, T)
  BY DEF Under
<1>3. \A k : SumFunction([t \in {u \in {t \in T : Into(m, t)} :
                                   KeyOf(m, u) = k} |-> AmountOf(m, f, t)])
               = Subtotal(m, f, k, T)
  BY <1>2 DEF Subtotal, Amounts
<1> QED
  BY <1>1, <1>3 DEF Total

LEMMA UnderKey ==
  ASSUME NEW m, NEW k, NEW T
  PROVE  k \notin Keys(m, T) => Under(m, k, T) = {}
BY DEF Keys, Under

LEMMA SumUnder ==
  ASSUME NEW m, NEW f, NEW k, NEW T \in SUBSET Tx, IsFiniteSet(T),
         NEW B \in SUBSET Tx, IsFiniteSet(B), T \cap B = {}
  PROVE  /\ Subtotal(m, f, k, T \cup B) = Subtotal(m, f, k, T) + Subtotal(m, f, k, B)
         /\ Subtotal(m, f, k, T) \in Int /\ Subtotal(m, f, k, B) \in Int
         /\ k \notin Keys(m, T) => Subtotal(m, f, k, T) = 0
         /\ k \notin Keys(m, B) => Subtotal(m, f, k, B) = 0
<1>1. PICK S, R : S = Under(m, k, T) /\ R = Under(m, k, B)
  OBVIOUS
<1>2. /\ S \in SUBSET T /\ R \in SUBSET B /\ S \cap R = {}
      /\ Under(m, k, T \cup B) = S \cup R
  BY <1>1 DEF Under
<1>3. IsFiniteSet(S) /\ IsFiniteSet(R) /\ IsFiniteSet(S \cup R)
  BY <1>2, FS_Subset, FS_Union
<1>4. PICK u, v, w : /\ u = Amounts(m, f, S) /\ v = Amounts(m, f, R)
                     /\ w = Amounts(m, f, S \cup R)
  OBVIOUS
<1>5. /\ DOMAIN u = S /\ DOMAIN v = R /\ DOMAIN w = S \cup R
      /\ Alike(u, w, S) /\ Alike(v, w, R)
  BY <1>4 DEF Alike, Amounts
<1>6. Weighs(w, S \cup R)
  BY <1>2, <1>3, <1>4, TxFields DEF Weighs, Amounts
<1>7. /\ SumFunction(w) = SumFunction(u) + SumFunction(v)
      /\ SumFunction(u) \in Int /\ SumFunction(v) \in Int
  BY <1>2, <1>5, <1>6, SumUnites
<1>8. k \notin Keys(m, T) => SumFunction(u) = 0
  <2>1. k \notin Keys(m, T) => S = {}
    BY <1>1, UnderKey
  <2> QED
    BY <1>5, <2>1, SumNone DEF SumFunction
<1>9. k \notin Keys(m, B) => SumFunction(v) = 0
  <2>1. k \notin Keys(m, B) => R = {}
    BY <1>1, UnderKey
  <2> QED
    BY <1>5, <2>1, SumNone DEF SumFunction
<1> QED
  BY <1>1, <1>2, <1>4, <1>7, <1>8, <1>9 DEF Subtotal

LEMMA NoneUnder ==
  ASSUME NEW m, NEW f, NEW k, NEW T, k \notin Keys(m, T)
  PROVE  Subtotal(m, f, k, T) = 0
<1>1. PICK S, u : S = {} /\ u = Amounts(m, f, S)
  OBVIOUS
<1>2. Under(m, k, T) = S
  BY <1>1, UnderKey
<1>3. DOMAIN u = S
  BY <1>1 DEF Amounts
<1>4. SumFunction(u) = 0
  BY <1>1, <1>3, SumNone DEF SumFunction
<1> QED
  BY <1>1, <1>2, <1>4 DEF Subtotal

\* Merging the totals of two batches is the totals of both.
LEMMA TotalOfBoth ==
  ASSUME NEW m, NEW f, NEW T \in SUBSET Tx, IsFiniteSet(T),
         NEW B \in SUBSET Tx, IsFiniteSet(B), T \cap B = {}
  PROVE  Wrapped(Total(m, f, T \cup B))
           = Merged(Wrapped(Total(m, f, T)), Wrapped(Total(m, f, B)))
<1>1. PICK x, y, z : /\ x = Total(m, f, T) /\ y = Total(m, f, B)
                     /\ z = Total(m, f, T \cup B)
  OBVIOUS
<1>2. /\ x = [k \in Keys(m, T) |-> Subtotal(m, f, k, T)]
      /\ y = [k \in Keys(m, B) |-> Subtotal(m, f, k, B)]
      /\ z = [k \in Keys(m, T \cup B) |-> Subtotal(m, f, k, T \cup B)]
  BY <1>1, TotalParts
<1>3. Keys(m, T \cup B) = Keys(m, T) \cup Keys(m, B)
  BY DEF Keys
<1>4. ASSUME NEW k
      PROVE  /\ Subtotal(m, f, k, T \cup B)
                  = Subtotal(m, f, k, T) + Subtotal(m, f, k, B)
             /\ Subtotal(m, f, k, T) \in Int /\ Subtotal(m, f, k, B) \in Int
             /\ k \notin Keys(m, T) => Subtotal(m, f, k, T) = 0
             /\ k \notin Keys(m, B) => Subtotal(m, f, k, B) = 0
  <2>1. Subtotal(m, f, k, T \cup B) = Subtotal(m, f, k, T) + Subtotal(m, f, k, B)
    BY SumUnder
  <2>2. Subtotal(m, f, k, T) \in Int /\ Subtotal(m, f, k, B) \in Int
    BY SumUnder
  <2>3. /\ k \notin Keys(m, T) => Subtotal(m, f, k, T) = 0
        /\ k \notin Keys(m, B) => Subtotal(m, f, k, B) = 0
    BY NoneUnder
  <2> QED
    BY <2>1, <2>2, <2>3
<1>5. PICK v, w : v = Wrapped(x) /\ w = Wrapped(y)
  OBVIOUS
<1>6. /\ DOMAIN v = Keys(m, T) /\ DOMAIN w = Keys(m, B)
      /\ \A k \in Keys(m, T) : v[k] = Wrap(Subtotal(m, f, k, T))
      /\ \A k \in Keys(m, B) : w[k] = Wrap(Subtotal(m, f, k, B))
  BY <1>2, <1>5 DEF Wrapped
<1>7. ASSUME NEW k \in Keys(m, T) \cup Keys(m, B)
      PROVE  Wrap(z[k]) = Wrap((IF k \in DOMAIN v THEN v[k] ELSE 0)
                                 + (IF k \in DOMAIN w THEN w[k] ELSE 0))
  <2>1. PICK a, b, c : /\ a = Subtotal(m, f, k, T) /\ b = Subtotal(m, f, k, B)
                       /\ c = z[k]
    OBVIOUS
  <2>2. /\ a \in Int /\ b \in Int /\ c = a + b
        /\ k \notin Keys(m, T) => a = 0
        /\ k \notin Keys(m, B) => b = 0
    BY <1>2, <1>3, <1>4, <2>1
  <2>3. /\ Wrap(a) \in Int /\ Wrap(b) \in Int
        /\ Wrap(Wrap(a) + b) = Wrap(a + b) /\ Wrap(Wrap(b) + a) = Wrap(b + a)
        /\ Wrap(Wrap(b) + Wrap(a)) = Wrap(b + Wrap(a))
    BY <2>2, WrapAdds
  <2>4. CASE k \in Keys(m, T) /\ k \in Keys(m, B)
    <3>1. v[k] = Wrap(a) /\ w[k] = Wrap(b)
      BY <1>6, <2>1, <2>4
    <3>2. Wrap(a) + Wrap(b) = Wrap(b) + Wrap(a) /\ b + Wrap(a) = Wrap(a) + b
      BY <2>2, <2>3
    <3> QED
      BY <1>6, <2>1, <2>2, <2>3, <2>4, <3>1, <3>2
  <2>5. CASE k \in Keys(m, T) /\ k \notin Keys(m, B)
    <3>1. v[k] = Wrap(a) /\ b = 0
      BY <1>6, <2>1, <2>2, <2>5
    <3> QED
      BY <1>6, <2>1, <2>2, <2>3, <2>5, <3>1
  <2>6. CASE k \notin Keys(m, T) /\ k \in Keys(m, B)
    <3>1. w[k] = Wrap(b) /\ a = 0
      BY <1>6, <2>1, <2>2, <2>6
    <3>2. b + a = b /\ Wrap(b) + a = Wrap(b) /\ 0 + Wrap(b) = Wrap(b) /\ c = b
      BY <2>2, <2>3, <3>1
    <3> QED
      BY <1>6, <2>1, <2>2, <2>3, <2>6, <3>1, <3>2
  <2> QED
    BY <2>4, <2>5, <2>6
<1>8. Wrapped(z) = Merged(v, w)
  <2>1. DOMAIN z = DOMAIN v \cup DOMAIN w
    BY <1>2, <1>3, <1>6
  <2>2. \A k \in DOMAIN z : Wrap(z[k]) = Wrap((IF k \in DOMAIN v THEN v[k] ELSE 0)
                                 + (IF k \in DOMAIN w THEN w[k] ELSE 0))
    BY <1>6, <1>7, <2>1
  <2> QED
    BY <2>1, <2>2 DEF Wrapped, Merged
<1> QED
  BY <1>1, <1>5, <1>8

\* What does not go into a map does not change its totals.
Strange(m, B) == \A t \in B : ~Into(m, t)

LEMMA TotalOfStrangers ==
  ASSUME NEW m, NEW f, NEW T, NEW B, Strange(m, B)
  PROVE  Total(m, f, T \cup B) = Total(m, f, T)
<1> USE DEF Strange
<1>1. Keys(m, T \cup B) = Keys(m, T)
  BY DEF Keys
<1>2. \A k : Under(m, k, T \cup B) = Under(m, k, T)
  BY DEF Under
<1>3. \A k : Subtotal(m, f, k, T \cup B) = Subtotal(m, f, k, T)
  BY <1>2 DEF Subtotal
<1> QED
  BY <1>1, <1>3, TotalParts

(***************************************************************************)
(* The list again, and how its slices share it out.                        *)
(***************************************************************************)

\* A list of all the rows gathered, each in one place.
IsListing(s) ==
  /\ s \in Seq(Tx) /\ Len(s) \in Nat /\ Len(s) < SizeT
  /\ \A i, j \in 1..Len(s) : s[i] = s[j] => i = j
  /\ \A i \in 1..Len(s) : s[i] \in Gathered
  /\ \A x \in Gathered : \E i \in 1..Len(s) : s[i] = x

LEMMA Listed ==
  ASSUME call \in Calls, NEW s \in Deduped
  PROVE  IsListing(s)
<1> DEFINE n == Cardinality(Gathered)
<1>1. n \in Nat /\ IsFiniteSet(Gathered) /\ Gathered \subseteq Tx /\ n < SizeT
  BY GatheredRows
<1>2. s \in [1..n -> Gathered] /\ \A i, j \in 1..n : i # j => s[i] # s[j]
  BY DEF Deduped, SetToSeqs
<1> HIDE DEF n
<1>3. s \in Seq(Tx) /\ Len(s) = n /\ DOMAIN s = 1..n
  BY <1>1, <1>2
<1>4. ASSUME NEW x \in Gathered
      PROVE  \E i \in 1..n : s[i] = x
  <2> SUFFICES ASSUME \A i \in 1..n : s[i] # x
               PROVE  FALSE
    OBVIOUS
  <2> DEFINE T == Gathered \ {x}
  <2>1. s \in [1..n -> T]
    BY <1>2
  <2>2. IsFiniteSet(T) /\ Cardinality(T) = n - 1
    BY <1>1, FS_RemoveElement DEF n
  <2>3. IsFiniteSet(1..n) /\ Cardinality(1..n) = n
    <3>1. 1 \in Int /\ n \in Int
      BY <1>1
    <3>2. IsFiniteSet(1..n) /\ Cardinality(1..n) = IF 1 > n THEN 0 ELSE n - 1 + 1
      BY <3>1, FS_Interval
    <3> QED
      BY <1>1, <3>2
  <2>4. \E i, j \in 1..n : i # j /\ s[i] = s[j]
    <3> HIDE DEF T
    <3> QED
      BY <1>1, <2>1, <2>2, <2>3, FS_PigeonHole
  <2> QED
    BY <1>2, <2>4
<1> QED
  BY <1>1, <1>2, <1>3, <1>4 DEF IsListing

\* A call starts no more threads than there are.
LEMMA StartedFits ==
  ASSUME call \in Calls, NEW n \in Nat
  PROVE  /\ Started(n) \in 0..Cardinality(Threads)
         /\ n # 0 => Started(n) # 0
<1> DEFINE p == call.processors
<1>1. /\ p \in Nat \ {0} /\ call.backend \in {"C", "Rust"}
      /\ MostStarted(call) <= Cardinality(Threads)
      /\ Cardinality(Threads) \in Nat
  BY StatisticsAssumption, FS_CardinalityType DEF Call
<1>2. CASE C
  <2>1. MostStarted(call) = p
    BY <1>2 DEF MostStarted, C
  <2>2. Started(n) \in Nat /\ Started(n) <= p /\ Started(n) # 0
    BY <1>1, <1>2 DEF Started, ThreadsFor
  <2> QED
    BY <1>1, <2>1, <2>2
<1>3. CASE ~C
  <2>1. MostStarted(call) = 2 * p - 1
    BY <1>3 DEF MostStarted, C
  <2>2. PICK q : q = n \div p
    OBVIOUS
  <2>3. PICK c : c = IF q = 0 THEN 1 ELSE q
    OBVIOUS
  <2>4. Started(n) = (n + c - 1) \div c
    BY <1>3, <2>2, <2>3 DEF Started, ChunkFor
  <2>5. PICK s : s = (n + c - 1) \div c
    OBVIOUS
  <2>6. q \in Nat /\ n < p * q + p
    BY <1>1, <2>2, Divided
  <2>7. c \in Nat \ {0} /\ n + c - 1 \in Nat /\ q <= c
    BY <2>3, <2>6
  <2>8. s \in Nat /\ c * s <= n + c - 1 /\ (n # 0 => s >= 1)
    <3>1. n # 0 => c <= n + c - 1
      BY <2>7
    <3> QED
      BY <2>5, <2>7, <3>1, Divided
  <2> HIDE DEF p
  <2>9. p * q <= p * c /\ p * c \in Nat /\ p * q \in Nat
    <3>1. p \in Nat
      BY <1>1
    <3> QED
      BY <2>6, <2>7, <3>1
  <2>10. p * c + 1 >= p + c
    <3>1. PICK a, b \in Nat : p = a + 1 /\ c = b + 1
      <4>1. p - 1 \in Nat /\ c - 1 \in Nat /\ p = (p - 1) + 1 /\ c = (c - 1) + 1
        BY <1>1, <2>7
      <4> QED
        BY <4>1
    <3>2. p * c = a * b + a + b + 1 /\ a * b \in Nat
      BY <3>1
    <3> QED
      BY <3>1, <3>2
  <2>11. s <= 2 * p - 1
    <3> SUFFICES ASSUME s >= 2 * p
                 PROVE  FALSE
      BY <1>1, <2>8
    <3>1. c * s >= c * (2 * p) /\ c * (2 * p) = 2 * (p * c) /\ c * s \in Nat
      <4>1. p \in Nat /\ 2 * p \in Nat
        BY <1>1
      <4>2. c * (2 * p) <= c * s
        BY <2>7, <2>8, <4>1
      <4>3. c * (2 * p) = 2 * (p * c)
        BY <2>7, <4>1
      <4>4. c * s \in Nat
        BY <2>7, <2>8
      <4> QED
        BY <2>7, <2>8, <4>1, <4>2, <4>3, <4>4
    <3>2. PICK e, g, h : e = p * c /\ g = c * s /\ h = p * q
      OBVIOUS
    <3> QED
      BY <1>1, <2>6, <2>7, <2>8, <2>9, <2>10, <3>1, <3>2
  <2> QED
    BY <1>1, <2>1, <2>4, <2>5, <2>8, <2>11 DEF p
<1> QED
  BY <1>2, <1>3

\* What goes to the t-th thread, of a list that is not empty.
LEMMA SliceHas ==
  ASSUME call \in Calls, txs # <<>>, txs \in Seq(Tx), Len(txs) < SizeT,
         NEW t \in 1..Started(Len(txs))
  PROVE  /\ First(t) \in Nat \ {0} /\ Slice(t) \in Nat
         /\ First(t) + Slice(t) <= Len(txs) + 1
         /\ t = Started(Len(txs)) => First(t) + Slice(t) = Len(txs) + 1
         /\ t # Started(Len(txs)) => Slice(t) = ChunkFor(Len(txs))
<1>1. PICK n : n = Len(txs)
  OBVIOUS
<1>2. n \in Nat \ {0} /\ n < SizeT /\ SizeT \in Nat
  BY <1>1, StatisticsAssumption
<1>3. PICK s, c : s = Started(n) /\ c = ChunkFor(n)
  OBVIOUS
<1>4. s \in Nat
  BY <1>2, <1>3, StartedFits, FS_CardinalityType, StatisticsAssumption
<1>5. PICK k : k = t - 1
  OBVIOUS
<1>6. k \in Nat /\ k < s /\ t = k + 1 /\ t \in Nat
  BY <1>1, <1>3, <1>4, <1>5
<1>7. /\ c \in 1..n
      /\ k + 1 = s => n - k * c \in 0..n
      /\ k + 1 # s => k * c + c <= n
  BY <1>2, <1>3, <1>6, SlicesFit
<1>8. PICK a : a = k * c
  OBVIOUS
<1>9. a \in Nat
  BY <1>2, <1>6, <1>7, <1>8
<1>10. First(t) = a + 1
  BY <1>1, <1>3, <1>5, <1>8 DEF First
<1>11. Slice(t) = IF k + 1 = s THEN (n - a) % SizeT ELSE c
  <2>1. First(t) - 1 = a
    BY <1>9, <1>10
  <2> QED
    BY <1>1, <1>3, <1>6, <2>1 DEF Slice
<1>12. k + 1 = s => (n - a) % SizeT = n - a /\ n - a \in Nat
  <2>1. k + 1 = s => n - a \in Nat /\ n - a < SizeT
    BY <1>2, <1>7, <1>8, <1>9
  <2>2. PICK b : b = n - a
    OBVIOUS
  <2> QED
    BY <1>2, <2>1, <2>2, Remainder
<1>13. CASE t = s
  <2>1. Slice(t) = n - a /\ n - a \in Nat
    BY <1>6, <1>11, <1>12, <1>13
  <2> QED
    BY <1>1, <1>2, <1>3, <1>9, <1>10, <1>13, <2>1
<1>14. CASE t # s
  <2>1. Slice(t) = c /\ a + c <= n /\ c \in Nat
    BY <1>2, <1>6, <1>7, <1>8, <1>11, <1>14
  <2> QED
    BY <1>1, <1>2, <1>3, <1>9, <1>10, <1>14, <2>1
<1> QED
  BY <1>13, <1>14

LEMMA SlicesApart ==
  ASSUME call \in Calls, txs # <<>>, txs \in Seq(Tx), Len(txs) < SizeT,
         NEW t \in 1..Started(Len(txs)), NEW u \in 1..Started(Len(txs)), t < u
  PROVE  First(t) + Slice(t) <= First(u)
<1>1. PICK n : n = Len(txs)
  OBVIOUS
<1>2. n \in Nat \ {0} /\ n < SizeT
  BY <1>1
<1>3. PICK s, c : s = Started(n) /\ c = ChunkFor(n)
  OBVIOUS
<1>4. s \in Nat
  BY <1>2, <1>3, StartedFits, FS_CardinalityType, StatisticsAssumption
<1>5. t # s /\ t \in Nat \ {0} /\ u \in Nat \ {0}
  BY <1>1, <1>3, <1>4
<1>6. Slice(t) = c /\ c \in Nat
  <2>1. Slice(t) = c
    BY <1>1, <1>3, <1>5, SliceHas
  <2>2. c \in Nat
    BY <1>2, <1>3, ShareOK, StatisticsAssumption
  <2> QED
    BY <2>1, <2>2
<1>7. PICK k, l : k = t - 1 /\ l = u - 1
  OBVIOUS
<1>8. k \in Nat /\ l \in Nat /\ k + 1 <= l /\ k + 1 \in Nat
  BY <1>5, <1>7
<1>9. (k + 1) * c <= l * c /\ (k + 1) * c = k * c + c /\ k * c \in Nat
      /\ l * c \in Nat
  BY <1>6, <1>8, Multiples
<1>10. First(t) = k * c + 1 /\ First(u) = l * c + 1
  BY <1>1, <1>3, <1>7 DEF First
<1>11. PICK a, b, d : a = k * c /\ b = l * c /\ d = (k + 1) * c
  OBVIOUS
<1> QED
  BY <1>6, <1>9, <1>10, <1>11

\* Every place of the list is in a slice.
LEMMA SlicesCover ==
  ASSUME call \in Calls, txs # <<>>, txs \in Seq(Tx), Len(txs) < SizeT,
         NEW j \in 1..Len(txs)
  PROVE  \E t \in 1..Started(Len(txs)) : j \in First(t)..(First(t) + Slice(t) - 1)
<1>1. PICK n : n = Len(txs)
  OBVIOUS
<1>2. n \in Nat \ {0} /\ n < SizeT /\ j \in Nat /\ 1 <= j /\ j <= n
  BY <1>1
<1>3. PICK s, c : s = Started(n) /\ c = ChunkFor(n)
  OBVIOUS
<1>4. s \in Nat \ {0}
  BY <1>2, <1>3, StartedFits, FS_CardinalityType, StatisticsAssumption
<1>5. c \in Nat \ {0}
  <2>1. ChunkFor(n) \in 1..(SizeT - 1) /\ SizeT \in Nat
    BY <1>2, ShareOK, StatisticsAssumption
  <2> QED
    BY <1>3, <2>1
<1>6. PICK i, q : i = j - 1 /\ q = (j - 1) \div c
  OBVIOUS
<1>7. i \in Nat /\ q \in Nat /\ c * q <= i /\ i < c * q + c
  <2>1. i \in Nat
    BY <1>2, <1>6
  <2> QED
    BY <1>5, <1>6, <2>1, Divided
<1>8. ASSUME NEW t \in 1..s
      PROVE  /\ First(t) \in Nat /\ Slice(t) \in Nat
             /\ t = s => First(t) + Slice(t) = n + 1
             /\ t # s => Slice(t) = c
             /\ First(t) = (t - 1) * c + 1
  BY <1>1, <1>3, SliceHas DEF First
<1>9. PICK a : a = q * c
  OBVIOUS
<1>10. a \in Nat /\ a <= i /\ i < a + c
  BY <1>5, <1>7, <1>9
<1>11. CASE q + 1 < s
  <2>1. q + 1 \in 1..s /\ (q + 1) - 1 = q /\ q + 1 # s
    BY <1>4, <1>7, <1>11
  <2>2. First(q + 1) = a + 1 /\ Slice(q + 1) = c
    BY <1>8, <1>9, <2>1
  <2>3. j \in First(q + 1)..(First(q + 1) + Slice(q + 1) - 1)
    BY <1>2, <1>5, <1>6, <1>10, <2>2
  <2> QED
    BY <1>1, <1>3, <2>1, <2>3
<1>12. CASE ~(q + 1 < s)
  <2>1. PICK l : l = s - 1
    OBVIOUS
  <2>2. l \in Nat /\ l <= q /\ s \in 1..s
    BY <1>4, <1>7, <1>12, <2>1
  <2>3. l * c <= q * c /\ l * c \in Nat
    BY <1>5, <1>7, <2>2, Multiples
  <2>4. First(s) = l * c + 1 /\ First(s) + Slice(s) = n + 1
    BY <1>8, <2>1, <2>2
  <2>5. PICK b : b = l * c
    OBVIOUS
  <2>6. /\ First(s) <= j /\ First(s) + Slice(s) - 1 = n
        /\ First(s) \in Int /\ First(s) + Slice(s) - 1 \in Int
    <3>1. b <= a /\ b \in Nat
      BY <1>9, <2>3, <2>5
    <3>2. First(s) = b + 1 /\ Slice(s) \in Nat
      BY <1>8, <2>2, <2>4, <2>5
    <3>3. j = i + 1
      BY <1>2, <1>6
    <3> QED
      BY <1>2, <1>7, <1>10, <2>4, <3>1, <3>2, <3>3
  <2>7. j \in First(s)..(First(s) + Slice(s) - 1)
    BY <1>2, <2>6
  <2> QED
    BY <1>1, <1>3, <2>2, <2>7
<1> QED
  BY <1>11, <1>12

(***************************************************************************)
(* The shared figures, said of values: those of the transactions T, without *)
(* those in U[m] and L[m] for map m.  c: categories are not among them yet. *)
(***************************************************************************)

FiguresAre(f, c, T, U, L, s, ms) ==
  /\ s = Wrapped(SumsOf(f, T))
  /\ ms = [m \in Maps |-> IF c /\ m = "categories" THEN <<>>
                          ELSE Wrapped(Total(m, f, (CountedIn(f, T) \ U[m]) \ L[m]))]

LEMMA FiguresStep1 ==
  ASSUME NEW f, NEW c, NEW T, NEW U, NEW L, NEW s, NEW ms,
         FiguresAre(f, c, T, U, L, s, ms), NEW tx, ~Counted(f, tx)
  PROVE  FiguresAre(f, c, T \cup {tx}, U, L, s, ms)
<1>1. CountedIn(f, T \cup {tx}) = CountedIn(f, T)
  BY DEF CountedIn
<1>2. SumsOf(f, T \cup {tx}) = SumsOf(f, T)
  BY SumsOfSkipped
<1> QED
  BY <1>1, <1>2 DEF FiguresAre

LEMMA FiguresStep2 ==
  ASSUME NEW f, NEW c, NEW T \in SUBSET Tx, IsFiniteSet(T), NEW U, NEW L,
         NEW s, NEW ms, FiguresAre(f, c, T, U, L, s, ms), NEW tx \in Tx,
         tx \notin T, Counted(f, tx), NEW V, \A m \in Maps : V[m] = U[m] \cup {tx},
         NEW M, \A m \in Maps : L[m] \subseteq M[m] /\ M[m] \subseteq L[m] \cup {tx}
  PROVE  FiguresAre(f, c, T \cup {tx}, V, M, Added(s, f, tx), ms)
<1>1. CountedIn(f, T \cup {tx}) = CountedIn(f, T) \cup {tx} /\ tx \notin CountedIn(f, T)
  BY DEF CountedIn
<1>2. Wrapped(SumsOf(f, T \cup {tx})) = Added(Wrapped(SumsOf(f, T)), f, tx)
  BY AddedOneMore
<1>3. ASSUME NEW m \in Maps
      PROVE  (CountedIn(f, T \cup {tx}) \ V[m]) \ M[m]
               = (CountedIn(f, T) \ U[m]) \ L[m]
  BY <1>1
<1> QED
  BY <1>2, <1>3 DEF FiguresAre

\* A batch B that is merged into map m, but for what is lost: before it U and L
\* are missing from each map, and V and M after it.
Merging(c, m, B, U, L, V, M) ==
  /\ B \subseteq U[m] /\ V[m] = U[m] \ B
  /\ L[m] \subseteq M[m] /\ M[m] \subseteq L[m] \cup B
  /\ \A n \in Maps \ {m} :
       /\ M[n] = L[n]
       /\ \/ V[n] = U[n]
          \/ c /\ n = "categories"
          \/ V[n] = U[n] \ B /\ B \subseteq U[n] /\ Strange(n, B)

LEMMA FiguresStep3 ==
  ASSUME NEW f, NEW c \in BOOLEAN, NEW T \in SUBSET Tx, IsFiniteSet(T), NEW U,
         NEW L, NEW s, NEW ms, FiguresAre(f, c, T, U, L, s, ms), NEW m \in Maps,
         ~(c /\ m = "categories"), NEW B, B \subseteq CountedIn(f, T),
         NEW V, NEW M, Merging(c, m, B, U, L, V, M), NEW z,
         z = [ms EXCEPT ![m] = Merged(ms[m], Wrapped(Total(m, f, B \ M[m])))]
  PROVE  FiguresAre(f, c, T, V, M, s, z)
<1>0. /\ B \subseteq U[m] /\ V[m] = U[m] \ B
      /\ L[m] \subseteq M[m] /\ M[m] \subseteq L[m] \cup B
      /\ \A n \in Maps \ {m} :
           /\ M[n] = L[n]
           /\ \/ V[n] = U[n]
              \/ c /\ n = "categories"
              \/ V[n] = U[n] \ B /\ B \subseteq U[n] /\ Strange(n, B)
  BY DEF Merging
<1>1. PICK K : K = CountedIn(f, T)
  OBVIOUS
<1>2. K \in SUBSET Tx /\ IsFiniteSet(K) /\ B \in SUBSET K /\ IsFiniteSet(B)
  <2>1. K \in SUBSET T
    BY <1>1 DEF CountedIn
  <2>2. IsFiniteSet(K) /\ B \in SUBSET K
    BY <1>1, <2>1, FS_Subset
  <2> QED
    BY <2>1, <2>2, FS_Subset
<1>3. /\ s = Wrapped(SumsOf(f, T)) /\ DOMAIN ms = Maps
      /\ ms = [n \in Maps |-> ms[n]]
      /\ \A n \in Maps : ms[n] = IF c /\ n = "categories" THEN <<>>
                                 ELSE Wrapped(Total(n, f, (K \ U[n]) \ L[n]))
  BY <1>1 DEF FiguresAre
<1>4. Merged(ms[m], Wrapped(Total(m, f, B \ M[m])))
        = Wrapped(Total(m, f, (K \ V[m]) \ M[m]))
  <2>1. PICK A, D : A = (K \ U[m]) \ L[m] /\ D = B \ M[m]
    OBVIOUS
  <2>2. /\ A \in SUBSET K /\ D \in SUBSET B /\ A \cap D = {}
        /\ (K \ V[m]) \ M[m] = A \cup D
    BY <1>0, <1>2, <2>1
  <2>3. IsFiniteSet(A) /\ IsFiniteSet(D) /\ A \in SUBSET Tx /\ D \in SUBSET Tx
    BY <1>2, <2>2, FS_Subset
  <2>4. ms[m] = Wrapped(Total(m, f, A))
    BY <1>3, <2>1
  <2>5. Wrapped(Total(m, f, A \cup D))
          = Merged(Wrapped(Total(m, f, A)), Wrapped(Total(m, f, D)))
    BY <2>2, <2>3, TotalOfBoth
  <2> QED
    BY <2>1, <2>2, <2>4, <2>5
<1>5. ASSUME NEW n \in Maps \ {m}, ~(c /\ n = "categories")
      PROVE  ms[n] = Wrapped(Total(n, f, (K \ V[n]) \ M[n]))
  <2>1. ms[n] = Wrapped(Total(n, f, (K \ U[n]) \ L[n])) /\ M[n] = L[n]
    BY <1>0, <1>3, <1>5
  <2>2. CASE V[n] = U[n]
    BY <2>1, <2>2
  <2>3. CASE V[n] = U[n] \ B /\ B \subseteq U[n] /\ Strange(n, B)
    <3>1. PICK A, D : A = (K \ U[n]) \ L[n] /\ D = B \ L[n]
      OBVIOUS
    <3>2. (K \ V[n]) \ M[n] = A \cup D
      BY <1>2, <2>1, <2>3, <3>1
    <3>3. Strange(n, D)
      BY <2>3, <3>1 DEF Strange
    <3>4. Total(n, f, A \cup D) = Total(n, f, A)
      BY <3>3, TotalOfStrangers
    <3> QED
      BY <2>1, <3>1, <3>2, <3>4
  <2> QED
    BY <1>0, <1>5, <2>2, <2>3
<1>6. PICK h : /\ h = Merged(ms[m], Wrapped(Total(m, f, B \ M[m])))
               /\ z = [ms EXCEPT ![m] = h]
  OBVIOUS
<1>7. z = [n \in Maps |-> IF c /\ n = "categories" THEN <<>>
                          ELSE Wrapped(Total(n, f, (K \ V[n]) \ M[n]))]
  <2>1. z = [n \in Maps |-> IF n = m THEN h ELSE ms[n]]
    BY <1>3, <1>6
  <2> QED
    BY <1>3, <1>4, <1>5, <1>6, <2>1
<1> QED
  BY <1>1, <1>3, <1>6, <1>7 DEF FiguresAre

(***************************************************************************)
(* What the threads have taken.                                            *)
(***************************************************************************)

\* What the figures rest on while threads may run.
Shared ==
  /\ call \in Calls /\ IsListing(txs) /\ ProgressOK
  /\ Running \subseteq 1..Started(Len(txs))
  /\ \A t \in Threads : worker[t].next \in Nat /\ worker[t].left \in Nat

LEMMA SharedHolds ==
  ASSUME Inductive, Accounting, main \notin {"idle", "gather"}
  PROVE  Shared /\ FiguresOK /\ LostOK /\ BatchesOK /\ ProgressOK /\ StartedOK
<1>1. FiguresOK /\ LostOK /\ BatchesOK /\ ProgressOK /\ StartedOK /\ call \in Calls
  BY DEF Accounting, Inductive, CallOK
<1>2. /\ txs \in Deduped /\ \A t \in Running : t <= Started(Len(txs))
  BY <1>1 DEF StartedOK
<1>3. IsListing(txs)
  BY <1>1, <1>2, Listed
<1>4. Started(Len(txs)) \in Nat
  BY <1>1, <1>3, StartedFits, FS_CardinalityType, StatisticsAssumption DEF IsListing
<1>5. Running \subseteq 1..Started(Len(txs))
  <2>1. \A t \in Threads : t \in Nat \ {0}
    BY StatisticsAssumption, FS_CardinalityType
  <2> QED
    BY <1>2, <1>4, <2>1 DEF Running
<1>6. \A t \in Threads : worker[t].next \in Nat /\ worker[t].left \in Nat
  BY StatisticsAssumption DEF Inductive, TypeOK
<1> QED
  BY <1>1, <1>3, <1>5, <1>6 DEF Shared

Places(t) == First(t)..(First(t) + Slice(t) - 1)

LEMMA TakenPlaces ==
  ASSUME Shared, NEW t \in Running
  PROVE  /\ First(t) \in Nat \ {0}
         /\ txs = <<>> => First(t)..(worker[t].next - 1) = {}
         /\ First(t)..(worker[t].next - 1) \subseteq Places(t) \cap (1..Len(txs))
         /\ worker[t].left > 0 /\ worker[t].next <= Len(txs) =>
              worker[t].next \in Places(t) \cap (1..Len(txs))
<1>1. /\ t \in Threads /\ t \in 1..Started(Len(txs))
      /\ worker[t].next \in Nat /\ worker[t].left \in Nat
      /\ call \in Calls /\ txs \in Seq(Tx) /\ Len(txs) < SizeT /\ Len(txs) \in Nat
      /\ worker[t].next >= First(t)
      /\ worker[t].next + worker[t].left = First(t) + Slice(t)
      /\ txs = <<>> => worker[t].next = First(t)
  BY DEF Shared, Running, IsListing, ProgressOK
<1>2. CASE txs # <<>>
  <2>1. First(t) \in Nat \ {0} /\ Slice(t) \in Nat /\ First(t) + Slice(t) <= Len(txs) + 1
    BY <1>1, <1>2, SliceHas
  <2>2. PICK a, b, n, l : a = First(t) /\ b = Slice(t) /\ n = worker[t].next /\ l = worker[t].left
    OBVIOUS
  <2>3. PICK k : k = Len(txs)
    OBVIOUS
  <2>4. /\ a \in Nat \ {0} /\ b \in Nat /\ a + b <= k + 1 /\ n \in Nat /\ l \in Nat
        /\ k \in Nat /\ n >= a /\ n + l = a + b
    BY <1>1, <2>1, <2>2, <2>3
  <2>5. a..(n - 1) \subseteq (a..(a + b - 1)) \cap (1..k)
    BY <2>4
  <2>6. l > 0 /\ n <= k => n \in (a..(a + b - 1)) \cap (1..k)
    BY <2>4
  <2> QED
    BY <1>2, <2>2, <2>3, <2>4, <2>5, <2>6 DEF Places
<1>3. CASE txs = <<>>
  <2>1. Len(txs) = 0 /\ worker[t].next = First(t) /\ First(t) \in Nat
    BY <1>1, <1>3
  <2>2. First(t) # 0
    <3>1. ChunkFor(0) \in Nat /\ t - 1 \in Nat
      <4>1. ChunkFor(0) \in 1..(SizeT - 1)
        BY <1>1, <2>1, ShareOK, StatisticsAssumption
      <4>2. Started(Len(txs)) \in Nat
        BY <1>1, <2>1, ShareOK, StatisticsAssumption
      <4> QED
        BY <1>1, <4>1, <4>2, StatisticsAssumption
    <3>2. (t - 1) * ChunkFor(0) \in Nat
      BY <3>1
    <3> QED
      BY <2>1, <3>2 DEF First
  <2>3. First(t)..(worker[t].next - 1) = {}
    BY <2>1
  <2> QED
    BY <2>1, <2>2, <2>3
<1> QED
  BY <1>2, <1>3

LEMMA PlacesApart ==
  ASSUME Shared, txs # <<>>, NEW t \in Running, NEW u \in Running, t # u,
         NEW i \in Places(t)
  PROVE  i \notin Places(u)
<1>1. /\ t \in 1..Started(Len(txs)) /\ u \in 1..Started(Len(txs))
      /\ call \in Calls /\ txs \in Seq(Tx) /\ Len(txs) < SizeT
  BY DEF Shared, IsListing
<1>2. /\ First(t) \in Nat \ {0} /\ Slice(t) \in Nat
      /\ First(u) \in Nat \ {0} /\ Slice(u) \in Nat
  BY <1>1, SliceHas
<1>3. t < u \/ u < t
  <2>1. Started(Len(txs)) \in Int
    BY <1>1, ShareOK
  <2> QED
    BY <1>1, <2>1
<1>4. First(t) + Slice(t) <= First(u) \/ First(u) + Slice(u) <= First(t)
  BY <1>1, <1>3, SlicesApart
<1> QED
  BY <1>2, <1>4 DEF Places

\* Nothing is taken twice.
LEMMA TakenSets ==
  ASSUME Shared
  PROVE  /\ \A t \in Running : TakenBy(t) \subseteq Gathered
         /\ Taken \in SUBSET Tx /\ IsFiniteSet(Taken)
         /\ \A t, u \in Running : t # u => TakenBy(t) \cap TakenBy(u) = {}
<1>1. IsListing(txs) /\ call \in Calls
  BY DEF Shared
<1>2. \A t \in Running : TakenBy(t) \subseteq Gathered
  <2> SUFFICES ASSUME NEW t \in Running, NEW i \in First(t)..(worker[t].next - 1)
               PROVE  txs[i] \in Gathered
    BY DEF TakenBy
  <2>1. i \in 1..Len(txs)
    BY TakenPlaces
  <2> QED
    BY <1>1, <2>1 DEF IsListing
<1>3. Taken \subseteq Gathered
  BY <1>2 DEF Taken
<1>4. Taken \in SUBSET Tx /\ IsFiniteSet(Taken)
  BY <1>1, <1>3, GatheredRows, FS_Subset
<1>5. ASSUME NEW t \in Running, NEW u \in Running, t # u
      PROVE  TakenBy(t) \cap TakenBy(u) = {}
  <2> SUFFICES ASSUME NEW i \in First(t)..(worker[t].next - 1),
                      NEW j \in First(u)..(worker[u].next - 1), txs[i] = txs[j]
               PROVE  FALSE
    BY DEF TakenBy
  <2>1. /\ i \in Places(t) /\ i \in 1..Len(txs) /\ txs # <<>>
        /\ j \in Places(u) /\ j \in 1..Len(txs)
    BY TakenPlaces
  <2>2. i # j
    BY <1>5, <2>1, PlacesApart
  <2> QED
    BY <1>1, <2>1, <2>2 DEF IsListing
<1> QED
  BY <1>2, <1>4, <1>5

\* The next transaction of a thread is one that nobody has taken.
LEMMA NextFresh ==
  ASSUME Shared, NEW t \in Running, worker[t].left > 0,
         worker[t].next <= Len(txs)
  PROVE  /\ txs[worker[t].next] \in Tx /\ txs[worker[t].next] \notin Taken
         /\ worker[t].next \in Nat /\ First(t) \in Nat
         /\ First(t) <= worker[t].next
<1>1. PICK n : n = worker[t].next
  OBVIOUS
<1>2. n \in Places(t) /\ n \in 1..Len(txs) /\ First(t) \in Nat /\ IsListing(txs)
  BY <1>1, TakenPlaces DEF Shared
<1>3. txs # <<>> /\ txs[n] \in Tx
  BY <1>2 DEF IsListing
<1>4. ASSUME NEW u \in Running, NEW i \in First(u)..(worker[u].next - 1)
      PROVE  txs[i] # txs[n]
  <2>1. i \in Places(u) /\ i \in 1..Len(txs) /\ First(u) \in Nat
    BY TakenPlaces
  <2>2. CASE u = t
    <3>1. i # n
      BY <1>1, <1>2, <2>1, <2>2
    <3> QED
      BY <1>2, <2>1, <3>1 DEF IsListing
  <2>3. CASE u # t
    <3>1. i # n
      BY <1>2, <1>3, <2>1, <2>3, PlacesApart
    <3> QED
      BY <1>2, <2>1, <3>1 DEF IsListing
  <2> QED
    BY <2>2, <2>3
<1>5. txs[n] \notin Taken
  BY <1>4 DEF Taken, TakenBy
<1>6. n \in Nat /\ First(t) <= n
  BY <1>1 DEF Shared, ProgressOK, Running
<1> QED
  BY <1>1, <1>2, <1>3, <1>5, <1>6

(***************************************************************************)
(* A worker's step, and the accounts.                                      *)
(***************************************************************************)

AwaitedOf(w) ==
  IF w.at \in {"take", "types"} THEN Maps
  ELSE IF w.at = "days" THEN {"days", "categories"}
  ELSE {w.at} \cap Maps

\* What a worker in state w has taken, and has still to merge into map m.
TakenIn(t, w) == {txs[i] : i \in First(t)..(w.next - 1)}
PendingIn(w, m) == IF m \in AwaitedOf(w) THEN w.batch ELSE {}

\* The same of all workers but one.
TakenBesides(t) == UNION {TakenBy(u) : u \in Running \ {t}}
PendingBesides(t, m) ==
  UNION {PendingIn(worker[u], m) : u \in Running \ {t}}

ProgressIn(t, w) ==
  /\ w.next >= First(t)
  /\ w.next + w.left = First(t) + Slice(t)
  /\ txs = <<>> => w.next = First(t)
  /\ C => w.at # "categories"
  /\ w.at = "end" \/ (C /\ w.at \in Maps) => w.left = 0

BatchIn(t, w, ms) ==
  /\ w.batch \subseteq CountedOf(TakenIn(t, w))
  /\ ~C /\ w.at = "take" => w.batch = {}
  /\ w.inside => w.held = ms[w.at]

LEMMA SetsNow ==
  ASSUME NEW t \in Running
  PROVE  /\ Taken = TakenBesides(t) \cup TakenIn(t, worker[t])
         /\ TakenBy(t) = TakenIn(t, worker[t])
         /\ \A m : Unmerged(m) = PendingBesides(t, m) \cup PendingIn(worker[t], m)
<1>1. TakenBy(t) = TakenIn(t, worker[t])
  BY DEF TakenBy, TakenIn
<1>2. Taken = TakenBesides(t) \cup TakenBy(t)
  BY DEF Taken, TakenBesides
<1>3. ASSUME NEW m
      PROVE  Unmerged(m) = PendingBesides(t, m) \cup PendingIn(worker[t], m)
  <2>1. \A u : Awaited(u) = AwaitedOf(worker[u])
    BY DEF Awaited, AwaitedOf
  <2>2. Unmerged(m) = UNION {PendingIn(worker[u], m) : u \in Running}
    BY <2>1 DEF Unmerged, PendingIn
  <2> QED
    BY <2>2 DEF PendingBesides
<1> QED
  BY <1>1, <1>2, <1>3

\* What depends on the call and the list only.
LEMMA SameShares ==
  ASSUME UNCHANGED <<call, txs>>
  PROVE  /\ C' <=> C
         /\ \A t : First(t)' = First(t) /\ Slice(t)' = Slice(t)
         /\ Started(Len(txs))' = Started(Len(txs))
         /\ (txs \in Deduped)' <=> txs \in Deduped
         /\ \A T : CountedOf(T)' = CountedOf(T)
<1>1. C' <=> C
  BY DEF C
<1>2. Started(Len(txs))' = Started(Len(txs)) /\ ChunkFor(Len(txs))' = ChunkFor(Len(txs))
  BY <1>1 DEF Started, ChunkFor, ThreadsFor, C
<1>3. \A t : First(t)' = First(t) /\ Slice(t)' = Slice(t)
  BY <1>2 DEF First, Slice
<1>4. Gathered' = Gathered
  BY DEF Gathered, ListOf
<1>5. (txs \in Deduped)' <=> txs \in Deduped
  BY <1>1, <1>4 DEF Deduped
<1>6. \A T : CountedOf(T)' = CountedOf(T)
  BY DEF CountedOf
<1> QED
  BY <1>1, <1>2, <1>3, <1>5, <1>6

\* Workers as functions.
WorkersAre == worker = [t \in Threads |-> worker[t]]

LEMMA WorkersTyped == Inductive => WorkersAre
<1> SUFFICES ASSUME Inductive
             PROVE  WorkersAre
  OBVIOUS
<1>1. PICK H : worker \in [Threads -> WorkerOf(H)]
  BY InductiveWorkers DEF InParts
<1> QED
  BY <1>1 DEF WorkersAre

LEMMA WorkSets ==
  ASSUME WorkersAre, NEW t \in Running, NEW w, Mind(t, w), w.at # "none",
         UNCHANGED <<call, txs>>
  PROVE  /\ Running' = Running
         /\ worker' = [worker EXCEPT ![t] = w] /\ worker'[t] = w
         /\ \A u \in Threads : u # t => worker'[u] = worker[u]
         /\ Taken' = TakenBesides(t) \cup TakenIn(t, w)
         /\ \A m : Unmerged(m)' = PendingBesides(t, m) \cup PendingIn(w, m)
<1>1. /\ t \in Threads /\ worker' = [worker EXCEPT ![t] = w] /\ worker'[t] = w
      /\ \A u \in Threads : u # t => worker'[u] = worker[u]
  BY DEF Running, Mind, WorkersAre
<1>2. Running' = Running
  BY <1>1 DEF Running
<1>3. \A u : First(u)' = First(u)
  BY SameShares
<1>4. \A u \in Running : u # t => TakenBy(u)' = TakenBy(u)
  BY <1>1, <1>3 DEF TakenBy, Running
<1>5. TakenBy(t)' = TakenIn(t, w)
  BY <1>1, <1>3 DEF TakenBy, TakenIn
<1>6. Taken' = TakenBesides(t) \cup TakenIn(t, w)
  <2>1. Taken' = UNION {TakenBy(u)' : u \in Running}
    BY <1>2 DEF Taken
  <2> QED
    BY <1>4, <1>5, <2>1 DEF TakenBesides
<1>7. ASSUME NEW m
      PROVE  Unmerged(m)' = PendingBesides(t, m) \cup PendingIn(w, m)
  <2>1. \A u \in Running : Awaited(u)' = AwaitedOf(worker'[u])
    BY DEF Awaited, AwaitedOf
  <2>2. Unmerged(m)' = UNION {PendingIn(worker'[u], m) : u \in Running}
    BY <1>2, <2>1 DEF Unmerged, PendingIn
  <2>3. \A u \in Running : u # t => worker'[u] = worker[u]
    BY <1>1 DEF Running
  <2> QED
    BY <1>1, <2>2, <2>3 DEF PendingBesides
<1> QED
  BY <1>1, <1>2, <1>6, <1>7

LEMMA FiguresNamed ==
  FiguresOK <=> FiguresAre(call.filter, C, Taken, [m \in Maps |-> Unmerged(m)],
                           lost, sums, maps)
<1>1. CountedOf(Taken) = CountedIn(call.filter, Taken)
  BY DEF CountedOf, CountedIn
<1>2. \A m \in Maps : [n \in Maps |-> Unmerged(n)][m] = Unmerged(m)
  OBVIOUS
<1> QED
  BY <1>1, <1>2 DEF FiguresOK, FiguresAre

LEMMA FiguresNamedNext ==
  FiguresOK' <=> FiguresAre(call.filter, C, Taken, [m \in Maps |-> Unmerged(m)],
                            lost, sums, maps)'
BY FiguresNamed, PTL

\* What is left to show of a worker's step.
LEMMA WorkAccounts ==
  ASSUME WorkersAre, Shared, BatchesOK, StartedOK,
         main \in {"spawn", "join", "abandon"}, main' = main,
         NEW t \in Running, NEW w, Mind(t, w), w.at # "none",
         UNCHANGED <<call, txs>>, ProgressIn(t, w), BatchIn(t, w, maps'),
         \A u \in Running \ {t} :
           worker[u].inside => maps'[worker[u].at] = maps[worker[u].at],
         FiguresOK', LostOK'
  PROVE  Accounting'
<1>1. /\ Running' = Running /\ worker'[t] = w
      /\ \A u \in Running : u # t => worker'[u] = worker[u]
  BY WorkSets DEF Running
<1>2. /\ C' <=> C
      /\ \A u : First(u)' = First(u) /\ Slice(u)' = Slice(u)
      /\ Started(Len(txs))' = Started(Len(txs))
      /\ (txs \in Deduped)' <=> txs \in Deduped
      /\ \A T : CountedOf(T)' = CountedOf(T)
  BY SameShares
<1>3. ProgressOK'
  <2> SUFFICES ASSUME NEW u \in Running
               PROVE  (/\ worker[u].next >= First(u)
                       /\ worker[u].next + worker[u].left = First(u) + Slice(u)
                       /\ txs = <<>> => worker[u].next = First(u)
                       /\ C => worker[u].at # "categories"
                       /\ worker[u].at = "end" \/ (C /\ worker[u].at \in Maps) =>
                            worker[u].left = 0)'
    BY <1>1 DEF ProgressOK
  <2>1. CASE u = t
    BY <1>1, <1>2, <2>1 DEF ProgressIn
  <2>2. CASE u # t
    BY <1>1, <1>2, <2>2 DEF Shared, ProgressOK
  <2> QED
    BY <2>1, <2>2
<1>4. BatchesOK'
  <2> SUFFICES ASSUME NEW u \in Running
               PROVE  (/\ worker[u].batch \subseteq CountedOf(TakenBy(u))
                       /\ ~C /\ worker[u].at = "take" => worker[u].batch = {}
                       /\ worker[u].inside => worker[u].held = maps[worker[u].at])'
    BY <1>1 DEF BatchesOK
  <2>1. CASE u = t
    <3>1. TakenBy(t)' = TakenIn(t, w)
      BY <1>1, <1>2 DEF TakenBy, TakenIn
    <3>2. CountedOf(TakenBy(t))' = CountedOf(TakenIn(t, w))
      BY <3>1 DEF CountedOf
    <3> QED
      BY <1>1, <1>2, <2>1, <3>2 DEF BatchIn
  <2>2. CASE u # t
    <3>1. TakenBy(u)' = TakenBy(u)
      BY <1>1, <1>2, <2>2 DEF TakenBy
    <3>2. CountedOf(TakenBy(u))' = CountedOf(TakenBy(u))
      BY <3>1 DEF CountedOf
    <3> QED
      BY <1>1, <1>2, <2>2, <3>2 DEF BatchesOK
  <2> QED
    BY <2>1, <2>2
<1>5. StartedOK'
  BY <1>1, <1>2 DEF StartedOK
<1> QED
  BY <1>3, <1>4, <1>5 DEF Accounting

\* Where a worker takes a step, the caller waits or is still starting others.
LEMMA WorkersPlace ==
  ASSUME Inductive, Accounting, NEW t \in Threads, main # "crashed",
         worker[t].at \notin {"none", "end"}
  PROVE  /\ main \in {"spawn", "join", "abandon"} /\ t \in Running
         /\ WorkersAre /\ Shared
         /\ FiguresOK /\ LostOK /\ BatchesOK /\ ProgressOK /\ StartedOK
         /\ ProgressIn(t, worker[t]) /\ BatchIn(t, worker[t], maps)
<1>1. main \in {"spawn", "join", "abandon"} /\ t \in Running
  BY DEF Inductive, TypeOK, ThreadsOK, Running
<1>2. Shared /\ FiguresOK /\ LostOK /\ BatchesOK /\ ProgressOK /\ StartedOK
  BY <1>1, SharedHolds
<1>3. ProgressIn(t, worker[t])
  BY <1>1, <1>2 DEF ProgressOK, ProgressIn
<1>4. BatchIn(t, worker[t], maps)
  BY <1>1, <1>2, SetsNow DEF BatchesOK, BatchIn
<1> QED
  BY <1>1, <1>2, <1>3, <1>4, WorkersTyped

\* The figures after a step that takes nothing and merges nothing.
LEMMA SameFigures ==
  ASSUME WorkersAre, NEW t \in Running, NEW w, Mind(t, w), w.at # "none",
         UNCHANGED <<call, txs, sums, maps, lost>>, FiguresOK, LostOK,
         w.next = worker[t].next,
         \A m \in Maps : PendingIn(w, m) = PendingIn(worker[t], m)
  PROVE  FiguresOK' /\ LostOK'
<1>1. TakenIn(t, w) = TakenIn(t, worker[t])
  BY DEF TakenIn
<1>2. Taken' = Taken
  <2>1. Taken' = TakenBesides(t) \cup TakenIn(t, w)
    BY WorkSets
  <2>2. Taken = TakenBesides(t) \cup TakenIn(t, worker[t])
    BY SetsNow
  <2> QED
    BY <1>1, <2>1, <2>2
<1>3. \A m \in Maps : Unmerged(m)' = Unmerged(m)
  <2>1. \A m : Unmerged(m)' = PendingBesides(t, m) \cup PendingIn(w, m)
    BY WorkSets
  <2>2. \A m : Unmerged(m) = PendingBesides(t, m) \cup PendingIn(worker[t], m)
    BY SetsNow
  <2> QED
    BY <2>1, <2>2
<1>4. C' <=> C
  BY SameShares
<1>5. CountedOf(Taken)' = CountedOf(Taken)
  BY <1>2 DEF CountedOf
<1> QED
  BY <1>2, <1>3, <1>4, <1>5 DEF FiguresOK, LostOK

LEMMA FinishAccounts ==
  ASSUME Inductive, Accounting, main # "crashed", NEW t \in Threads, Finish(t)
  PROVE  Accounting'
<1>1. worker[t].at = "take" /\ worker[t].left = 0
  BY DEF Finish
<1>2. /\ main \in {"spawn", "join", "abandon"} /\ t \in Running
      /\ WorkersAre /\ Shared
      /\ FiguresOK /\ LostOK /\ BatchesOK /\ ProgressOK /\ StartedOK
      /\ ProgressIn(t, worker[t]) /\ BatchIn(t, worker[t], maps)
  BY <1>1, WorkersPlace
<1>3. PICK a : a = (IF C THEN "types" ELSE "end")
  OBVIOUS
<1>4. PICK w : w = [worker[t] EXCEPT !.at = a]
  OBVIOUS
<1>5. Mind(t, w) /\ UNCHANGED <<call, main, txs, lock, sums, maps, lost, out>>
  BY <1>3, <1>4 DEF Finish
<1>6. /\ w.at = a /\ w.next = worker[t].next /\ w.left = worker[t].left
      /\ w.batch = worker[t].batch /\ w.inside = worker[t].inside
      /\ worker[t].inside = FALSE
  <2>1. PICK H : worker \in [Threads -> WorkerOf(H)]
    BY InductiveWorkers DEF InParts
  <2>2. worker[t] \in WorkerOf(H)
    BY <2>1
  <2>3. worker[t].inside = FALSE
    BY <1>1, InductiveWorkers, <2>2 DEF InParts, LockOf, Maps, WorkerOf
  <2> QED
    BY <1>4, <2>2, <2>3 DEF WorkerOf
<1>7. \A m \in Maps : PendingIn(w, m) = PendingIn(worker[t], m)
  BY <1>1, <1>2, <1>3, <1>6 DEF PendingIn, AwaitedOf, Maps, BatchIn
<1>8. w.at # "none"
  BY <1>3, <1>6
<1>9. FiguresOK' /\ LostOK'
  BY <1>2, <1>5, <1>6, <1>7, <1>8, SameFigures
<1>10. ProgressIn(t, w)
  BY <1>1, <1>2, <1>3, <1>6 DEF ProgressIn
<1>11. BatchIn(t, w, maps')
  <2>1. TakenIn(t, w) = TakenIn(t, worker[t])
    BY <1>6 DEF TakenIn
  <2> QED
    BY <1>2, <1>3, <1>6, <2>1 DEF BatchIn
<1> QED
  BY <1>2, <1>5, <1>8, <1>9, <1>10, <1>11, WorkAccounts

LEMMA AcquireAccounts ==
  ASSUME Inductive, Accounting, main # "crashed", NEW t \in Threads, Acquire(t)
  PROVE  Accounting'
<1>1. worker[t].at \in Maps /\ worker[t].at \notin {"none", "end"}
  BY DEF Acquire, Maps
<1>2. /\ main \in {"spawn", "join", "abandon"} /\ t \in Running
      /\ WorkersAre /\ Shared
      /\ FiguresOK /\ LostOK /\ BatchesOK /\ ProgressOK /\ StartedOK
      /\ ProgressIn(t, worker[t]) /\ BatchIn(t, worker[t], maps)
  BY <1>1, WorkersPlace
<1>3. PICK w : w = [worker[t] EXCEPT !.inside = TRUE, !.held = maps[worker[t].at]]
  OBVIOUS
<1>4. Mind(t, w) /\ UNCHANGED <<call, main, txs, sums, maps, lost, out>>
  BY <1>3 DEF Acquire
<1>5. /\ w.at = worker[t].at /\ w.next = worker[t].next
      /\ w.left = worker[t].left
      /\ w.batch = worker[t].batch /\ w.held = maps[w.at]
  <2>1. PICK H : worker \in [Threads -> WorkerOf(H)]
    BY InductiveWorkers DEF InParts
  <2>2. worker[t] \in WorkerOf(H)
    BY <2>1
  <2> QED
    BY <1>3, <2>2 DEF WorkerOf
<1>6. \A m \in Maps : PendingIn(w, m) = PendingIn(worker[t], m)
  BY <1>5 DEF PendingIn, AwaitedOf
<1>7. w.at # "none"
  BY <1>1, <1>5
<1>8. FiguresOK' /\ LostOK'
  BY <1>2, <1>4, <1>5, <1>6, <1>7, SameFigures
<1>9. ProgressIn(t, w)
  BY <1>2, <1>5 DEF ProgressIn
<1>10. BatchIn(t, w, maps')
  <2>1. TakenIn(t, w) = TakenIn(t, worker[t])
    BY <1>5 DEF TakenIn
  <2> QED
    BY <1>2, <1>4, <1>5, <2>1 DEF BatchIn
<1> QED
  BY <1>2, <1>4, <1>7, <1>8, <1>9, <1>10, WorkAccounts

LEMMA TakeAccounts ==
  ASSUME Inductive, Accounting, main # "crashed", NEW t \in Threads, Take(t)
  PROVE  Accounting'
<1>1. /\ worker[t].at = "take" /\ worker[t].left > 0
      /\ UNCHANGED <<call, txs, lock, maps, out>>
  BY DEF Take
<1>2. /\ main \in {"spawn", "join", "abandon"} /\ t \in Running
      /\ WorkersAre /\ Shared
      /\ FiguresOK /\ LostOK /\ BatchesOK /\ ProgressOK /\ StartedOK
      /\ ProgressIn(t, worker[t]) /\ BatchIn(t, worker[t], maps)
  BY <1>1, WorkersPlace
<1>3. CASE worker[t].next > Len(txs)
  <2>1. main' = "crashed" /\ UNCHANGED <<worker, sums, lost>>
    BY <1>3 DEF Take
  <2>2. /\ C' <=> C
        /\ \A u : First(u)' = First(u) /\ Slice(u)' = Slice(u)
        /\ Started(Len(txs))' = Started(Len(txs))
        /\ (txs \in Deduped)' <=> txs \in Deduped
        /\ \A T : CountedOf(T)' = CountedOf(T)
    BY <1>1, SameShares
  <2>3. Running' = Running /\ \A u : TakenBy(u)' = TakenBy(u)
    BY <1>1, <2>1, <2>2 DEF Running, TakenBy
  <2>4. Taken' = Taken /\ \A m : Unmerged(m)' = Unmerged(m)
    BY <2>1, <2>3 DEF Taken, Unmerged, Awaited
  <2>5. CountedOf(Taken)' = CountedOf(Taken)
        /\ \A u : CountedOf(TakenBy(u))' = CountedOf(TakenBy(u))
    BY <1>1, <2>3, <2>4 DEF CountedOf
  <2>6. FiguresOK' /\ LostOK'
    BY <1>1, <1>2, <2>1, <2>2, <2>4, <2>5 DEF FiguresOK, LostOK
  <2>7. BatchesOK'
    BY <1>1, <1>2, <2>1, <2>2, <2>3, <2>5 DEF BatchesOK
  <2>8. ProgressOK'
    BY <1>1, <1>2, <2>1, <2>2, <2>3 DEF ProgressOK
  <2>9. StartedOK'
    BY <1>1, <1>2, <2>1, <2>2, <2>3 DEF StartedOK
  <2> QED
    BY <2>1, <2>6, <2>7, <2>8, <2>9 DEF Accounting
<1>4. CASE ~(worker[t].next > Len(txs))
  <2>1. PICK n, l : n = worker[t].next /\ l = worker[t].left
    OBVIOUS
  <2>2. PICK tx : tx = txs[n]
    OBVIOUS
  <2>3. n \in Nat /\ l \in Nat /\ l > 0 /\ Len(txs) \in Nat
    BY <1>1, <1>2, <2>1 DEF Shared, IsListing
  <2>4. /\ tx \in Tx /\ tx \notin Taken
        /\ First(t) \in Nat /\ First(t) <= n
    BY <1>1, <1>2, <1>4, <2>1, <2>2, <2>3, NextFresh
  <2>5. PICK q : q = [worker[t] EXCEPT !.next = @ + 1, !.left = @ - 1]
    OBVIOUS
  <2>6. PICK H : worker[t] \in WorkerOf(H)
    <3>1. PICK H : worker \in [Threads -> WorkerOf(H)]
      BY InductiveWorkers DEF InParts
    <3> QED
      BY <3>1
  <2>7. worker[t].inside = FALSE
    BY <1>1, <2>6, InductiveWorkers DEF InParts, LockOf, Maps, WorkerOf
  <2>8. /\ q.at = "take" /\ q.next = n + 1 /\ q.left = l - 1
        /\ q.batch = worker[t].batch /\ q.inside = FALSE
    BY <1>1, <2>1, <2>5, <2>6, <2>7 DEF WorkerOf
  <2>9. main' = main
    BY <1>4 DEF Take
  <2>10. \A w : w.next = n + 1 => TakenIn(t, w) = TakenIn(t, worker[t]) \cup {tx}
    <3> SUFFICES ASSUME NEW w, w.next = n + 1
                 PROVE  TakenIn(t, w) = TakenIn(t, worker[t]) \cup {tx}
      OBVIOUS
    <3>1. First(t)..(w.next - 1) = (First(t)..(n - 1)) \cup {n}
      BY <2>3, <2>4
    <3> QED
      BY <2>1, <2>2, <3>1 DEF TakenIn
  <2>11. txs # <<>>
    BY <1>4, <2>1, <2>3, <2>4, <1>2, TakenPlaces
  <2>12. Taken \in SUBSET Tx /\ IsFiniteSet(Taken)
    BY <1>2, TakenSets
  <2> DEFINE U == [m \in Maps |-> Unmerged(m)]
  <2>13. FiguresAre(call.filter, C, Taken, U, lost, sums, maps)
    BY <1>2, FiguresNamed
  <2>14. C' <=> C
    BY <1>1, SameShares
  <2>15. CASE ~Counted(call.filter, tx) /\ Mind(t, q) /\ UNCHANGED <<sums, lost>>
    <3>1. q.at # "none"
      BY <2>8
    <3>2. Taken' = Taken \cup {tx}
      BY <1>1, <1>2, <2>8, <2>10, <2>15, <3>1, WorkSets, SetsNow
    <3>3. \A m \in Maps : Unmerged(m)' = Unmerged(m)
      <4>1. \A m \in Maps : PendingIn(q, m) = PendingIn(worker[t], m)
        BY <1>1, <2>8 DEF PendingIn, AwaitedOf
      <4>2. \A m : Unmerged(m)' = PendingBesides(t, m) \cup PendingIn(q, m)
        BY <1>1, <1>2, <2>15, <3>1, WorkSets
      <4>3. \A m : Unmerged(m) = PendingBesides(t, m) \cup PendingIn(worker[t], m)
        BY <1>2, SetsNow
      <4> QED
        BY <4>1, <4>2, <4>3
    <3>4. [m \in Maps |-> Unmerged(m)]' = U
      BY <3>3
    <3>5. FiguresAre(call.filter, C, Taken \cup {tx}, U, lost, sums, maps)
      BY <2>13, <2>15, FiguresStep1
    <3>6. FiguresOK' /\ LostOK'
      <4>1. FiguresAre(call.filter, C, Taken, [m \in Maps |-> Unmerged(m)],
                       lost, sums, maps)'
        BY <1>1, <2>14, <2>15, <3>2, <3>4, <3>5
      <4>2. LostOK'
        BY <1>2, <2>14, <2>15 DEF LostOK
      <4> QED
        BY <4>1, <4>2, FiguresNamedNext
    <3>7. ProgressIn(t, q)
      <4>1. PICK a, b : a = First(t) /\ b = Slice(t)
        OBVIOUS
      <4>2. n + l = a + b
        BY <1>2, <2>1, <4>1 DEF ProgressIn
      <4>3. q.next >= a /\ q.next + q.left = n + l
        BY <2>3, <2>4, <2>8, <4>1
      <4> QED
        BY <2>8, <2>11, <4>1, <4>2, <4>3 DEF ProgressIn, Maps
    <3>8. BatchIn(t, q, maps')
      <4>1. CountedOf(TakenIn(t, worker[t])) \subseteq CountedOf(TakenIn(t, q))
        BY <2>8, <2>10 DEF CountedOf
      <4> QED
        BY <1>1, <1>2, <2>8, <4>1 DEF BatchIn
    <3> QED
      BY <1>1, <1>2, <2>9, <2>15, <3>1, <3>6, <3>7, <3>8, WorkAccounts
  <2>16. CASE /\ Counted(call.filter, tx)
              /\ sums' = Added(sums, call.filter, tx)
              /\ Mind(t, [q EXCEPT !.batch = @ \cup {tx},
                                   !.at = IF C THEN "take" ELSE "types"])
              /\ \/ UNCHANGED lost
                 \/ C /\ lost' = [lost EXCEPT !["days"] = @ \cup {tx}]
    <3>1. PICK a : a = (IF C THEN "take" ELSE "types")
      OBVIOUS
    <3>2. PICK w : w = [q EXCEPT !.batch = @ \cup {tx}, !.at = a]
      OBVIOUS
    <3>3. /\ w.at = a /\ w.next = n + 1 /\ w.left = l - 1
          /\ w.batch = worker[t].batch \cup {tx} /\ w.inside = FALSE
      BY <2>5, <2>6, <2>8, <3>2 DEF WorkerOf
    <3>4. Mind(t, w) /\ w.at # "none"
      BY <2>16, <3>1, <3>2, <3>3
    <3>5. Taken' = Taken \cup {tx}
      BY <1>1, <1>2, <2>10, <3>3, <3>4, WorkSets, SetsNow
    <3>6. \A m \in Maps : Unmerged(m)' = Unmerged(m) \cup {tx}
      <4>1. \A m \in Maps : PendingIn(w, m) = PendingIn(worker[t], m) \cup {tx}
        BY <1>1, <3>1, <3>3 DEF PendingIn, AwaitedOf
      <4> QED
        BY <1>1, <1>2, <3>4, <4>1, WorkSets, SetsNow
    <3> DEFINE V == [m \in Maps |-> Unmerged(m) \cup {tx}]
    <3>7. [m \in Maps |-> Unmerged(m)]' = V
      BY <3>6
    <3>8. /\ LostOK'
          /\ \A m \in Maps : lost[m] \subseteq lost'[m]
                              /\ lost'[m] \subseteq lost[m] \cup {tx}
      <4>1. lost \in LostMaps
        BY InductiveWorkers DEF InParts
      <4>2. CASE UNCHANGED lost
        BY <1>2, <2>14, <4>2 DEF LostOK
      <4>3. CASE C /\ lost' = [lost EXCEPT !["days"] = @ \cup {tx}]
        <5>1. \A m \in Maps : lost'[m] = IF m = "days" THEN lost[m] \cup {tx}
                                         ELSE lost[m]
          BY <4>1, <4>3 DEF LostMaps
        <5> QED
          BY <1>2, <2>14, <4>3, <5>1 DEF LostOK, Maps
      <4> QED
        BY <2>16, <4>2, <4>3
    <3>9. FiguresAre(call.filter, C, Taken \cup {tx}, V, lost',
                     Added(sums, call.filter, tx), maps)
      <4>1. \A m \in Maps : V[m] = U[m] \cup {tx}
        OBVIOUS
      <4> HIDE DEF U, V
      <4> QED
        BY <2>4, <2>12, <2>13, <2>16, <3>8, <4>1, FiguresStep2
    <3>10. FiguresOK'
      <4>1. FiguresAre(call.filter, C, Taken, [m \in Maps |-> Unmerged(m)],
                       lost, sums, maps)'
        BY <1>1, <2>14, <2>16, <3>5, <3>7, <3>9
      <4> QED
        BY <4>1, FiguresNamedNext
    <3>11. ProgressIn(t, w)
      BY <1>2, <2>1, <2>3, <2>4, <2>11, <3>1, <3>3 DEF ProgressIn, Maps
    <3>12. BatchIn(t, w, maps')
      <4>1. CountedOf(TakenIn(t, w)) = CountedOf(TakenIn(t, worker[t])) \cup {tx}
        BY <2>10, <2>16, <3>3 DEF CountedOf
      <4> QED
        BY <1>1, <1>2, <3>1, <3>3, <4>1 DEF BatchIn
    <3> QED
      BY <1>1, <1>2, <2>9, <3>4, <3>10, <3>11, <3>12, <3>8, WorkAccounts
  <2> QED
    BY <1>4, <2>1, <2>2, <2>5, <2>15, <2>16 DEF Take, MayLose
<1> QED
  BY <1>3, <1>4

\* What a merge leaves to be done.
LEMMA MergePending ==
  ASSUME NEW v, NEW w, v.at \in Maps, C => v.at # "categories",
         w.at = CASE v.at = "types" -> "days"
                  [] v.at = "days" /\ C -> "end"
                  [] v.at = "days" /\ ~C ->
                       IF \E tx \in v.batch : Into("categories", tx)
                       THEN "categories" ELSE "take"
                  [] v.at = "categories" -> "take",
         w.batch = IF w.at \in {"take", "end"} THEN {} ELSE v.batch
  PROVE  /\ PendingIn(v, v.at) = v.batch /\ PendingIn(w, v.at) = {}
         /\ \A n \in Maps \ {v.at} :
              \/ PendingIn(w, n) = PendingIn(v, n)
              \/ C /\ n = "categories"
              \/ /\ PendingIn(v, n) = v.batch /\ PendingIn(w, n) = {}
                 /\ Strange(n, v.batch)
         /\ w.at \in {"days", "categories", "take", "end"}
         /\ C => w.at \in {"days", "end"}
         /\ ~C => w.at # "end"
<1> USE DEF PendingIn, AwaitedOf, Maps
<1>1. CASE v.at = "types"
  <2>1. w.at = "days" /\ w.batch = v.batch
    BY <1>1
  <2> QED
    BY <1>1, <2>1
<1>2. CASE v.at = "days" /\ C
  <2>1. w.at = "end" /\ w.batch = {}
    BY <1>2
  <2> QED
    BY <1>2, <2>1
<1>3. CASE v.at = "days" /\ ~C /\ \E tx \in v.batch : Into("categories", tx)
  <2>1. w.at = "categories" /\ w.batch = v.batch
    BY <1>3
  <2> QED
    BY <1>3, <2>1
<1>4. CASE v.at = "days" /\ ~C /\ ~\E tx \in v.batch : Into("categories", tx)
  <2>1. w.at = "take" /\ w.batch = {}
    BY <1>4
  <2>2. Strange("categories", v.batch)
    BY <1>4 DEF Strange
  <2> QED
    BY <1>4, <2>1, <2>2
<1>5. CASE v.at = "categories"
  <2>1. w.at = "take" /\ w.batch = {} /\ ~C
    BY <1>5
  <2> QED
    BY <1>5, <2>1
<1> QED
  BY <1>1, <1>2, <1>3, <1>4, <1>5

LEMMA MergeAccounts ==
  ASSUME Inductive, Accounting, main # "crashed", NEW t \in Threads, Merge(t)
  PROVE  Accounting'
<1>1. worker[t].at \in Maps /\ worker[t].inside /\ worker[t].at \notin {"none", "end"}
  BY DEF Merge, Maps
<1>2. /\ main \in {"spawn", "join", "abandon"} /\ t \in Running
      /\ WorkersAre /\ Shared
      /\ FiguresOK /\ LostOK /\ BatchesOK /\ ProgressOK /\ StartedOK
      /\ ProgressIn(t, worker[t]) /\ BatchIn(t, worker[t], maps)
  BY <1>1, WorkersPlace
<1>3. PICK v, m, B : v = worker[t] /\ m = worker[t].at /\ B = worker[t].batch
  OBVIOUS
<1>4. PICK a : a = After(t)
  OBVIOUS
<1>5. PICK T : T = IF a \in {"take", "end"} THEN {} ELSE B
  OBVIOUS
<1>6. PICK w : w = [v EXCEPT !.at = a, !.inside = FALSE, !.held = <<>>, !.batch = T]
  OBVIOUS
<1>7. PICK H : v \in WorkerOf(H)
  <2>1. PICK H : worker \in [Threads -> WorkerOf(H)]
    BY InductiveWorkers DEF InParts
  <2> QED
    BY <1>3, <2>1
<1>8. /\ w.at = a /\ w.next = v.next /\ w.left = v.left /\ w.inside = FALSE
      /\ w.batch = T
  BY <1>6, <1>7 DEF WorkerOf
<1>9. /\ Mind(t, w) /\ UNCHANGED <<call, main, txs, sums, out>>
      /\ maps' = [maps EXCEPT ![m] =
                    Merged(v.held, Wrapped(Total(m, call.filter, B \ lost'[m])))]
      /\ \E gone \in Dropped(t) :
           lost' = [lost EXCEPT ![m] = @ \cup {tx \in B : KeyOf(m, tx) \in gone}]
  BY <1>3, <1>4, <1>5, <1>6 DEF Merge
<1>10. /\ PendingIn(v, m) = B /\ PendingIn(w, m) = {}
       /\ \A n \in Maps \ {m} :
            \/ PendingIn(w, n) = PendingIn(v, n)
            \/ C /\ n = "categories"
            \/ PendingIn(v, n) = B /\ PendingIn(w, n) = {} /\ Strange(n, B)
       /\ a \in {"days", "categories", "take", "end"}
       /\ C => a \in {"days", "end"}
       /\ ~C => a # "end"
  <2>1. C => v.at # "categories"
    BY <1>2, <1>3 DEF ProgressIn
  <2>2. /\ w.at = CASE v.at = "types" -> "days"
                    [] v.at = "days" /\ C -> "end"
                    [] v.at = "days" /\ ~C ->
                         IF \E tx \in v.batch : Into("categories", tx)
                         THEN "categories" ELSE "take"
                    [] v.at = "categories" -> "take"
        /\ w.batch = IF w.at \in {"take", "end"} THEN {} ELSE v.batch
    BY <1>3, <1>4, <1>5, <1>8 DEF After
  <2>3. v.at = m /\ v.batch = B /\ w.at = a /\ m \in Maps
    BY <1>1, <1>3, <1>8
  <2> QED
    BY <2>1, <2>2, <2>3, MergePending
<1>11. w.at # "none"
  BY <1>8, <1>10
<1>12. TakenIn(t, w) = TakenIn(t, v)
  BY <1>8 DEF TakenIn
<1>13. Taken' = Taken
  <2>1. Taken' = TakenBesides(t) \cup TakenIn(t, w)
    BY <1>2, <1>9, <1>11, WorkSets
  <2>2. Taken = TakenBesides(t) \cup TakenIn(t, worker[t])
    BY <1>2, SetsNow
  <2> QED
    BY <1>3, <1>12, <2>1, <2>2
<1>14. /\ \A n : Unmerged(n)' = PendingBesides(t, n) \cup PendingIn(w, n)
       /\ \A n : Unmerged(n) = PendingBesides(t, n) \cup PendingIn(v, n)
  <2>1. \A n : Unmerged(n)' = PendingBesides(t, n) \cup PendingIn(w, n)
    BY <1>2, <1>9, <1>11, WorkSets
  <2>2. \A n : Unmerged(n) = PendingBesides(t, n) \cup PendingIn(worker[t], n)
    BY <1>2, SetsNow
  <2> QED
    BY <1>3, <2>1, <2>2
<1>15. \A n : PendingBesides(t, n) \cap B = {}
  <2> SUFFICES ASSUME NEW n, NEW u \in Running \ {t}, NEW x \in PendingIn(worker[u], n)
               PROVE  x \notin B
    BY DEF PendingBesides
  <2>1. x \in worker[u].batch
    BY DEF PendingIn
  <2>2. x \in TakenBy(u)
    BY <1>2, <2>1 DEF BatchesOK, CountedOf
  <2>3. B \subseteq TakenBy(t)
    BY <1>2, <1>3 DEF BatchesOK, CountedOf
  <2>4. TakenBy(t) \cap TakenBy(u) = {}
    BY <1>2, TakenSets
  <2> QED
    BY <2>2, <2>3, <2>4
<1> DEFINE U == [n \in Maps |-> Unmerged(n)]
           V == [n \in Maps |-> PendingBesides(t, n) \cup PendingIn(w, n)]
<1>16. U' = V
  BY <1>14
<1>17. FiguresAre(call.filter, C, Taken, U, lost, sums, maps)
  BY <1>2, FiguresNamed
<1>18. v.held = maps[m] /\ DOMAIN maps = Maps /\ m \in Maps
  BY <1>1, <1>2, <1>3, <1>17 DEF BatchIn, FiguresAre
<1>19. /\ LostOK' /\ lost[m] \subseteq lost'[m] /\ lost'[m] \subseteq lost[m] \cup B
       /\ \A n \in Maps \ {m} : lost'[n] = lost[n]
  <2>1. PICK gone \in Dropped(t) :
          lost' = [lost EXCEPT ![m] = @ \cup {tx \in B : KeyOf(m, tx) \in gone}]
    BY <1>9
  <2>2. lost \in LostMaps
    BY InductiveWorkers DEF InParts
  <2>3. PICK D : D = {tx \in B : KeyOf(m, tx) \in gone}
    OBVIOUS
  <2>4. D \subseteq B /\ (~(C /\ m = "days") => D = {})
    BY <1>3, <2>1, <2>3 DEF Dropped
  <2>5. \A n \in Maps : lost'[n] = IF n = m THEN lost[n] \cup D ELSE lost[n]
    BY <2>1, <2>2, <2>3 DEF LostMaps
  <2>6. LostOK'
    <3>1. C' <=> C
      BY <1>9, SameShares
    <3> QED
      BY <1>2, <2>4, <2>5, <3>1 DEF LostOK, Maps
  <2> QED
    BY <1>18, <2>4, <2>5, <2>6
<1>20. FiguresAre(call.filter, C, Taken, V, lost', sums, maps')
  <2>1. Taken \in SUBSET Tx /\ IsFiniteSet(Taken)
    BY <1>2, TakenSets
  <2>2. B \subseteq CountedIn(call.filter, Taken)
    <3>1. B \subseteq CountedOf(TakenBy(t)) /\ TakenBy(t) \subseteq Taken
      BY <1>2, <1>3 DEF BatchesOK, Taken
    <3> QED
      BY <3>1 DEF CountedOf, CountedIn
  <2>3. ~(C /\ m = "categories") /\ C \in BOOLEAN
    BY <1>2, <1>3 DEF ProgressIn, C
  <2>4. \A n \in Maps : /\ U[n] = PendingBesides(t, n) \cup PendingIn(v, n)
                        /\ V[n] = PendingBesides(t, n) \cup PendingIn(w, n)
    BY <1>14
  <2> HIDE DEF U, V
  <2>5. B \subseteq U[m] /\ V[m] = U[m] \ B
    BY <1>10, <1>15, <1>18, <2>4
  <2>6. \A n \in Maps \ {m} :
           \/ V[n] = U[n]
           \/ C /\ n = "categories"
           \/ V[n] = U[n] \ B /\ B \subseteq U[n] /\ Strange(n, B)
    <3> SUFFICES ASSUME NEW n \in Maps \ {m}
                 PROVE  \/ V[n] = U[n]
                        \/ C /\ n = "categories"
                        \/ V[n] = U[n] \ B /\ B \subseteq U[n] /\ Strange(n, B)
      OBVIOUS
    <3>1. CASE PendingIn(w, n) = PendingIn(v, n)
      BY <2>4, <3>1
    <3>2. CASE PendingIn(v, n) = B /\ PendingIn(w, n) = {} /\ Strange(n, B)
      <4>1. U[n] = PendingBesides(t, n) \cup B /\ V[n] = PendingBesides(t, n)
        BY <2>4, <3>2
      <4>2. PendingBesides(t, n) \cap B = {}
        BY <1>15
      <4> QED
        BY <3>2, <4>1, <4>2
    <3> QED
      BY <1>10, <3>1, <3>2
  <2>7. PICK f, c, T0, M :
          /\ f = call.filter /\ c = C /\ T0 = Taken /\ M = lost'
    OBVIOUS
  <2>8. /\ T0 \in SUBSET Tx /\ IsFiniteSet(T0) /\ c \in BOOLEAN
        /\ FiguresAre(f, c, T0, U, lost, sums, maps)
        /\ B \subseteq CountedIn(f, T0) /\ ~(c /\ m = "categories")
    BY <1>17, <2>1, <2>2, <2>3, <2>7
  <2>9. Merging(c, m, B, U, lost, V, M)
    BY <1>19, <2>5, <2>6, <2>7 DEF Merging
  <2>10. PICK z :
           z = [maps EXCEPT ![m] = Merged(maps[m], Wrapped(Total(m, f, B \ M[m])))]
    OBVIOUS
  <2>11. FiguresAre(f, c, T0, V, M, sums, z)
    BY <1>18, <2>8, <2>9, <2>10, FiguresStep3
  <2> QED
    BY <1>9, <1>18, <2>7, <2>10, <2>11
<1>21. FiguresOK'
  <2>1. C' <=> C
    BY <1>9, SameShares
  <2>2. FiguresAre(call.filter, C, Taken, U, lost, sums, maps)'
    BY <1>9, <1>13, <1>16, <1>20, <2>1
  <2> QED
    BY <2>2, FiguresNamedNext
<1>22. ProgressIn(t, w)
  BY <1>1, <1>2, <1>3, <1>8, <1>10 DEF ProgressIn, Maps
<1>23. BatchIn(t, w, maps')
  BY <1>2, <1>3, <1>5, <1>8, <1>12 DEF BatchIn
<1>24. \A u \in Running \ {t} :
         worker[u].inside => maps'[worker[u].at] = maps[worker[u].at]
  <2> SUFFICES ASSUME NEW u \in Running \ {t}, worker[u].inside
               PROVE  maps'[worker[u].at] = maps[worker[u].at]
    OBVIOUS
  <2>1. u \in Threads /\ t \in Threads
    BY DEF Running
  <2>2. LockOf(worker[u], u, lock) /\ LockOf(worker[t], t, lock)
    BY <2>1, InductiveWorkers DEF InParts
  <2>3. worker[u].at \in Maps /\ lock[worker[u].at] = u /\ lock[m] = t
    BY <1>1, <1>3, <2>2 DEF LockOf
  <2> QED
    BY <1>9, <1>18, <2>3
<1> QED
  BY <1>2, <1>9, <1>11, <1>21, <1>22, <1>23, <1>24, <1>19, WorkAccounts

(***************************************************************************)
(* The caller, and the accounts.                                           *)
(***************************************************************************)

\* Once all threads are through, everything has been taken and merged.
LEMMA AllTaken ==
  ASSUME Inductive, Accounting, main \in {"join", "categorise"},
         \A t \in Threads : worker[t].at \in {"none", "end"}
  PROVE  /\ Taken = Gathered /\ \A m : Unmerged(m) = {}
         /\ call \in Calls /\ IsListing(txs)
         /\ sums = Wrapped(SumsOf(call.filter, Gathered)) /\ LostOK
         /\ maps = [m \in Maps |->
                      IF C /\ m = "categories" THEN <<>>
                      ELSE Wrapped(Total(m, call.filter,
                             CountedIn(call.filter, Gathered) \ lost[m]))]
<1>1. Shared /\ FiguresOK /\ LostOK /\ BatchesOK /\ ProgressOK /\ StartedOK
  BY SharedHolds
<1>2. /\ call \in Calls /\ IsListing(txs)
      /\ Running \subseteq 1..Started(Len(txs))
      /\ \A t \in 1..Started(Len(txs)) : t \in Running
      /\ \A t \in Running : worker[t].at = "end"
  BY <1>1 DEF Shared, StartedOK, Running
<1>3. Taken \subseteq Gathered
  BY <1>1, TakenSets DEF Taken
<1>4. Gathered \subseteq Taken
  <2> SUFFICES ASSUME NEW x \in Gathered
               PROVE  x \in Taken
    OBVIOUS
  <2>1. PICK j \in 1..Len(txs) : txs[j] = x
    BY <1>2 DEF IsListing
  <2>2. txs # <<>> /\ txs \in Seq(Tx) /\ Len(txs) < SizeT
    BY <1>2, <2>1 DEF IsListing
  <2>3. PICK t \in 1..Started(Len(txs)) : j \in First(t)..(First(t) + Slice(t) - 1)
    BY <1>2, <2>2, SlicesCover
  <2>4. t \in Running /\ worker[t].at = "end"
    BY <1>2
  <2>5. /\ worker[t].left = 0 /\ worker[t].next \in Nat
        /\ worker[t].next + worker[t].left = First(t) + Slice(t)
    BY <1>1, <2>4 DEF Shared, ProgressOK, Running
  <2>6. worker[t].next = First(t) + Slice(t)
    BY <2>5
  <2>7. x \in TakenBy(t)
    <3>1. j \in First(t)..(worker[t].next - 1)
      <4>1. First(t) \in Nat /\ Slice(t) \in Nat
        BY <1>2, <2>2, SliceHas
      <4> QED
        BY <2>3, <2>6, <4>1
    <3> QED
      BY <2>1, <3>1 DEF TakenBy
  <2> QED
    BY <2>4, <2>7 DEF Taken
<1>5. \A m : Unmerged(m) = {}
  BY <1>2 DEF Unmerged, Awaited, Maps
<1>6. Taken = Gathered
  BY <1>3, <1>4
<1>7. FiguresAre(call.filter, C, Taken, [m \in Maps |-> Unmerged(m)],
                lost, sums, maps)
  BY <1>1, FiguresNamed
<1>8. PICK K : K = CountedIn(call.filter, Gathered)
  OBVIOUS
<1>9. \A m \in Maps : K \ [n \in Maps |-> Unmerged(n)][m] = K
  BY <1>5
<1> QED
  BY <1>1, <1>2, <1>5, <1>6, <1>7, <1>8, <1>9 DEF FiguresAre

\* What is handed out of figures, field by field.
LEMMA AskedForParts ==
  ASSUME NEW c, NEW s, NEW ms, ~c.extended
  PROVE  AskedFor(c, [sums |-> s, maps |-> ms])
           = [sums |-> [s EXCEPT !.count = 0],
              maps |-> [ms EXCEPT !["categories"] = <<>>]]
BY DEF AskedFor

LEMMA ReportedIs ==
  ASSUME call \in Calls, NEW L
  PROVE  /\ Asked(call) = CountedIn(call.filter, Gathered)
         /\ Reported(call, L) = AskedFor(call,
              [sums |-> Wrapped(SumsOf(call.filter, Gathered)),
               maps |-> [m \in Maps |->
                           Wrapped(Total(m, call.filter,
                             CountedIn(call.filter, Gathered) \ L[m]))]])
<1>1. Asked(call) = CountedIn(call.filter, Gathered)
  BY DEF Asked, Gathered, ListOf, CountedIn
<1>2. {t \in Asked(call) : Counted(call.filter, t)}
        = {t \in Gathered : Counted(call.filter, t)}
  BY <1>1 DEF CountedIn
<1>3. SumsOf(call.filter, Asked(call)) = SumsOf(call.filter, Gathered)
  BY <1>2 DEF SumsOf
<1> QED
  BY <1>1, <1>3 DEF Reported

\* What the caller returns is right but for what was lost.
ReportedOK(value, L) ==
  /\ value = Reported(call, L)
  /\ L["types"] = {} /\ L["categories"] \subseteq Asked(call)
  /\ \A t \in L["categories"] : Into("categories", t)
  /\ ~C => L = NoneShort

LEMMA CollectedIsReported ==
  ASSUME Inductive, Accounting, main = "join", Joined, ~(C /\ call.extended)
  PROVE  ReportedOK(Collected([sums |-> sums, maps |-> maps]), lost)
<1> DEFINE f == call.filter
           K == CountedIn(f, Gathered)
           all == [m \in Maps |-> Wrapped(Total(m, f, K \ lost[m]))]
<1>1. /\ call \in Calls /\ sums = Wrapped(SumsOf(f, Gathered)) /\ LostOK
      /\ maps = [m \in Maps |-> IF C /\ m = "categories" THEN <<>>
                                ELSE Wrapped(Total(m, f, K \ lost[m]))]
  BY JoinedQuiet, AllTaken
<1>2. Reported(call, lost) = AskedFor(call, [sums |-> sums, maps |-> all])
  BY <1>1, ReportedIs
<1>3. \A figures : Collected(figures) = AskedFor(call, figures)
  BY DEF Collected, AskedFor
<1> HIDE DEF f, K
<1>4. Collected([sums |-> sums, maps |-> maps]) = Reported(call, lost)
  <2>1. CASE call.extended
    <3>1. maps = all
      BY <1>1, <2>1
    <3> QED
      BY <1>2, <1>3, <3>1
  <2>2. CASE ~call.extended
    <3>1. [maps EXCEPT !["categories"] = <<>>] = [all EXCEPT !["categories"] = <<>>]
      BY <1>1 DEF Maps
    <3> HIDE DEF all
    <3>2. AskedFor(call, [sums |-> sums, maps |-> maps])
            = [sums |-> [sums EXCEPT !.count = 0],
               maps |-> [maps EXCEPT !["categories"] = <<>>]]
      BY <2>2, AskedForParts
    <3>3. AskedFor(call, [sums |-> sums, maps |-> all])
            = [sums |-> [sums EXCEPT !.count = 0],
               maps |-> [all EXCEPT !["categories"] = <<>>]]
      BY <2>2, AskedForParts
    <3> QED
      BY <1>2, <1>3, <3>1, <3>2, <3>3
  <2> QED
    BY <2>1, <2>2
<1>5. ~C => lost = NoneShort
  <2>1. lost \in LostMaps
    BY InductiveWorkers DEF InParts
  <2> QED
    BY <1>1, <2>1 DEF LostOK, LostMaps, NoneShort, Maps
<1> QED
  BY <1>1, <1>4, <1>5 DEF ReportedOK, LostOK

\* The second pass lets the same transactions through as the workers.
LEMMA PassesCounted ==
  ASSUME call \in Calls, NEW tx \in Tx
  PROVE  Passes(call.filter, tx) <=> Counted(call.filter, tx)
<1>1. call.filter \in Filter
  BY StatisticsAssumption DEF Call
<1> QED
  BY <1>1 DEF Passes, Counted, Names, Filter, Tx, Row

\* The payments the second pass comes to in some places of the list.
PaidAt(I) ==
  {txs[i] : i \in {j \in I : /\ Passes(call.filter, txs[j])
                             /\ Into("categories", txs[j])}}

LEMMA CategorisedIsReported ==
  ASSUME Inductive, Accounting, main = "categorise", NEW n \in 0..Len(txs),
         NEW L, L = [lost EXCEPT !["categories"] = PaidAt((n + 1)..Len(txs))]
  PROVE  ReportedOK(
           [sums |-> sums,
            maps |-> [maps EXCEPT !["categories"] =
                        Wrapped(Total("categories", call.filter, PaidAt(1..n)))]], L)
<1> DEFINE f == call.filter
           K == CountedIn(f, Gathered)
           all == [m \in Maps |-> Wrapped(Total(m, f, K \ L[m]))]
<1>1. /\ C /\ call.extended
      /\ \A t \in Threads : worker[t].at \in {"none", "end"}
  BY SharedHolds DEF StartedOK, Inductive, ThreadsOK
<1>2. /\ call \in Calls /\ sums = Wrapped(SumsOf(f, Gathered)) /\ IsListing(txs)
      /\ maps = [m \in Maps |-> IF C /\ m = "categories" THEN <<>>
                                ELSE Wrapped(Total(m, f, K \ lost[m]))]
      /\ LostOK
  BY <1>1, AllTaken
<1>3. Reported(call, L) = [sums |-> sums, maps |-> all] /\ Asked(call) = K
  <2>1. /\ Asked(call) = K
        /\ Reported(call, L) = AskedFor(call, [sums |-> sums, maps |-> all])
    <3>1. PICK M : M = L
      OBVIOUS
    <3>2. /\ Asked(call) = K
          /\ Reported(call, M) = AskedFor(call,
               [sums |-> Wrapped(SumsOf(f, Gathered)),
                maps |-> [m \in Maps |-> Wrapped(Total(m, f, K \ M[m]))]])
      BY <1>2, ReportedIs
    <3> QED
      BY <1>2, <3>1, <3>2
  <2>2. \A figures : AskedFor(call, figures) = figures
    BY <1>1 DEF AskedFor
  <2> QED
    BY <2>1, <2>2
<1>4. /\ \A i \in 1..Len(txs) : txs[i] \in Gathered
      /\ \A x \in Gathered : \E i \in 1..Len(txs) : txs[i] = x
      /\ \A i, j \in 1..Len(txs) : txs[i] = txs[j] => i = j
      /\ Len(txs) \in Nat
  BY <1>2 DEF IsListing
<1>5. \A x \in Gathered : Passes(f, x) <=> Counted(f, x)
  <2>1. Gathered \subseteq Tx
    BY <1>2, GatheredRows
  <2> QED
    BY <1>2, <2>1, PassesCounted
<1>6. PICK read, missed : read = PaidAt(1..n) /\ missed = PaidAt((n + 1)..Len(txs))
  OBVIOUS
<1>7. /\ \A x \in read : \E i \in 1..n :
           x = txs[i] /\ Passes(f, txs[i]) /\ Into("categories", txs[i])
      /\ \A x \in missed : \E i \in (n + 1)..Len(txs) :
           x = txs[i] /\ Passes(f, txs[i]) /\ Into("categories", txs[i])
      /\ \A i \in 1..n :
           Passes(f, txs[i]) /\ Into("categories", txs[i]) => txs[i] \in read
      /\ \A i \in (n + 1)..Len(txs) :
           Passes(f, txs[i]) /\ Into("categories", txs[i]) => txs[i] \in missed
  BY <1>6 DEF PaidAt
<1>8. \A i \in 1..Len(txs) : i \in 1..n \/ i \in (n + 1)..Len(txs)
  BY <1>4
<1>9. /\ 1..n \subseteq 1..Len(txs) /\ (n + 1)..Len(txs) \subseteq 1..Len(txs)
      /\ \A i \in 1..n : i \notin (n + 1)..Len(txs)
  BY <1>4
<1> HIDE DEF f
<1>10. \A x : x \in K <=> x \in Gathered /\ Counted(f, x)
  BY DEF CountedIn
<1> HIDE DEF K
<1>11. missed \subseteq K /\ \A x \in missed : Into("categories", x)
  BY <1>4, <1>5, <1>7, <1>9, <1>10
<1>12. {x \in read : Into("categories", x)}
         = {x \in K \ missed : Into("categories", x)}
  <2>1. \A x \in read : x \in K /\ x \notin missed
    BY <1>4, <1>5, <1>7, <1>9, <1>10
  <2>2. \A x \in K \ missed : Into("categories", x) => x \in read
    BY <1>4, <1>5, <1>7, <1>8, <1>10
  <2> QED
    BY <2>1, <2>2
<1>13. Total("categories", f, read) = Total("categories", f, K \ missed)
  BY <1>12 DEF Total
<1>14. \A m \in Maps : L[m] = IF m = "categories" THEN missed ELSE lost[m]
  <2>1. lost \in LostMaps
    BY InductiveWorkers DEF InParts
  <2> QED
    BY <1>6, <2>1 DEF LostMaps
<1>15. [maps EXCEPT !["categories"] = Wrapped(Total("categories", f, read))] = all
  BY <1>1, <1>2, <1>13, <1>14 DEF Maps
<1> QED
  BY <1>1, <1>2, <1>3, <1>6, <1>11, <1>14, <1>15 DEF ReportedOK, LostOK, Maps, f

LEMMA AskAccounts ==
  ASSUME Inductive, Ask
  PROVE  Accounting'
<1>1. /\ main' = "gather" /\ call' \in Calls
      /\ worker' = [t \in Threads |-> NoWorker]
      /\ sums' = NoSums /\ maps' = NoMaps /\ lost' = NoneShort
  BY DEF Ask
<1>2. Running' = {}
  BY <1>1 DEF Running, NoWorker
<1>3. Taken' = {} /\ \A m : Unmerged(m)' = {}
  BY <1>2 DEF Taken, Unmerged
<1>4. FiguresOK'
  <2>1. sums' = Wrapped(SumsOf(call'.filter, {}))
    BY <1>1, SumsOfNone, NoSumsTyped
  <2>2. CountedOf(Taken)' = {}
    BY <1>3 DEF CountedOf
  <2>3. maps' = [m \in Maps |-> <<>>]
    BY <1>1 DEF NoMaps
  <2>4. \A m : Wrapped(Total(m, call'.filter, {} \ lost'[m])) = <<>>
    <3>1. \A m : {} \ lost'[m] = {}
      OBVIOUS
    <3> QED
      BY <3>1, TotalOfNone, WrappedNone
  <2> QED
    BY <1>3, <2>1, <2>2, <2>3, <2>4 DEF FiguresOK
<1>5. LostOK'
  BY <1>1 DEF LostOK, NoneShort, Maps
<1> QED
  BY <1>1, <1>2, <1>4, <1>5 DEF Accounting, BatchesOK, ProgressOK, StartedOK

LEMMA GatherAccounts ==
  ASSUME Inductive, Accounting, Gather
  PROVE  Accounting'
<1>1. /\ main = "gather" /\ txs' \in Deduped /\ FiguresOK /\ LostOK
      /\ UNCHANGED <<call, worker, lock, sums, maps, lost, out>>
      /\ main' = IF Started(Len(txs')) = 0 THEN "join" ELSE "spawn"
  BY DEF Gather, Accounting
<1>2. Running = {} /\ Running' = {}
  BY <1>1 DEF Running, Inductive, ThreadsOK
<1>3. /\ Taken' = {} /\ Taken = {}
      /\ \A m : Unmerged(m)' = {} /\ Unmerged(m) = {}
  BY <1>2 DEF Taken, Unmerged
<1>4. C' <=> C
  BY <1>1 DEF C
<1>5. CountedOf(Taken)' = CountedOf(Taken)
  BY <1>1, <1>3 DEF CountedOf
<1>6. FiguresOK' /\ LostOK'
  BY <1>1, <1>3, <1>4, <1>5 DEF FiguresOK, LostOK
<1>7. StartedOK'
  <2>1. Deduped' = Deduped
    <3>1. Gathered' = Gathered
      BY <1>1 DEF Gathered, ListOf
    <3> QED
      BY <1>4, <3>1 DEF Deduped
  <2>2. Started(Len(txs))' = Started(Len(txs'))
    BY <1>1 DEF Started, ThreadsFor, ChunkFor, C
  <2>3. main' \in {"join", "categorise"} => 1..Started(Len(txs))' = {}
    BY <1>1, <2>2
  <2> QED
    BY <1>1, <1>2, <2>1, <2>3 DEF StartedOK
<1> QED
  BY <1>1, <1>2, <1>6, <1>7 DEF Accounting, BatchesOK, ProgressOK

LEMMA SpawnAccounts ==
  ASSUME Inductive, Accounting, Spawn
  PROVE  Accounting'
<1>1. /\ main = "spawn" /\ call \in Calls /\ txs \in Seq(Tx)
      /\ UNCHANGED <<call, txs, lock, sums, maps, lost, out>>
  BY DEF Spawn, Inductive, CallOK, TypeOK
<1>2. /\ Shared /\ WorkersAre
      /\ FiguresOK /\ LostOK /\ BatchesOK /\ ProgressOK /\ StartedOK
  BY <1>1, SharedHolds, WorkersTyped
<1>3. PICK N : N = Cardinality(Threads)
  OBVIOUS
<1>4. N \in Nat /\ Threads = 1..N
  BY <1>3, StatisticsAssumption, FS_CardinalityType
<1>5. PICK n : n = Len(txs)
  OBVIOUS
<1>6. PICK k \in 0..N : /\ k < Started(n)
                        /\ \A t \in Threads : worker[t].at # "none" <=> t <= k
  BY <1>1, <1>3, <1>5 DEF Inductive, SpawnOK
<1>7. Started(n) \in 0..N /\ n \in Nat
  <2>1. n \in Nat
    BY <1>1, <1>5
  <2> QED
    BY <1>1, <1>3, <2>1, StartedFits
<1>8. PICK t : t = k + 1
  OBVIOUS
<1>9. t \in Threads /\ t \notin Running /\ Running = 1..k /\ t <= Started(n)
  BY <1>4, <1>6, <1>7, <1>8 DEF Running
<1>10. Cardinality(Running) = k
  <2>1. k \in Int /\ 1 \in Int
    OBVIOUS
  <2>2. Cardinality(1..k) = IF 1 > k THEN 0 ELSE k - 1 + 1
    BY <2>1, FS_Interval
  <2> QED
    BY <1>9, <2>2
<1>11. PICK w : w = [NoWorker EXCEPT !.at = "take", !.next = First(t),
                                     !.left = Slice(t)]
  OBVIOUS
<1>12. /\ w.at = "take" /\ w.next = First(t) /\ w.left = Slice(t)
       /\ w.batch = {} /\ w.inside = FALSE
  BY <1>11 DEF NoWorker
<1>13. /\ worker' = [worker EXCEPT ![t] = w]
       /\ main' = IF t = Started(n) THEN "join" ELSE main
  <2>1. PICK c : c = ChunkFor(n)
    OBVIOUS
  <2>2. c \in Nat
    BY <1>1, <1>2, <1>5, <1>7, <2>1, ShareOK, StatisticsAssumption
       DEF Shared, IsListing
  <2>3. k * c \in Nat
    BY <2>2
  <2>4. First(t) = k * c + 1
    <3>1. t - 1 = k
      BY <1>8
    <3> QED
      BY <1>5, <2>1, <3>1 DEF First
  <2>5. First(t) - 1 = k * c
    BY <2>3, <2>4
  <2>6. Slice(t) = IF t = Started(n) THEN (n - k * c) % SizeT ELSE c
    BY <1>5, <2>1, <2>5 DEF Slice
  <2> QED
    BY <1>5, <1>8, <1>10, <1>11, <2>1, <2>4, <2>6 DEF Spawn
<1>14. /\ worker'[t] = w /\ Running' = Running \cup {t}
       /\ \A u \in Running : worker'[u] = worker[u]
  <2>1. \A u \in Threads : worker'[u] = IF u = t THEN w ELSE worker[u]
    BY <1>2, <1>13 DEF WorkersAre
  <2>2. worker'[t] = w /\ \A u \in Running : worker'[u] = worker[u]
    BY <1>9, <2>1 DEF Running
  <2>3. Running' = Running \cup {t}
    BY <1>9, <1>12, <2>1 DEF Running
  <2> QED
    BY <2>2, <2>3
<1>15. /\ C' <=> C
       /\ \A u : First(u)' = First(u) /\ Slice(u)' = Slice(u)
       /\ Started(Len(txs))' = Started(Len(txs))
       /\ (txs \in Deduped)' <=> txs \in Deduped
       /\ \A T : CountedOf(T)' = CountedOf(T)
  BY <1>1, SameShares
<1>16. First(t) \in Nat
  <2>1. ChunkFor(n) \in Nat
    BY <1>1, <1>2, <1>5, <1>7, ShareOK, StatisticsAssumption DEF Shared, IsListing
  <2>2. t - 1 = k /\ k \in Nat
    BY <1>8
  <2> QED
    BY <1>5, <2>1, <2>2 DEF First
<1>17. /\ \A u \in Running : TakenBy(u)' = TakenBy(u)
       /\ TakenBy(t)' = {}
  <2>1. First(t)..(First(t) - 1) = {}
    BY <1>16
  <2> QED
    BY <1>1, <1>12, <1>14, <1>15, <2>1 DEF TakenBy
<1>18. Taken' = Taken
  <2>1. Taken' = UNION {TakenBy(u)' : u \in Running \cup {t}}
    BY <1>14 DEF Taken
  <2> QED
    BY <1>17, <2>1 DEF Taken
<1>19. ASSUME NEW m
       PROVE  Unmerged(m)' = Unmerged(m)
  <2>1. \A u : Awaited(u) = AwaitedOf(worker[u]) /\ Awaited(u)' = AwaitedOf(worker'[u])
    BY DEF Awaited, AwaitedOf
  <2>2. Unmerged(m) = UNION {PendingIn(worker[u], m) : u \in Running}
    BY <2>1 DEF Unmerged, PendingIn
  <2>3. Unmerged(m)' = UNION {PendingIn(worker'[u], m) : u \in Running \cup {t}}
    BY <1>14, <2>1 DEF Unmerged, PendingIn
  <2>4. PendingIn(w, m) = {}
    BY <1>12 DEF PendingIn
  <2> QED
    BY <1>14, <2>2, <2>3, <2>4
<1>20. FiguresOK' /\ LostOK'
  <2>1. CountedOf(Taken)' = CountedOf(Taken)
    BY <1>1, <1>18 DEF CountedOf
  <2> QED
    BY <1>1, <1>2, <1>15, <1>18, <1>19, <2>1 DEF FiguresOK, LostOK
<1>21. BatchesOK'
  <2> SUFFICES ASSUME NEW u \in Running \cup {t}
               PROVE  (/\ worker[u].batch \subseteq CountedOf(TakenBy(u))
                       /\ ~C /\ worker[u].at = "take" => worker[u].batch = {}
                       /\ worker[u].inside => worker[u].held = maps[worker[u].at])'
    BY <1>14 DEF BatchesOK
  <2>1. CASE u = t
    BY <1>12, <1>14, <2>1
  <2>2. CASE u \in Running
    <3>1. CountedOf(TakenBy(u))' = CountedOf(TakenBy(u))
      BY <1>1, <1>17, <2>2 DEF CountedOf
    <3> QED
      BY <1>1, <1>2, <1>14, <1>15, <2>2, <3>1 DEF BatchesOK
  <2> QED
    BY <2>1, <2>2
<1>22. ProgressOK'
  <2> SUFFICES ASSUME NEW u \in Running \cup {t}
               PROVE  (/\ worker[u].next >= First(u)
                       /\ worker[u].next + worker[u].left = First(u) + Slice(u)
                       /\ txs = <<>> => worker[u].next = First(u)
                       /\ C => worker[u].at # "categories"
                       /\ worker[u].at = "end" \/ (C /\ worker[u].at \in Maps) =>
                            worker[u].left = 0)'
    BY <1>14 DEF ProgressOK
  <2>1. CASE u = t
    BY <1>12, <1>14, <1>15, <1>16, <2>1 DEF Maps
  <2>2. CASE u \in Running
    BY <1>1, <1>2, <1>14, <1>15, <2>2 DEF ProgressOK
  <2> QED
    BY <2>1, <2>2
<1>23. StartedOK'
  <2>1. \A u \in Running' : u <= Started(Len(txs))'
    BY <1>2, <1>1, <1>5, <1>9, <1>14, <1>15 DEF StartedOK
  <2>2. main' \in {"join", "categorise"} =>
          \A u \in 1..Started(Len(txs))' : u \in Running'
    <3> SUFFICES ASSUME main' \in {"join", "categorise"},
                        NEW u \in 1..Started(Len(txs))'
                 PROVE  u \in Running'
      OBVIOUS
    <3>1. t = Started(n) /\ u \in 1..t
      BY <1>1, <1>5, <1>13, <1>15
    <3> QED
      BY <1>8, <1>9, <1>14, <3>1
  <2>3. main' # "categorise"
    BY <1>1, <1>13
  <2> QED
    BY <1>1, <1>2, <1>15, <2>1, <2>2, <2>3 DEF StartedOK
<1> QED
  BY <1>1, <1>13, <1>20, <1>21, <1>22, <1>23 DEF Accounting

LEMMA ReturnAccounts ==
  ASSUME NEW value, Return(value), call \in Calls,
         value = Failed \/ ReportedOK(value, lost')
  PROVE  Accounting'
<1>1. main' = "idle" /\ out' = value /\ call' = call
  BY DEF Return
<1>2. C' <=> C
  BY <1>1 DEF C
<1> QED
  BY <1>1, <1>2 DEF Accounting, ReportedOK

\* A step of the caller alone.
LEMMA CallerAccounts ==
  ASSUME main' # "idle", UNCHANGED <<call, txs, worker, sums, maps, lost>>,
         FiguresOK, LostOK, BatchesOK, ProgressOK, StartedOK'
  PROVE  Accounting'
<1>1. /\ C' <=> C
      /\ \A u : First(u)' = First(u) /\ Slice(u)' = Slice(u)
  BY SameShares
<1>2. Running' = Running /\ \A u : TakenBy(u)' = TakenBy(u)
  BY <1>1 DEF Running, TakenBy
<1>3. Taken' = Taken
  <2>1. Taken' = UNION {TakenBy(u)' : u \in Running}
    BY <1>2 DEF Taken
  <2> QED
    BY <1>2, <2>1 DEF Taken
<1>4. \A m : Unmerged(m)' = Unmerged(m)
  <2>1. \A u : Awaited(u)' = Awaited(u)
    BY DEF Awaited
  <2> QED
    BY <1>2, <2>1 DEF Unmerged
<1>5. CountedOf(Taken)' = CountedOf(Taken)
      /\ \A u : CountedOf(TakenBy(u))' = CountedOf(TakenBy(u))
  BY <1>2, <1>3 DEF CountedOf
<1>6. FiguresOK' /\ LostOK'
  BY <1>1, <1>3, <1>4, <1>5 DEF FiguresOK, LostOK
<1>7. BatchesOK'
  BY <1>1, <1>2, <1>5 DEF BatchesOK
<1>8. ProgressOK'
  BY <1>1, <1>2 DEF ProgressOK
<1> QED
  BY <1>6, <1>7, <1>8 DEF Accounting

LEMMA AccountingInit == Init => Accounting
BY DEF Init, Accounting

LEMMA AccountingNext == Inductive /\ Accounting /\ [Next]_vars => Accounting'
<1> SUFFICES ASSUME Inductive, Accounting, [Next]_vars
             PROVE  Accounting'
  OBVIOUS
<1>1. CASE Ask
  BY <1>1, AskAccounts
<1>2. CASE Gather
  BY <1>2, GatherAccounts
<1>3. CASE GatherFails \/ Abandon
  <2>1. Return(Failed) /\ call \in Calls
    BY <1>3 DEF GatherFails, Abandon, Inductive, CallOK
  <2> QED
    BY <2>1, ReturnAccounts
<1>4. CASE Spawn
  BY <1>4, SpawnAccounts
<1>5. CASE SpawnFails
  <2>1. /\ main = "spawn" /\ main' = "abandon"
        /\ UNCHANGED <<call, txs, worker, lock, sums, maps, lost, out>>
    BY <1>5 DEF SpawnFails
  <2>2. FiguresOK /\ LostOK /\ BatchesOK /\ ProgressOK /\ StartedOK
    BY <2>1 DEF Accounting
  <2>3. StartedOK'
    <3>1. Running' = Running
      BY <2>1 DEF Running
    <3> QED
      BY <2>1, <2>2, <3>1, SameShares DEF StartedOK
  <2> QED
    BY <2>1, <2>2, <2>3, CallerAccounts
<1>6. CASE Join
  <2>1. main = "join" /\ Joined /\ call \in Calls
    BY <1>6 DEF Join, Inductive, CallOK
  <2>2. CASE ~(C /\ call.extended)
    <3>1. PICK v : v = Collected([sums |-> sums, maps |-> maps])
      OBVIOUS
    <3>2. Return(v) /\ lost' = lost
      BY <1>6, <2>2, <3>1 DEF Join
    <3>3. ReportedOK(v, lost')
      BY <2>1, <2>2, <3>1, <3>2, CollectedIsReported
    <3> QED
      BY <2>1, <3>2, <3>3, ReturnAccounts
  <2>3. CASE C /\ call.extended
    <3>1. /\ main' = "categorise"
          /\ UNCHANGED <<call, txs, worker, lock, sums, maps, lost, out>>
      BY <1>6, <2>3 DEF Join
    <3>2. FiguresOK /\ LostOK /\ BatchesOK /\ ProgressOK /\ StartedOK
      BY <2>1 DEF Accounting
    <3>3. StartedOK'
      <4>1. Running' = Running
        BY <3>1 DEF Running
      <4> QED
        BY <2>1, <2>3, <3>1, <3>2, <4>1, SameShares DEF StartedOK
    <3> QED
      BY <3>1, <3>2, <3>3, CallerAccounts
  <2> QED
    BY <2>2, <2>3
<1>7. CASE Categorise
  <2>1. main = "categorise" /\ call \in Calls
    BY <1>7 DEF Categorise, Inductive, CallOK
  <2>2. PICK n \in 0..Len(txs) :
          /\ lost' = [lost EXCEPT !["categories"] = PaidAt((n + 1)..Len(txs))]
          /\ Return([sums |-> sums,
                     maps |-> [maps EXCEPT !["categories"] =
                                 Wrapped(Total("categories", call.filter,
                                               PaidAt(1..n)))]])
    BY <1>7 DEF Categorise, PaidAt
  <2>3. PICK v : v = [sums |-> sums,
                      maps |-> [maps EXCEPT !["categories"] =
                                  Wrapped(Total("categories", call.filter,
                                                PaidAt(1..n)))]]
    OBVIOUS
  <2>4. ReportedOK(v, lost')
    BY <2>1, <2>2, <2>3, CategorisedIsReported
  <2> QED
    BY <2>1, <2>2, <2>3, <2>4, ReturnAccounts
<1>8. ASSUME NEW t \in Threads, main # "crashed", Work(t)
      PROVE  Accounting'
  BY <1>8, TakeAccounts, FinishAccounts, AcquireAccounts, MergeAccounts DEF Work
<1>9. CASE UNCHANGED vars
  <2>1. UNCHANGED <<call, main, txs, worker, sums, maps, lost, out>>
    BY <1>9 DEF vars
  <2>2. CASE main = "idle"
    <3>1. C' <=> C
      BY <2>1 DEF C
    <3>2. CASE out = Failed
      BY <2>1, <2>2, <3>2 DEF Accounting
    <3>3. CASE out # Failed
      <4>1. /\ call \in Calls /\ out = Reported(call, lost)
            /\ lost["types"] = {} /\ lost["categories"] \subseteq Asked(call)
            /\ \A t \in lost["categories"] : Into("categories", t)
            /\ ~C => lost = NoneShort
        BY <2>2, <3>3 DEF Accounting
      <4> QED
        BY <2>1, <2>2, <3>1, <4>1 DEF Accounting
    <3> QED
      BY <3>2, <3>3
  <2>3. CASE main # "idle"
    <3>1. FiguresOK /\ LostOK /\ BatchesOK /\ ProgressOK /\ StartedOK
      BY <2>3 DEF Accounting
    <3>2. StartedOK'
      <4>1. Running' = Running
        BY <2>1 DEF Running
      <4> QED
        BY <2>1, <3>1, <4>1, SameShares DEF StartedOK
    <3> QED
      BY <2>1, <2>3, <3>1, <3>2, CallerAccounts
  <2> QED
    BY <2>2, <2>3
<1> QED
  BY <1>1, <1>2, <1>3, <1>4, <1>5, <1>6, <1>7, <1>8, <1>9 DEF Next, Caller

\* What the refinement rests on: in every state of every schedule the shared
\* figures are those of the transactions the threads have taken, wrapped to 64
\* bits, each map short of what a thread still has in private and of what was
\* lost where an array of the C service could not grow; and what the caller
\* returned, if it did not fail, is what was asked for, short of no kind, and
\* in Rust of nothing.
THEOREM AccountingHolds == Spec => []Accounting
<1> QED
  BY InductiveHolds, AccountingInit, AccountingNext, PTL DEF Spec

(***************************************************************************)
(* The refinement.                                                         *)
(***************************************************************************)

LEMMA SummaryInit == Init => Answer!Init
BY DEF Init, Short, Answer!Init

\* Only what was asked about can be missing from a report.
LEMMA SameReported ==
  ASSUME NEW c, NEW L, NEW M, \A m \in Maps : Asked(c) \ L[m] = Asked(c) \ M[m]
  PROVE  Reported(c, L) = Reported(c, M)
<1>1. PICK K : K = Asked(c)
  OBVIOUS
<1>2. [m \in Maps |-> Wrapped(Total(m, c.filter, K \ L[m]))]
        = [m \in Maps |-> Wrapped(Total(m, c.filter, K \ M[m]))]
  <2>1. \A m \in Maps : K \ L[m] = K \ M[m]
    BY <1>1
  <2> QED
    BY <2>1
<1> QED
  BY <1>1, <1>2 DEF Reported

LEMMA LostFallsShort ==
  ASSUME NEW c, c.backend = "C", NEW L, L["types"] = {},
         L["categories"] \subseteq Asked(c)
  PROVE  FallsShort(c, Reported(c, L))
<1>1. PICK D, P : D = L["days"] \cap Asked(c) /\ P = L["categories"]
  OBVIOUS
<1>2. PICK M : M = [NoneShort EXCEPT !["days"] = D, !["categories"] = P]
  OBVIOUS
<1>3. M["types"] = {} /\ M["days"] = D /\ M["categories"] = P
  BY <1>2 DEF NoneShort, Maps
<1>4. \A m \in Maps : Asked(c) \ L[m] = Asked(c) \ M[m]
  BY <1>1, <1>3 DEF Maps
<1>5. Reported(c, L) = Reported(c, M)
  BY <1>4, SameReported
<1>6. D \in SUBSET Asked(c) /\ P \in SUBSET Asked(c)
  BY <1>1
<1> QED
  BY <1>2, <1>5, <1>6 DEF FallsShort

\* Where the caller returns, it tells the customer.
LEMMA ReturnTells ==
  ASSUME Inductive, Accounting', NEW value, Return(value), main # "idle"
  PROVE  Answer!Tell
<1>1. /\ main' = "idle" /\ call' = call /\ call \in Calls
      /\ C' <=> C
  BY DEF Return, Inductive, CallOK, C
<1>2. PICK L : L = lost'
  OBVIOUS
<1>3. \/ out' = Failed
      \/ /\ out' = Reported(call, L)
         /\ L["types"] = {} /\ L["categories"] \subseteq Asked(call)
         /\ ~C => L = NoneShort
  BY <1>1, <1>2 DEF Accounting
<1>4. CASE out' = Failed
  <2>1. Short' = FALSE /\ out' # Pending
    BY <1>4, AnswerAssumption DEF Short
  <2> QED
    BY <1>1, <1>4, <2>1 DEF Answer!Tell
<1>5. CASE out' # Failed /\ L = NoneShort
  <2>1. Short' = FALSE
    BY <1>2, <1>5 DEF Short
  <2>2. out' = Right(call) /\ out' # Pending
    BY <1>1, <1>3, <1>5, AnswerAssumption DEF Right
  <2> QED
    BY <1>1, <2>1, <2>2 DEF Answer!Tell
<1>6. CASE out' # Failed /\ L # NoneShort
  <2>1. Short' = TRUE
    BY <1>1, <1>2, <1>6 DEF Short
  <2>2. FallsShort(call, out')
    <3>1. call.backend = "C"
      BY <1>3, <1>6 DEF C
    <3> QED
      BY <1>3, <1>6, <3>1, LostFallsShort
  <2>3. out' # Pending
    BY <1>1, <2>2, AnswerAssumption
  <2> QED
    BY <1>1, <2>1, <2>2, <2>3 DEF Answer!Tell
<1> QED
  BY <1>4, <1>5, <1>6

\* A step that does not answer is none of the customer's.
LEMMA SummaryNext ==
  Inductive /\ Accounting /\ Accounting' /\ [Next]_vars =>
    [Answer!Next]_<<call, IF main = "idle" THEN out ELSE Pending, Short>>
<1> SUFFICES ASSUME Inductive, Accounting, Accounting', [Next]_vars
             PROVE  \/ Answer!Next
                    \/ UNCHANGED <<call, IF main = "idle" THEN out ELSE Pending, Short>>
  OBVIOUS
<1>1. CASE Ask
  <2>1. main = "idle" /\ call' \in Calls /\ main' = "gather"
    BY <1>1 DEF Ask
  <2>2. out # Pending
    <3>1. CASE out = Failed
      BY <3>1, AnswerAssumption
    <3>2. CASE out # Failed
      <4>1. /\ call \in Calls /\ out = Reported(call, lost)
            /\ lost["types"] = {} /\ lost["categories"] \subseteq Asked(call)
            /\ ~C => lost = NoneShort
        BY <2>1, <3>2 DEF Accounting
      <4>2. CASE lost = NoneShort
        BY <4>1, <4>2, AnswerAssumption DEF Right
      <4>3. CASE lost # NoneShort
        <5>1. call.backend = "C"
          BY <4>1, <4>3 DEF C
        <5>2. FallsShort(call, out)
          BY <4>1, <5>1, LostFallsShort
        <5> QED
          BY <4>1, <5>2, AnswerAssumption
      <4> QED
        BY <4>2, <4>3
    <3> QED
      BY <3>1, <3>2
  <2>3. Short' = FALSE
    BY <2>1 DEF Short
  <2> QED
    BY <2>1, <2>2, <2>3 DEF Answer!Next, Answer!Ask
<1>2. ASSUME NEW value, Return(value), main # "idle"
      PROVE  Answer!Next
  BY <1>2, ReturnTells DEF Answer!Next
<1>3. CASE main # "idle" /\ main' # "idle" /\ call' = call
  BY <1>3 DEF Short
<1>4. CASE Gather \/ Spawn \/ SpawnFails
  BY <1>3, <1>4 DEF Gather, Spawn, SpawnFails
<1>5. CASE GatherFails \/ Abandon \/ Join \/ Categorise
  BY <1>2, <1>3, <1>5 DEF GatherFails, Abandon, Join, Categorise
<1>6. ASSUME NEW t \in Threads, Work(t)
      PROVE  UNCHANGED <<call, IF main = "idle" THEN out ELSE Pending, Short>>
  <2>1. main # "idle"
    BY <1>6 DEF Inductive, ThreadsOK, Work, Take, Finish, Acquire, Merge, Maps
  <2>2. main' # "idle" /\ call' = call
    BY <1>6, <2>1 DEF Work, Take, Finish, Acquire, Merge
  <2> QED
    BY <2>1, <2>2 DEF Short
<1>7. CASE UNCHANGED vars
  BY <1>7 DEF vars, Short
<1> QED
  BY <1>1, <1>4, <1>5, <1>6, <1>7 DEF Next, Caller

\* compute_user_statistics and compute_user_statistics_extended of both
\* backends, with any number of threads in any schedule, do what Summary does
\* without threads: they answer each call once, with an error or with figures
\* whose sums and kinds are right, as 64 bits hold them.  So are the days and
\* the categories in Rust; in C they are those of some of the transactions
\* where an array could not grow.
THEOREM Summarised == Spec => SummarySpec
<1>1. SummarySpec <=>
        /\ Answer!Init
        /\ [][Answer!Next]_<<call, IF main = "idle" THEN out ELSE Pending, Short>>
  BY DEF SummarySpec, Answer!Spec
<1> QED
  BY <1>1, InductiveHolds, AccountingHolds, SummaryInit, SummaryNext, PTL DEF Spec

(***************************************************************************)
(* The entries of a map together.                                          *)
(***************************************************************************)

\* Map z is x with a more under key k.
IsBumped(z, x, k, a) ==
  /\ DOMAIN z = DOMAIN x \cup {k}
  /\ z[k] = (IF k \in DOMAIN x THEN x[k] ELSE 0) + a
  /\ \A l \in DOMAIN x \ {k} : z[l] = x[l]

LEMMA SumBumped ==
  ASSUME NEW x, Weighs(x, DOMAIN x), NEW k, NEW a \in Int, NEW z,
         IsBumped(z, x, k, a)
  PROVE  SumFunction(z) = SumFunction(x) + a
<1>1. PICK S : S = DOMAIN x \ {k}
  OBVIOUS
<1>2. k \notin S /\ DOMAIN z = S \cup {k} /\ IsFiniteSet(S) /\ IsFiniteSet(S \cup {k})
  <2>1. IsFiniteSet(S) /\ IsFiniteSet(S \cup {k})
    BY <1>1, FS_Subset, FS_AddElement DEF Weighs
  <2> QED
    BY <1>1, <2>1 DEF IsBumped
<1>3. PICK u : u = [l \in S |-> x[l]]
  OBVIOUS
<1>4. /\ DOMAIN u = S /\ Alike(u, z, S) /\ Alike(u, x, S)
      /\ Weighs(z, S \cup {k}) /\ Weighs(u, S)
  BY <1>1, <1>2, <1>3 DEF Alike, Weighs, IsBumped
<1>5. SumFunction(z) = SumFunction(u) + z[k]
  BY <1>2, <1>4, SumGrows
<1>6. SumFunction(u) \in Int
  BY <1>4, SumType DEF SumFunction
<1>7. CASE k \in DOMAIN x
  <2>1. DOMAIN x = S \cup {k} /\ Weighs(x, S \cup {k})
    BY <1>1, <1>7
  <2>2. SumFunction(x) = SumFunction(u) + x[k]
    BY <1>2, <1>4, <2>1, SumGrows
  <2>3. x[k] \in Int /\ z[k] = x[k] + a
    BY <1>7 DEF Weighs, IsBumped
  <2> QED
    BY <1>5, <1>6, <2>2, <2>3
<1>8. CASE k \notin DOMAIN x
  <2>1. DOMAIN x = S
    BY <1>1, <1>8
  <2>2. Weighs(x, S)
    BY <2>1
  <2>3. SumFunction(u) = SumFunction(x)
    BY <1>4, <2>1, <2>2, SumAlike DEF SumFunction
  <2>4. z[k] = a
    BY <1>8 DEF IsBumped
  <2> QED
    BY <1>5, <1>6, <2>3, <2>4
<1> QED
  BY <1>7, <1>8

Within(m, T) == {t \in T : Into(m, t)}

LEMMA TotalBumped ==
  ASSUME NEW m, NEW f, NEW R \in SUBSET Tx, IsFiniteSet(R), NEW tx \in Tx,
         tx \notin R, Into(m, tx)
  PROVE  /\ IsBumped(Total(m, f, R \cup {tx}), Total(m, f, R), KeyOf(m, tx),
                     AmountOf(m, f, tx))
         /\ Keys(m, R \cup {tx}) = Keys(m, R) \cup {KeyOf(m, tx)}
         /\ DOMAIN Total(m, f, R) = Keys(m, R)
         /\ \A k \in Keys(m, R) : Total(m, f, R)[k] \in Int
<1>1. PICK B, key, a : B = {tx} /\ key = KeyOf(m, tx) /\ a = AmountOf(m, f, tx)
  OBVIOUS
<1>2. B \in SUBSET Tx /\ IsFiniteSet(B) /\ R \cap B = {} /\ a \in Int
  BY <1>1, FS_Singleton, TxFields
<1>3. PICK x, z : x = Total(m, f, R) /\ z = Total(m, f, R \cup B)
  OBVIOUS
<1>4. /\ x = [k \in Keys(m, R) |-> Subtotal(m, f, k, R)]
      /\ z = [k \in Keys(m, R \cup B) |-> Subtotal(m, f, k, R \cup B)]
  BY <1>3, TotalParts
<1>5. Keys(m, R \cup B) = Keys(m, R) \cup {key} /\ Keys(m, B) = {key}
  BY <1>1 DEF Keys
<1>6. \A k : /\ Subtotal(m, f, k, R \cup B) = Subtotal(m, f, k, R) + Subtotal(m, f, k, B)
             /\ Subtotal(m, f, k, R) \in Int /\ Subtotal(m, f, k, B) \in Int
             /\ k \notin Keys(m, R) => Subtotal(m, f, k, R) = 0
             /\ k \notin Keys(m, B) => Subtotal(m, f, k, B) = 0
  <2> SUFFICES ASSUME NEW k
               PROVE  /\ Subtotal(m, f, k, R \cup B)
                           = Subtotal(m, f, k, R) + Subtotal(m, f, k, B)
                      /\ Subtotal(m, f, k, R) \in Int
                      /\ Subtotal(m, f, k, B) \in Int
                      /\ k \notin Keys(m, R) => Subtotal(m, f, k, R) = 0
                      /\ k \notin Keys(m, B) => Subtotal(m, f, k, B) = 0
    OBVIOUS
  <2>1. B \in SUBSET Tx
    BY <1>2
  <2>2. IsFiniteSet(B)
    BY <1>2
  <2>3. R \cap B = {}
    BY <1>2
  <2>4. Subtotal(m, f, k, R \cup B) = Subtotal(m, f, k, R) + Subtotal(m, f, k, B)
    BY <2>1, <2>2, <2>3, SumUnder
  <2>5. Subtotal(m, f, k, R) \in Int /\ Subtotal(m, f, k, B) \in Int
    BY <2>1, <2>2, <2>3, SumUnder
  <2>6. k \notin Keys(m, R) => Subtotal(m, f, k, R) = 0
    BY NoneUnder
  <2>7. k \notin Keys(m, B) => Subtotal(m, f, k, B) = 0
    BY NoneUnder
  <2> QED
    BY <2>4, <2>5, <2>6, <2>7
<1>7. Subtotal(m, f, key, B) = a
  <2>1. Under(m, key, B) = {} \cup {tx}
    BY <1>1 DEF Under
  <2>2. PICK u, w : u = Amounts(m, f, {}) /\ w = Amounts(m, f, {} \cup {tx})
    OBVIOUS
  <2>3. PICK none : none = {}
    OBVIOUS
  <2>4. /\ DOMAIN u = none /\ DOMAIN w = none \cup {tx} /\ Alike(u, w, none)
        /\ w[tx] = a /\ tx \notin none
    BY <1>1, <2>2, <2>3 DEF Amounts, Alike
  <2>5. Weighs(w, none \cup {tx})
    BY <1>1, <1>2, <2>3, <2>4 DEF Weighs
  <2>6. SumFunction(w) = SumFunction(u) + w[tx]
    BY <2>4, <2>5, SumGrows
  <2>7. SumFunction(u) = 0
    BY <2>3, <2>4, SumNone DEF SumFunction
  <2> QED
    BY <1>2, <2>1, <2>2, <2>4, <2>6, <2>7 DEF Subtotal
<1>8. IsBumped(z, x, key, a)
  <2>1. DOMAIN x = Keys(m, R) /\ DOMAIN z = Keys(m, R) \cup {key}
    BY <1>4, <1>5
  <2>2. z[key] = (IF key \in DOMAIN x THEN x[key] ELSE 0) + a
    BY <1>4, <1>5, <1>6, <1>7, <2>1
  <2>3. ASSUME NEW l \in DOMAIN x \ {key} PROVE z[l] = x[l]
    <3>1. l \in Keys(m, R) /\ l \in Keys(m, R \cup B) /\ l \notin Keys(m, B)
      BY <1>5, <2>1, <2>3
    <3>2. z[l] = Subtotal(m, f, l, R \cup B) /\ x[l] = Subtotal(m, f, l, R)
      BY <1>4, <3>1
    <3>3. PICK p, q, r : /\ p = Subtotal(m, f, l, R \cup B)
                         /\ q = Subtotal(m, f, l, R)
                         /\ r = Subtotal(m, f, l, B)
      OBVIOUS
    <3>4. p = q + r /\ q \in Int /\ r = 0
      BY <1>6, <3>1, <3>3
    <3>5. p = q
      BY <3>4
    <3> QED
      BY <3>2, <3>3, <3>5
  <2> QED
    BY <2>1, <2>2, <2>3 DEF IsBumped
<1>9. DOMAIN x = Keys(m, R) /\ \A k \in Keys(m, R) : x[k] \in Int
  BY <1>4, <1>6
<1>10. /\ IsBumped(Total(m, f, R \cup B), Total(m, f, R), key, a)
       /\ Keys(m, R \cup B) = Keys(m, R) \cup {key}
       /\ DOMAIN Total(m, f, R) = Keys(m, R)
       /\ \A k \in Keys(m, R) : Total(m, f, R)[k] \in Int
  BY <1>3, <1>5, <1>8, <1>9
<1> QED
  BY <1>1, <1>10

\* The entries of a map add up to its transactions.
LEMMA EntriesAddUp ==
  ASSUME NEW m, NEW f, NEW K \in SUBSET Tx, IsFiniteSet(K)
  PROVE  /\ IsFiniteSet(Keys(m, K))
         /\ SumFunction(Total(m, f, K)) = SumFunction(Amounts(m, f, Within(m, K)))
<1> DEFINE Ok(T) == /\ IsFiniteSet(Keys(m, T))
                    /\ SumFunction(Total(m, f, T))
                         = SumFunction(Amounts(m, f, Within(m, T)))
           A == {n \in Nat : \A T \in SUBSET K : Cardinality(T) = n => Ok(T)}
<1>1. 0 \in A
  <2> SUFFICES ASSUME NEW T \in SUBSET K, Cardinality(T) = 0
               PROVE  Ok(T)
    OBVIOUS
  <2>1. T = {}
    BY PartsFinite
  <2>2. Keys(m, T) = {} /\ Within(m, T) = {}
    BY <2>1 DEF Keys, Within
  <2>3. \A w : DOMAIN w = {} => SumFunction(w) = 0
    BY SumNone DEF SumFunction
  <2>4. DOMAIN Amounts(m, f, Within(m, T)) = {}
    BY <2>2 DEF Amounts
  <2>5. DOMAIN Total(m, f, T) = {}
    BY <2>2, TotalParts
  <2>6. IsFiniteSet(Keys(m, T))
    BY <2>2, FS_EmptySet
  <2> QED
    BY <2>3, <2>4, <2>5, <2>6
<1>2. ASSUME NEW n \in A
      PROVE  n + 1 \in A
  <2> SUFFICES ASSUME NEW T \in SUBSET K, Cardinality(T) = n + 1
               PROVE  Ok(T)
    OBVIOUS
  <2>1. PICK tx \in T : TRUE
    BY PartsFinite
  <2>2. PICK R : R = T \ {tx}
    OBVIOUS
  <2>3. /\ R \in SUBSET K /\ Cardinality(R) = n /\ IsFiniteSet(R)
        /\ R \in SUBSET Tx /\ tx \in Tx /\ tx \notin R /\ T = R \cup {tx}
    BY <2>1, <2>2, PartsFinite
  <2>4. Ok(R)
    BY <2>3
  <2> HIDE DEF A
  <2>5. CASE ~Into(m, tx)
    <3>1. Strange(m, {tx}) /\ Within(m, T) = Within(m, R)
      BY <2>3, <2>5 DEF Strange, Within
    <3>2. Total(m, f, T) = Total(m, f, R)
      BY <2>3, <3>1, TotalOfStrangers
    <3>3. Keys(m, T) = Keys(m, R)
      BY <2>3, <2>5 DEF Keys
    <3> QED
      BY <2>4, <3>1, <3>2, <3>3
  <2>6. CASE Into(m, tx)
    <3>1. PICK x, z, key, a : /\ x = Total(m, f, R) /\ z = Total(m, f, T)
                              /\ key = KeyOf(m, tx) /\ a = AmountOf(m, f, tx)
      OBVIOUS
    <3>2. /\ IsBumped(z, x, key, a) /\ Keys(m, T) = Keys(m, R) \cup {key}
          /\ DOMAIN x = Keys(m, R) /\ \A k \in Keys(m, R) : x[k] \in Int
      BY <2>3, <2>6, <3>1, TotalBumped
    <3>3. a \in Int
      BY <2>3, <3>1, TxFields
    <3>4. Weighs(x, DOMAIN x)
      BY <2>4, <3>2 DEF Weighs
    <3>5. SumFunction(z) = SumFunction(x) + a
      BY <3>2, <3>3, <3>4, SumBumped
    <3>6. PICK S : S = Within(m, R)
      OBVIOUS
    <3>7. Within(m, T) = S \cup {tx} /\ tx \notin S /\ S \in SUBSET R
      BY <2>3, <2>6, <3>6 DEF Within
    <3>8. PICK u, w : u = Amounts(m, f, S) /\ w = Amounts(m, f, S \cup {tx})
      OBVIOUS
    <3>9. /\ DOMAIN u = S /\ DOMAIN w = S \cup {tx} /\ Alike(u, w, S) /\ w[tx] = a
      BY <3>1, <3>8 DEF Amounts, Alike
    <3>10. Weighs(w, S \cup {tx})
      <4>1. IsFiniteSet(S \cup {tx})
        BY <2>3, <3>7, FS_Subset, FS_AddElement
      <4>2. \A t \in S \cup {tx} : w[t] \in Int
        BY <2>3, <3>7, <3>8, TxFields DEF Amounts
      <4> QED
        BY <4>1, <4>2 DEF Weighs
    <3>11. SumFunction(w) = SumFunction(u) + a
      BY <3>7, <3>9, <3>10, SumGrows
    <3>12. IsFiniteSet(Keys(m, T))
      BY <2>4, <3>2, FS_AddElement
    <3> QED
      BY <2>4, <3>1, <3>5, <3>6, <3>7, <3>8, <3>11, <3>12
  <2> QED
    BY <2>5, <2>6
<1>3. A = Nat
  <2>1. A \in SUBSET Nat
    OBVIOUS
  <2> HIDE DEF A
  <2> QED
    BY <1>1, <1>2, <2>1, AllNumbers
<1>4. Ok(K)
  <2> HIDE DEF Ok
  <2> QED
    BY <1>3, PartsFinite
<1> QED
  BY <1>4

\* The payments are what is counted under that kind.
LEMMA PaymentsAgree ==
  ASSUME NEW f, NEW K \in SUBSET Tx, IsFiniteSet(K)
  PROVE  SumFunction(Total("categories", f, K)) =
           IF "Payment" \in DOMAIN Total("types", f, K)
           THEN Total("types", f, K)["Payment"] ELSE 0
<1>1. PICK P : P = Within("categories", K)
  OBVIOUS
<1>2. Under("types", "Payment", K) = P
  BY <1>1 DEF Under, Within, Into, KeyOf
<1>3. Amounts("categories", f, P) = Amounts("types", f, P)
  BY DEF Amounts, AmountOf
<1>4. SumFunction(Total("categories", f, K)) = Subtotal("types", f, "Payment", K)
  BY <1>1, <1>2, <1>3, EntriesAddUp DEF Subtotal
<1>5. Total("types", f, K) = [k \in Keys("types", K) |-> Subtotal("types", f, k, K)]
  BY TotalParts
<1>6. "Payment" \notin Keys("types", K) => Subtotal("types", f, "Payment", K) = 0
  BY FS_EmptySet, SumUnder
<1> QED
  BY <1>4, <1>5, <1>6

\* Wrapping each entry around does not show in the wrapped sum.
LEMMA SumWrapped ==
  ASSUME NEW D, IsFiniteSet(D), NEW x, DOMAIN x = D, \A k \in D : x[k] \in Int
  PROVE  /\ SumFunction(Wrapped(x)) \in Int /\ SumFunction(x) \in Int
         /\ Wrap(SumFunction(Wrapped(x))) = Wrap(SumFunction(x))
<1> DEFINE part(E) == [k \in E |-> x[k]]
           kept(E) == [k \in E |-> Wrap(x[k])]
           Ok(E) == /\ SumFunction(kept(E)) \in Int /\ SumFunction(part(E)) \in Int
                    /\ Wrap(SumFunction(kept(E))) = Wrap(SumFunction(part(E)))
           A == {n \in Nat : \A E \in SUBSET D : Cardinality(E) = n => Ok(E)}
<1>1. 0 \in A
  <2> SUFFICES ASSUME NEW E \in SUBSET D, Cardinality(E) = 0
               PROVE  Ok(E)
    OBVIOUS
  <2>1. E = {}
    BY PartsFinite
  <2>2. \A w : DOMAIN w = {} => SumFunction(w) = 0
    BY SumNone DEF SumFunction
  <2> QED
    BY <2>1, <2>2
<1>2. ASSUME NEW n \in A
      PROVE  n + 1 \in A
  <2> SUFFICES ASSUME NEW E \in SUBSET D, Cardinality(E) = n + 1
               PROVE  Ok(E)
    OBVIOUS
  <2>1. PICK e \in E : TRUE
    BY PartsFinite
  <2>2. PICK R : R = E \ {e}
    OBVIOUS
  <2>3. /\ R \in SUBSET D /\ Cardinality(R) = n /\ IsFiniteSet(R)
        /\ e \in D /\ e \notin R /\ E = R \cup {e} /\ IsFiniteSet(E)
    BY <2>1, <2>2, PartsFinite, FS_AddElement
  <2>4. Ok(R)
    BY <2>3
  <2>5. PICK u, v, w, z : u = part(R) /\ v = part(E) /\ w = kept(R) /\ z = kept(E)
    OBVIOUS
  <2> HIDE DEF A
  <2>6. /\ DOMAIN u = R /\ DOMAIN v = R \cup {e} /\ DOMAIN w = R /\ DOMAIN z = R \cup {e}
        /\ v[e] = x[e] /\ z[e] = Wrap(x[e])
        /\ Alike(u, v, R) /\ Alike(w, z, R)
    BY <2>3, <2>5 DEF Alike
  <2>7. \A k \in D : x[k] \in Int /\ Wrap(x[k]) \in Int
    BY WrapAdds
  <2>8. Weighs(v, R \cup {e}) /\ Weighs(z, R \cup {e})
    BY <2>3, <2>5, <2>7 DEF Weighs
  <2>9. SumFunction(v) = SumFunction(u) + v[e] /\ SumFunction(z) = SumFunction(w) + z[e]
    BY <2>3, <2>6, <2>8, SumGrows
  <2>10. PICK a, b, c : a = SumFunction(u) /\ b = SumFunction(w) /\ c = x[e]
    OBVIOUS
  <2>11. /\ a \in Int /\ b \in Int /\ c \in Int /\ Wrap(c) \in Int
         /\ Wrap(b) = Wrap(a)
    BY <2>3, <2>4, <2>5, <2>7, <2>10
  <2>12. Wrap(b + Wrap(c)) = Wrap(a + c)
    <3>1. Wrap(Wrap(c) + b) = Wrap(c + b)
      BY <2>11, WrapAdds
    <3>2. Wrap(Wrap(b) + c) = Wrap(b + c) /\ Wrap(Wrap(a) + c) = Wrap(a + c)
      BY <2>11, WrapAdds
    <3>3. b + Wrap(c) = Wrap(c) + b /\ c + b = b + c
      BY <2>11
    <3> QED
      BY <2>11, <3>1, <3>2, <3>3
  <2>13. SumFunction(v) = a + c /\ SumFunction(z) = b + Wrap(c)
    BY <2>6, <2>9, <2>10
  <2>14. a + c \in Int /\ b + Wrap(c) \in Int
    BY <2>11
  <2> QED
    BY <2>5, <2>12, <2>13, <2>14
<1>3. A = Nat
  <2>1. A \in SUBSET Nat
    OBVIOUS
  <2> HIDE DEF A
  <2> QED
    BY <1>1, <1>2, <2>1, AllNumbers
<1>4. Ok(D)
  <2> HIDE DEF Ok
  <2> QED
    BY <1>3, PartsFinite
<1>5. SumFunction(part(D)) = SumFunction(x)
  <2>1. PICK u : u = part(D)
    OBVIOUS
  <2>2. Alike(u, x, D) /\ DOMAIN u = D /\ Weighs(x, D)
    BY <2>1 DEF Alike, Weighs
  <2> QED
    BY <2>1, <2>2, SumAlike DEF SumFunction
<1>6. kept(D) = Wrapped(x)
  BY DEF Wrapped
<1> QED
  BY <1>4, <1>5, <1>6

\* A map, wrapped, and the transactions L it is short of.
LEMMA ShortAddsUp ==
  ASSUME NEW m, NEW f, NEW K \in SUBSET Tx, IsFiniteSet(K), NEW L \in SUBSET K,
         \A tx \in L : Into(m, tx)
  PROVE  Wrap(SumFunction(Wrapped(Total(m, f, K \ L))) + SumFunction(Amounts(m, f, L)))
           = Wrap(SumFunction(Total(m, f, K)))
<1>1. PICK R : R = K \ L
  OBVIOUS
<1>2. R \in SUBSET Tx /\ IsFiniteSet(R) /\ L \in SUBSET Tx
  BY <1>1, FS_Subset
<1>3. PICK S, T : S = Within(m, R) /\ T = Within(m, K)
  OBVIOUS
<1>4. T = S \cup L /\ S \cap L = {} /\ T \in SUBSET K
  BY <1>1, <1>3 DEF Within
<1>5. PICK u, v, w : /\ u = Amounts(m, f, S) /\ v = Amounts(m, f, L)
                     /\ w = Amounts(m, f, T)
  OBVIOUS
<1>6. /\ DOMAIN u = S /\ DOMAIN v = L /\ DOMAIN w = S \cup L
      /\ Alike(u, w, S) /\ Alike(v, w, L)
  BY <1>4, <1>5 DEF Amounts, Alike
<1>7. Weighs(w, S \cup L)
  <2>1. IsFiniteSet(T)
    BY <1>4, FS_Subset
  <2>2. \A tx \in T : w[tx] \in Int
    BY <1>4, <1>5, TxFields DEF Amounts
  <2> QED
    BY <1>4, <2>1, <2>2 DEF Weighs
<1>8. /\ SumFunction(w) = SumFunction(u) + SumFunction(v)
      /\ SumFunction(u) \in Int /\ SumFunction(v) \in Int
  BY <1>4, <1>6, <1>7, SumUnites
<1>9. /\ SumFunction(Total(m, f, R)) = SumFunction(u)
      /\ SumFunction(Total(m, f, K)) = SumFunction(w)
  BY <1>2, <1>3, <1>5, EntriesAddUp
<1>10. PICK x : x = Total(m, f, R)
  OBVIOUS
<1>11. IsFiniteSet(DOMAIN x) /\ \A k \in DOMAIN x : x[k] \in Int
  <2>1. x = [k \in Keys(m, R) |-> Subtotal(m, f, k, R)]
    BY <1>10, TotalParts
  <2>2. IsFiniteSet(Keys(m, R))
    BY <1>2, EntriesAddUp
  <2>3. \A k : Subtotal(m, f, k, R) \in Int
    BY <1>2, FS_EmptySet, SumUnder
  <2> QED
    BY <2>1, <2>2, <2>3
<1>12. PICK a, b, c : a = SumFunction(Wrapped(x)) /\ b = SumFunction(u) /\ c = SumFunction(v)
  OBVIOUS
<1>13. /\ a \in Int /\ b \in Int /\ c \in Int
       /\ Wrap(a) = Wrap(b)
  BY <1>8, <1>9, <1>10, <1>11, <1>12, SumWrapped
<1>14. Wrap(a + c) = Wrap(b + c)
  <2>1. Wrap(Wrap(a) + c) = Wrap(a + c) /\ Wrap(Wrap(b) + c) = Wrap(b + c)
    BY <1>13, WrapAdds
  <2> QED
    BY <1>13, <2>1
<1> QED
  BY <1>1, <1>5, <1>8, <1>9, <1>10, <1>12, <1>14

\* The map of categories adds up to the payments of the map of types, though
\* the C service collects it in a second pass of the caller, with filters
\* written out again, and the Rust service under a mutex of its own; where the
\* second pass stops for want of room, the payments it stopped short of are
\* what is missing, and no other.
THEOREM CategoriesAgree == Spec => []CategoriesAddUp
<1>1. Accounting => CategoriesAddUp
  <2> SUFFICES ASSUME Accounting, main = "idle", out # Failed, call.extended
               PROVE  Wrap(SumFunction(out.maps["categories"])
                             + SumFunction([t \in lost["categories"] |-> t.row.value])) =
                        IF "Payment" \in DOMAIN out.maps["types"]
                        THEN out.maps["types"]["Payment"] ELSE 0
    BY DEF CategoriesAddUp
  <2>1. /\ call \in Calls /\ out = Reported(call, lost)
        /\ lost["types"] = {} /\ lost["categories"] \subseteq Asked(call)
        /\ \A t \in lost["categories"] : Into("categories", t)
    BY DEF Accounting
  <2>2. PICK f, K, L : /\ f = call.filter /\ K = CountedIn(call.filter, Gathered)
                       /\ L = lost["categories"]
    OBVIOUS
  <2>3. /\ out = [sums |-> Wrapped(SumsOf(f, Gathered)),
                  maps |-> [m \in Maps |-> Wrapped(Total(m, f, K \ lost[m]))]]
        /\ L \in SUBSET K
    BY <2>1, <2>2, ReportedIs DEF AskedFor
  <2>4. /\ out.maps["categories"] = Wrapped(Total("categories", f, K \ L))
        /\ out.maps["types"] = Wrapped(Total("types", f, K))
    <3>1. K \ lost["types"] = K
      BY <2>1
    <3> QED
      BY <2>2, <2>3, <3>1 DEF Maps
  <2>5. K \in SUBSET Tx /\ IsFiniteSet(K)
    <3>1. K \in SUBSET Gathered
      BY <2>2 DEF CountedIn
    <3> QED
      BY <2>1, <3>1, GatheredRows, FS_Subset
  <2>6. [t \in L |-> t.row.value] = Amounts("categories", f, L)
    BY DEF Amounts, AmountOf
  <2>7. Wrap(SumFunction(Wrapped(Total("categories", f, K \ L)))
               + SumFunction(Amounts("categories", f, L)))
          = Wrap(SumFunction(Total("categories", f, K)))
    BY <2>1, <2>2, <2>3, <2>5, ShortAddsUp
  <2>8. Wrap(SumFunction(Total("categories", f, K))) =
          IF "Payment" \in DOMAIN Total("types", f, K)
          THEN Wrap(Total("types", f, K)["Payment"]) ELSE 0
    <3>1. Wrap(0) = 0
      BY WrapAdds, PostingAssumption DEF Int64
    <3> QED
      BY <2>5, <3>1, PaymentsAgree
  <2>9. PICK x : x = Total("types", f, K)
    OBVIOUS
  <2>10. /\ DOMAIN Wrapped(x) = DOMAIN x
         /\ \A k \in DOMAIN x : Wrapped(x)[k] = Wrap(x[k])
    BY DEF Wrapped
  <2> QED
    BY <2>2, <2>4, <2>6, <2>7, <2>8, <2>9, <2>10
<1> QED
  BY <1>1, AccountingHolds, PTL
=============================================================================
