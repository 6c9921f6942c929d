------------------------------ MODULE Statistics ------------------------------
(****************************************************************************)
(* compute_user_statistics and compute_user_statistics_extended of both     *)
(* backends: the transactions are cut into slices, a thread works on each,  *)
(* and the threads meet in shared sums and maps.                            *)
(*                                                                          *)
(* A C worker adds to the atomic sums as it goes, collects its maps in      *)
(* private and merges them at the end, each map under its mutex; the        *)
(* categories are a second pass of the caller, with filters of its own.     *)
(* A Rust worker locks the maps for every transaction, the categories too.  *)
(* The C caller joins by hand on every path, and then frees what the        *)
(* workers read; the Rust caller leaves both to thread::scope.              *)
(*                                                                          *)
(* The C code keeps days and categories in arrays that double when they are *)
(* full.  Where realloc fails, the entry is left out and nobody is told.    *)
(****************************************************************************)
EXTENDS Figures, SequencesExt

CONSTANTS
  Calls, NoCall, Pending, Failed,   \* as in Summary
  Threads,        \* 1..n, at least as many as any call starts
  SizeT,          \* stands for 2^64, the modulus of size_t
  DayRoom,        \* the first capacity of an array of days: 16
  CategoryRoom,   \* and of categories: 8
  Free            \* a mutex nobody holds

\* The Rust service rounds its slices down and their number up.
MostStarted(c) ==
  IF c.backend = "C" THEN c.processors ELSE 2 * c.processors - 1

ASSUME StatisticsAssumption ==
  /\ IsFiniteSet(Threads) /\ Threads = 1..Cardinality(Threads)
  /\ SizeT \in Nat \ {0, 1} /\ TicksPerDay \in Nat \ {0}
  /\ DayRoom \in Nat \ {0} /\ CategoryRoom \in Nat \ {0}
  /\ Free \notin Threads
  /\ Calls \subseteq Call
  /\ \A c \in Calls :
       /\ IsFiniteSet(c.books) /\ Cardinality(c.books) < SizeT
       /\ MostStarted(c) <= Cardinality(Threads)

VARIABLES
  call,           \* the parameters
  main,           \* what the caller does next
  txs,            \* all_txs: the transactions, each once
  worker,         \* the threads
  lock,           \* who holds the mutex of each map
  sums, maps,     \* the shared figures
  lost,           \* what found no room on its way to each of the maps
  out             \* what the caller returned; Failed until then

vars == <<call, main, txs, worker, lock, sums, maps, lost, out>>

C == call.backend = "C"

NoWorker == [at |-> "none", next |-> 0, left |-> 0, batch |-> {},
             inside |-> FALSE, held |-> <<>>]

NoMaps == [m \in Maps |-> <<>>]

Init ==
  /\ call = NoCall /\ main = "idle" /\ txs = <<>> /\ out = Failed
  /\ worker = [t \in Threads |-> NoWorker]
  /\ lock = [m \in Maps |-> Free]
  /\ sums = NoSums /\ maps = NoMaps /\ lost = NoneShort

-----------------------------------------------------------------------------
\* The caller.

Ask ==
  /\ main = "idle"
  /\ call' \in Calls
  /\ main' = "gather"
  /\ worker' = [t \in Threads |-> NoWorker]
  /\ lock' = [m \in Maps |-> Free]
  /\ sums' = NoSums /\ maps' = NoMaps /\ lost' = NoneShort /\ out' = Failed
  /\ UNCHANGED txs

\* The lists of the accounts: a movement between two of them is in both.
ListOf(a) == Newest(call.books, a, call.limit)
Gathered == UNION {ListOf(a) : a \in call.filter.owned}

\* Mutant: sorted by id, and the duplicates left in.
UndedupedOrders ==
  {SortSeq(FlattenSeq([i \in 1..Cardinality(call.filter.owned) |->
             SetToSeq(ListOf(SetToSeq(call.filter.owned)[i]))]),
           LAMBDA t, u : t.id < u.id)}

\* dedupe_transactions_by_id sorts; a HashMap comes out in any order.
Deduped ==
  {s \in SetToSeqs(Gathered) :
     C => \A i, j \in DOMAIN s : i < j => s[i].id <= s[j].id}

\* How many threads, and how many transactions each but the last takes.
ThreadsFor(n) ==
  IF n > 0 /\ call.processors > n THEN n ELSE call.processors

ChunkFor(n) ==
  LET share == n \div (IF C THEN ThreadsFor(n) ELSE call.processors)
  IN IF share = 0 THEN 1 ELSE share

Started(n) ==
  IF C THEN ThreadsFor(n) ELSE (n + ChunkFor(n) - 1) \div ChunkFor(n)

Gather ==
  /\ main = "gather"
  /\ txs' \in Deduped
  /\ main' = IF Started(Len(txs')) = 0 THEN "join" ELSE "spawn"
  /\ UNCHANGED <<call, worker, lock, sums, maps, lost, out>>

\* Back to the client; nothing of the call is kept.
Return(value) ==
  /\ main' = "idle" /\ txs' = <<>> /\ out' = value
  /\ UNCHANGED <<call, worker, lock, sums, maps>>

\* A list cannot be read, or there is no memory for it.
GatherFails == main = "gather" /\ Return(Failed) /\ UNCHANGED lost

Running == {t \in Threads : worker[t].at # "none"}

\* The slices lie side by side; the last one takes what is left.  all_count -
\* offset is a size_t.
Spawn ==
  /\ main = "spawn"
  /\ LET n == Len(txs)
         t == Cardinality(Running) + 1
         offset == Cardinality(Running) * ChunkFor(n)
         slice == IF t = Started(n) THEN (n - offset) % SizeT ELSE ChunkFor(n)
     IN /\ worker' = [worker EXCEPT ![t] = [NoWorker EXCEPT !.at = "take",
                                              !.next = offset + 1,
                                              !.left = slice]]
        /\ main' = IF t = Started(n) THEN "join" ELSE main
  /\ UNCHANGED <<call, txs, lock, sums, maps, lost, out>>

\* No thread to be had: those that run are waited for, then the call fails.
SpawnFails ==
  /\ main = "spawn"
  /\ main' = "abandon"
  /\ UNCHANGED <<call, txs, worker, lock, sums, maps, lost, out>>

Joined == \A t \in Running : worker[t].at = "end"

\* Mutant: the threads that run are left behind.
AbandonUnjoined == main = "abandon" /\ Return(Failed) /\ UNCHANGED lost

Abandon == main = "abandon" /\ Joined /\ Return(Failed) /\ UNCHANGED lost

\* What is returned, without what was not asked for.
Collected(figures) ==
  IF call.extended THEN figures
  ELSE [figures EXCEPT !.sums.count = 0, !.maps["categories"] = <<>>]

Join ==
  /\ main = "join" /\ Joined
  /\ \/ C /\ call.extended
        /\ main' = "categorise"
        /\ UNCHANGED <<call, txs, worker, lock, sums, maps, lost, out>>
     \/ ~(C /\ call.extended)
        /\ Return(Collected([sums |-> sums, maps |-> maps]))
        /\ UNCHANGED lost

\* Mutant: the dates are left out of the second pass.
PassesUndated(f, t) ==
  /\ f.kind # Absent => t.row.kind = f.kind
  /\ f.scope # Absent => Names(t.row, f.scope)

\* tx_passes_filters.
Passes(f, t) ==
  /\ f.from # Absent => f.from <= t.at
  /\ f.to # Absent => t.at <= f.to
  /\ f.kind \in {Absent, t.row.kind}
  /\ f.scope \in {Absent, t.row.from, t.row.to}

\* An array that doubles must grow before it takes one more than n entries.
Full(room, n) == n = 0 \/ \E k \in 0..n : n = room * 2^k

\* The second pass stops where the array of categories has to grow for a new
\* one and cannot: what comes after is left out, categories it has among it.
Categorise ==
  /\ main = "categorise"
  /\ \E n \in 0..Len(txs) :
       LET paid(i) == Passes(call.filter, txs[i]) /\ Into("categories", txs[i])
           read == {txs[i] : i \in {j \in 1..n : paid(j)}}
           known == {t.category : t \in read}
       IN /\ n < Len(txs) =>
               /\ paid(n + 1) /\ txs[n + 1].category \notin known
               /\ Full(CategoryRoom, Cardinality(known))
          /\ lost' = [lost EXCEPT !["categories"] =
                        {txs[i] : i \in {j \in (n + 1)..Len(txs) : paid(j)}}]
          /\ Return([sums |-> sums,
                     maps |-> [maps EXCEPT !["categories"] =
                                 Wrapped(Total("categories", call.filter, read))]])

-----------------------------------------------------------------------------
\* A worker.

Mind(t, w) == worker' = [worker EXCEPT ![t] = w]

\* Mutant: a transaction that is left out is not stepped over.
TakeSticks(t) ==
  /\ worker[t].at = "take" /\ worker[t].left > 0 /\ worker[t].next <= Len(txs)
  /\ LET tx == txs[worker[t].next]
         stepped == [worker[t] EXCEPT !.next = @ + 1, !.left = @ - 1]
     IN \/ ~Counted(call.filter, tx) /\ UNCHANGED vars
        \/ /\ Counted(call.filter, tx)
           /\ sums' = Added(sums, call.filter, tx)
           /\ Mind(t, [stepped EXCEPT !.batch = @ \cup {tx},
                                      !.at = IF C THEN "take" ELSE "types"])
           /\ UNCHANGED <<call, main, txs, lock, maps, lost, out>>

\* The days of a batch that the worker has an entry for, and whether another
\* entry may find no room.
DaysOf(batch) == {DayOf(tx.at) : tx \in batch \ lost["days"]}

MayLose(batch, day) ==
  C /\ day \notin DaysOf(batch) /\ Full(DayRoom, Cardinality(DaysOf(batch)))

\* The next transaction of the slice.  Reading past the list is reading at
\* NULL + offset when the list is empty: the process is gone.
Take(t) ==
  /\ worker[t].at = "take" /\ worker[t].left > 0
  /\ IF worker[t].next > Len(txs)
     THEN main' = "crashed" /\ UNCHANGED <<worker, sums, lost>>
     ELSE LET tx == txs[worker[t].next]
              stepped == [worker[t] EXCEPT !.next = @ + 1, !.left = @ - 1]
          IN /\ \/ /\ ~Counted(call.filter, tx)
                   /\ Mind(t, stepped) /\ UNCHANGED <<sums, lost>>
                \/ /\ Counted(call.filter, tx)
                   /\ sums' = Added(sums, call.filter, tx)
                   /\ Mind(t, [stepped EXCEPT
                                 !.batch = @ \cup {tx},
                                 !.at = IF C THEN "take" ELSE "types"])
                   /\ \/ UNCHANGED lost
                      \/ /\ MayLose(worker[t].batch, DayOf(tx.at))
                         /\ lost' = [lost EXCEPT !["days"] = @ \cup {tx}]
             /\ UNCHANGED main
  /\ UNCHANGED <<call, txs, lock, maps, out>>

\* The end of the slice: a C worker has all its merging to do, a Rust worker
\* none.
Finish(t) ==
  /\ worker[t].at = "take" /\ worker[t].left = 0
  /\ Mind(t, [worker[t] EXCEPT !.at = IF C THEN "types" ELSE "end"])
  /\ UNCHANGED <<call, main, txs, lock, sums, maps, lost, out>>

\* Mutant: nobody waits for the mutex.
AcquireAnyway(t) ==
  LET m == worker[t].at
  IN /\ m \in Maps /\ ~worker[t].inside
     /\ lock' = [lock EXCEPT ![m] = t]
     /\ Mind(t, [worker[t] EXCEPT !.inside = TRUE, !.held = maps[m]])
     /\ UNCHANGED <<call, main, txs, sums, maps, lost, out>>

\* The mutex of the map, and the map as it is then.
Acquire(t) ==
  LET m == worker[t].at
  IN /\ m \in Maps /\ ~worker[t].inside /\ lock[m] = Free
     /\ lock' = [lock EXCEPT ![m] = t]
     /\ Mind(t, [worker[t] EXCEPT !.inside = TRUE, !.held = maps[m]])
     /\ UNCHANGED <<call, main, txs, sums, maps, lost, out>>

\* What comes after the merge into a map.
After(t) ==
  CASE worker[t].at = "types" -> "days"
    [] worker[t].at = "days" /\ C -> "end"
    [] worker[t].at = "days" /\ ~C ->
         IF \E tx \in worker[t].batch : Into("categories", tx)
         THEN "categories" ELSE "take"
    [] worker[t].at = "categories" -> "take"

\* A private array has its days in the order the worker met them in.
Earlier(batch, d, e) ==
  LET on(i, day) == txs[i] \in batch /\ DayOf(txs[i].at) = day
  IN \E i \in DOMAIN txs : on(i, d) /\ \A j \in 1..i : ~on(j, e)

\* The new days of a batch that may find no room in the shared map, where each
\* comes to an array that has to grow.
MayDrop(batch, shared) ==
  LET kept == batch \ lost["days"]
      new == DaysOf(batch) \ shared
  IN {gone \in SUBSET new :
        \A d \in gone :
          Full(DayRoom, Cardinality(shared) +
                 Cardinality({e \in new \ gone : Earlier(kept, e, d)}))}

Dropped(t) ==
  IF C /\ worker[t].at = "days"
  THEN MayDrop(worker[t].batch, DOMAIN worker[t].held) ELSE {{}}

\* What the batch comes to is added, and the mutex released.
Merge(t) ==
  LET m == worker[t].at
      batch == worker[t].batch
  IN /\ m \in Maps /\ worker[t].inside
     /\ \E gone \in Dropped(t) :
          lost' = [lost EXCEPT ![m] = @ \cup {tx \in batch : KeyOf(m, tx) \in gone}]
     /\ maps' = [maps EXCEPT ![m] =
                   Merged(worker[t].held,
                          Wrapped(Total(m, call.filter, batch \ lost'[m])))]
     /\ lock' = [lock EXCEPT ![m] = Free]
     /\ Mind(t, [worker[t] EXCEPT !.at = After(t),
                   !.inside = FALSE, !.held = <<>>,
                   !.batch = IF After(t) \in {"take", "end"} THEN {} ELSE @])
     /\ UNCHANGED <<call, main, txs, sums, out>>

-----------------------------------------------------------------------------
Caller ==
  \/ Gather \/ GatherFails \/ Spawn \/ SpawnFails \/ Abandon \/ Join
  \/ Categorise

Work(t) == Take(t) \/ Finish(t) \/ Acquire(t) \/ Merge(t)

Next == main # "crashed" /\ (Ask \/ Caller \/ \E t \in Threads : Work(t))

Spec == Init /\ [][Next]_vars

\* The operating system runs every thread, the caller's among them.
FairSpec ==
  Spec /\ WF_vars(Caller) /\ \A t \in Threads : WF_vars(Work(t))

-----------------------------------------------------------------------------
\* Properties.

Labels == {"none", "take", "end"} \cup Maps

TypeOK ==
  /\ call \in Calls \cup {NoCall}
  /\ main \in {"idle", "gather", "spawn", "abandon", "join", "categorise",
               "crashed"}
  /\ txs \in Seq(Tx)
  /\ \A t \in Threads :
       /\ worker[t].at \in Labels
       /\ worker[t].next \in Nat
       /\ worker[t].left \in 0..(SizeT - 1)
       /\ worker[t].batch \subseteq Tx
  /\ lock \in [Maps -> Threads \cup {Free}]
  /\ \A t \in Threads : worker[t].inside <=>
       worker[t].at \in Maps /\ lock[worker[t].at] = t
  /\ sums \in [{"count", "incoming", "outgoing", "volume"} -> Int64]
  /\ lost \in [Maps -> SUBSET Tx]

\* However the threads are scheduled and the transactions sliced, what is
\* returned are the right figures of the rows, as 64 bits hold them, or an
\* error; or, where an array of the C service could not grow, figures whose
\* sums and kinds are right and whose days and categories are those of some of
\* the transactions only.
Short == main = "idle" /\ out # Failed /\ lost # NoneShort

Answer == INSTANCE Summary WITH
  call <- call, Right <- Right, FallsShort <- FallsShort,
  answer <- IF main = "idle" THEN out ELSE Pending, short <- Short
SummarySpec == Answer!Spec

ASSUME AnswerAssumption ==
  /\ Pending # Failed
  /\ \A c \in Calls : Right(c) # Pending /\ ~FallsShort(c, Pending)

\* The list, the arguments and the shared figures are those of a caller that
\* is still there as long as a thread may touch them, or of a process that is
\* gone altogether.
NoUseAfterFree ==
  \A t \in Threads :
    worker[t].at \notin {"none", "end"} =>
      main \in {"spawn", "join", "abandon", "crashed"}

\* What makes it hold, and the types.  In "idle" and "categorise" no thread
\* runs; a mutex belongs to a thread that merges into its map; those that have
\* been started are the first ones; and where there is anything to read, every
\* slice lies within the list.
WorkersOK ==
  \E held :
    worker \in [Threads ->
      [at : Labels, next : Nat, left : 0..(SizeT - 1), batch : SUBSET Tx,
       inside : BOOLEAN, held : held]]

LocksOK ==
  \A t \in Threads, m \in Maps : lock[m] = t => worker[t].at = m

CallOK == main # "idle" => call \in Calls

ListOK ==
  /\ main \in {"idle", "gather"} => txs = <<>>
  /\ Len(txs) < SizeT
  /\ main = "spawn" => Started(Len(txs)) > 0

ThreadsOK ==
  /\ main = "gather" => \A t \in Threads : worker[t].at = "none"
  /\ main \in {"idle", "categorise"} =>
       \A t \in Threads : worker[t].at \in {"none", "end"}

SpawnOK ==
  main = "spawn" =>
    \E k \in 0..Cardinality(Threads) :
      /\ k < Started(Len(txs))
      /\ \A t \in Threads : worker[t].at # "none" <=> t <= k

SlicesOK ==
  \A t \in Threads : worker[t].at # "none" =>
    /\ worker[t].next >= 1
    /\ txs # <<>> => worker[t].next + worker[t].left <= Len(txs) + 1

\* The process goes only where there is nothing to read.
CrashOK == main = "crashed" => txs = <<>>

Inductive ==
  /\ TypeOK /\ WorkersOK /\ LocksOK /\ CallOK /\ ListOK
  /\ ThreadsOK /\ SpawnOK /\ SlicesOK /\ CrashOK

\* What makes what is returned right: at every moment the shared sums are those
\* of the transactions that have been taken, and each map the totals of those
\* of them that no thread has still to merge into it.

\* The slice of a thread, and what it has taken of it.
First(t) == (t - 1) * ChunkFor(Len(txs)) + 1

Slice(t) ==
  IF t = Started(Len(txs)) THEN (Len(txs) - (First(t) - 1)) % SizeT
  ELSE ChunkFor(Len(txs))

TakenBy(t) == {txs[i] : i \in First(t)..(worker[t].next - 1)}
Taken == UNION {TakenBy(t) : t \in Running}

CountedOf(T) == {tx \in T : Counted(call.filter, tx)}

\* The maps a thread has still to merge its batch into.
Awaited(t) ==
  IF worker[t].at \in {"take", "types"} THEN Maps
  ELSE IF worker[t].at = "days" THEN {"days", "categories"}
  ELSE {worker[t].at} \cap Maps

Unmerged(m) ==
  UNION {worker[t].batch : t \in {u \in Running : m \in Awaited(u)}}

FiguresOK ==
  /\ sums = Wrapped(SumsOf(call.filter, Taken))
  /\ maps = [m \in Maps |->
               IF C /\ m = "categories" THEN <<>>
               ELSE Wrapped(Total(m, call.filter,
                              (CountedOf(Taken) \ Unmerged(m)) \ lost[m]))]

\* Only the C service loses anything: from its days, and at the very end from
\* its categories.
LostOK ==
  /\ lost["types"] = {} /\ lost["categories"] = {}
  /\ ~C => lost["days"] = {}

BatchesOK ==
  \A t \in Running :
    /\ worker[t].batch \subseteq CountedOf(TakenBy(t))
    /\ ~C /\ worker[t].at = "take" => worker[t].batch = {}
    /\ worker[t].inside => worker[t].held = maps[worker[t].at]

ProgressOK ==
  \A t \in Running :
    /\ worker[t].next >= First(t)
    /\ worker[t].next + worker[t].left = First(t) + Slice(t)
    /\ txs = <<>> => worker[t].next = First(t)
    /\ C => worker[t].at # "categories"
    /\ worker[t].at = "end" \/ (C /\ worker[t].at \in Maps) =>
         worker[t].left = 0

StartedOK ==
  main # "gather" =>
    /\ txs \in Deduped
    /\ \A t \in Running : t <= Started(Len(txs))
    /\ main \in {"join", "categorise"} =>
         \A t \in 1..Started(Len(txs)) : t \in Running
    /\ main = "categorise" => C /\ call.extended

Accounting ==
  /\ main # "idle" =>
       FiguresOK /\ LostOK /\ BatchesOK /\ ProgressOK /\ StartedOK
  /\ main = "idle" /\ out # Failed =>
       /\ call \in Calls /\ out = Reported(call, lost)
       /\ lost["types"] = {} /\ lost["categories"] \subseteq Asked(call)
       /\ \A t \in lost["categories"] : Into("categories", t)
       /\ ~C => lost = NoneShort

\* Two pieces of code filter the payments, and both say the same: the
\* categories, with the payments the second pass stopped short of, add up to
\* what the kinds say of payments.
CategoriesAddUp ==
  main = "idle" /\ out # Failed /\ call.extended =>
    LET missed == [t \in lost["categories"] |-> t.row.value]
    IN Wrap(SumFunction(out.maps["categories"]) + SumFunction(missed)) =
         IF "Payment" \in DOMAIN out.maps["types"]
         THEN out.maps["types"]["Payment"] ELSE 0

\* A call that succeeds returns all of what was asked for: `false` and an error
\* are how the C services report that memory is short.
SuccessIsWhole == main = "idle" /\ out # Failed => out = Right(call)

\* Every call returns: no thread waits for ever for a mutex, no caller for a
\* thread.
Returns == main # "idle" ~> main = "idle"

\* No worker reads outside the list it was given.
NeverCrashes == main # "crashed"
=============================================================================
