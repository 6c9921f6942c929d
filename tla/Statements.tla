------------------------------ MODULE Statements ------------------------------
(****************************************************************************)
(* GET /transactions/statement of both backends, while movements go on.     *)
(* The service reads the balance of today, then every row of the account,   *)
(* in two SELECTs with nothing to hold them together; it goes back from the *)
(* balance to the opening balance, forth again to the balance after every   *)
(* row, then filters, sorts and cuts out a page.                            *)
(****************************************************************************)
EXTENDS Journal, Figures, Sorting

CONSTANTS
  Backends,       \* of "C" and "Rust"
  Queries,        \* what statements are asked for
  TicksPerSecond, \* 10^6
  DefaultLimit    \* 100

Query ==
  [account : Accounts, from : Nat \cup {Absent}, to : Nat \cup {Absent},
   kind : Kinds \cup {Absent}, newest : BOOLEAN,
   limit : Int \cup {Absent}, offset : Int \cup {Absent}]

ASSUME StatementsAssumption ==
  /\ Backends \subseteq {"C", "Rust"}
  /\ Queries \subseteq Query
  /\ TicksPerSecond \in Nat \ {0}
  /\ TicksPerDay \in Nat \ {0} /\ TicksPerDay % TicksPerSecond = 0
  /\ DefaultLimit \in Nat \ {0}

VARIABLES
  backend,        \* which one answers; it never changes
  pc,             \* what the statement reads next
  query, seen,    \* the request and the balance it has read
  result,         \* the answer
  asOf, upTo      \* history: rows there were at the first and second SELECT

reader == <<backend, pc, query, seen, result, asOf, upTo>>
svars == <<balance, rows, stamps, clock, dated, backend, pc, query, seen,
           result, asOf, upTo>>

-----------------------------------------------------------------------------
\* compute_account_statement.

\* The rows with their ids and dates, as they were entered.
Entered(i) == [row |-> rows[i], id |-> stamps[i].id, at |-> stamps[i].at]
Book == [i \in 1..Len(rows) |-> Entered(i)]

Earlier(x, y) == x.at < y.at \/ (x.at = y.at /\ x.id < y.id)
Later(x, y) == Earlier(y, x)

\* list_for_account without a limit: the places of the rows that name a.
ListOf(book, a) == {i \in DOMAIN book : Names(book[i].row, a)}

\* Places of a list of transactions in the order of their dates; no two have
\* the same date and id.
ByDate(I, txs) ==
  Orders(I, {p \in I \X I : Earlier(txs[p[1]], txs[p[2]])})

\* Mutant: the walk starts from the balance of today.
EntriesFromToday(a, current, txs) ==
  LET delta == [k \in DOMAIN txs |-> Delta(txs[k].row, a)]
      after[k \in 0..Len(txs)] ==
        IF k = 0 THEN current ELSE after[k - 1] + delta[k]
  IN [k \in DOMAIN txs |->
        [tx |-> txs[k], delta |-> delta[k], after |-> after[k]]]

\* The transactions of a, oldest first, with the balance after each.
Entries(a, current, txs) ==
  LET delta == [k \in DOMAIN txs |-> Delta(txs[k].row, a)]
      total == NetOf([k \in DOMAIN txs |-> txs[k].row], a)
      after[k \in 0..Len(txs)] ==
        IF k = 0 THEN current - total ELSE after[k - 1] + delta[k]
  IN [k \in DOMAIN txs |->
        [tx |-> txs[k], delta |-> delta[k], after |-> after[k]]]

\* `to` is the last whole second of its day.  The C service compares seconds,
\* the Rust service compares microseconds.
FirstOf(day) == day * TicksPerDay
LastSecondOf(day) == FirstOf(day + 1) - TicksPerSecond

\* Mutant: the last second of the day is left out.
InDatesExclusive(b, q, at) ==
  /\ q.from # Absent => at >= FirstOf(q.from)
  /\ q.to # Absent => at < LastSecondOf(q.to)

InDates(b, q, at) ==
  LET shown == IF b = "C" THEN at - (at % TicksPerSecond) ELSE at
  IN /\ q.from # Absent => shown >= FirstOf(q.from)
     /\ q.to # Absent => shown <= LastSecondOf(q.to)

Matches(b, q, t) ==
  InDates(b, q, t.at) /\ (q.kind # Absent => t.row.kind = q.kind)

Offset(q) == IF q.offset = Absent \/ q.offset < 0 THEN 0 ELSE q.offset

\* The C service takes a limit of 0 or less for none.
Limit(b, q) ==
  IF q.limit = Absent \/ (b = "C" /\ q.limit <= 0) THEN DefaultLimit
  ELSE IF q.limit < 0 THEN 0 ELSE q.limit

\* Mutant: the page ends where the first one would.
PageUnshifted(b, q, shown) ==
  SubSeq(shown, Offset(q) + 1, IF Limit(b, q) < Len(shown) THEN Limit(b, q)
                               ELSE Len(shown))

Page(b, q, shown) ==
  LET last == Offset(q) + Limit(b, q)
  IN SubSeq(shown, Offset(q) + 1, IF last < Len(shown) THEN last
                                  ELSE Len(shown))

NoStatement == [items |-> <<>>, total |-> 0, bounds |-> <<>>]

\* The places of the entries within the filters.
Kept(b, q, entries) == {k \in DOMAIN entries : Matches(b, q, entries[k].tx)}

\* Mutant: only the count is filtered.
StatementUnfiltered(b, q, entries, kept) ==
  [items |-> Page(b, q, entries), total |-> Len(kept), bounds |-> <<>>]

\* The last part of compute_account_statement: bounds, order, page of the
\* entries that are kept, whose places are given oldest first.
Statement(b, q, entries, kept) ==
  LET asc == [n \in DOMAIN kept |-> entries[kept[n]]]
  IN [items |-> Page(b, q, IF q.newest THEN Reverse(asc) ELSE asc),
      total |-> Len(asc),
      bounds |-> IF asc = <<>> THEN <<>>
                 ELSE <<asc[1].after - asc[1].delta, asc[Len(asc)].after>>]

-----------------------------------------------------------------------------
StatementInit ==
  /\ JournalInit
  /\ backend \in Backends
  /\ pc = "idle" /\ query = Absent /\ seen = 0 /\ result = NoStatement
  /\ asOf = 0 /\ upTo = 0

\* ensure_account_owned_by and the parameters are checked first, and nothing
\* of them can change afterwards.
Ask ==
  /\ pc = "idle"
  /\ query' \in Queries
  /\ pc' = "balance"
  /\ UNCHANGED <<world, backend, seen, result, asOf, upTo>>

ReadBalance ==
  /\ pc = "balance"
  /\ seen' = balance[query.account]
  /\ asOf' = Len(rows)
  /\ pc' = "rows"
  /\ UNCHANGED <<world, backend, query, result, upTo>>

ReadRows ==
  /\ pc = "rows"
  /\ \E asc \in ByDate(ListOf(Book, query.account), Book) :
       LET txs == [k \in DOMAIN asc |-> Book[asc[k]]]
           entries == Entries(query.account, seen, txs)
       IN \E kept \in ByDate(Kept(backend, query, entries), txs) :
            result' = Statement(backend, query, entries, kept)
  /\ upTo' = Len(rows)
  /\ pc' = "answered" /\ seen' = 0
  /\ UNCHANGED <<world, backend, query, asOf>>

\* Either SELECT fails, and the answer is an error; or the answer has been
\* given.  Nothing of it is kept.
ReadDone ==
  /\ pc # "idle"
  /\ pc' = "idle" /\ query' = Absent /\ seen' = 0 /\ result' = NoStatement
  /\ asOf' = 0 /\ upTo' = 0
  /\ UNCHANGED <<world, backend>>

StatementReader == Ask \/ ReadBalance \/ ReadRows \/ ReadDone

StatementNext == StatementReader \/ (JournalNext /\ UNCHANGED reader)

StatementSpec == StatementInit /\ [][StatementNext]_svars

-----------------------------------------------------------------------------
\* Properties.

StatementTypeOK ==
  /\ JournalTypeOK
  /\ backend \in Backends
  /\ pc \in {"idle", "balance", "rows", "answered"}
  /\ query \in Queries \cup {Absent} /\ seen \in Int
  /\ asOf \in 0..MaxRows /\ upTo \in 0..MaxRows
  /\ Len(result.items) <= result.total

\* What is in the books, as sets of places: the rows of account a the second
\* SELECT saw, those not later than t, and those a statement is to show.
Booked(book, n, a) == {i \in 1..n : Names(book[i].row, a)}
UpToTx(book, n, a, t) == {i \in Booked(book, n, a) : ~Later(book[i], t)}
Wanted(b, book, n, q) ==
  {i \in Booked(book, n, q.account) : Matches(b, q, book[i])}

\* What the rows at the places I come to for a.
SumOf(book, a, I) ==
  LET sum[k \in 0..Len(book)] ==
        IF k = 0 THEN 0
        ELSE sum[k - 1] + (IF k \in I THEN Delta(book[k].row, a) ELSE 0)
  IN sum[Len(book)]

\* The balance a had after its row t.
BalanceAfter(book, n, a, t) ==
  Opening[a] + SumOf(book, a, UpToTx(book, n, a, t))

\* What was posted to a between the two SELECTs.
Missed(book, m, n, a) == SumOf(book, a, Booked(book, n, a) \ (1..m))

Answered == pc = "answered" /\ query.account # Bank

\* Every balance of a statement is the one the account had after that movement
\* in the order of dates, less what was posted between the two SELECTs: one
\* shift for the whole statement, which never tears it within.
ExplainedBy(b, book, q, res, m, n) ==
  LET a == q.account
      wanted == Wanted(b, book, n, q)
      After(t) == BalanceAfter(book, n, a, t) - Missed(book, m, n, a)
  IN /\ \A k \in 1..Len(res.items) : res.items[k].after = After(res.items[k].tx)
     /\ (res.bounds = <<>>) <=> (wanted = {})
     /\ \A i \in wanted :
          /\ (\A j \in wanted : ~Earlier(book[j], book[i])) =>
               res.bounds[1] = After(book[i]) - Delta(book[i].row, a)
          /\ (\A j \in wanted : ~Later(book[j], book[i])) =>
               res.bounds[2] = After(book[i])

Explained ==
  Answered => ExplainedBy(backend, Book, query, result, asOf, upTo)

\* Those a statement puts before row i.
Ahead(b, book, n, q, i) ==
  {j \in Wanted(b, book, n, q) : IF q.newest THEN Later(book[j], book[i])
                                 ELSE Earlier(book[j], book[i])}

\* A page holds the matching rows of rank offset + 1 to offset + limit, in the
\* order asked for, so that the pages of one state of the books make up the
\* whole statement.
PagedBy(b, book, q, res, n) ==
  LET wanted == Wanted(b, book, n, q)
      ranks == (Offset(q) + 1)..(Offset(q) + Limit(b, q))
  IN /\ res.total = Cardinality(wanted)
     /\ Len(res.items) = Cardinality(ranks \cap (1..res.total))
     /\ \A i \in wanted :
          LET rank == Cardinality(Ahead(b, book, n, q, i)) + 1
          IN rank \in ranks => res.items[rank - Offset(q)].tx = book[i]

Paged == Answered => PagedBy(backend, Book, query, result, upTo)

\* What the Rust service leaves out of a range that ends with the day or the
\* month of this length: the fractions of its last second.
Lost(b, at, length) == b = "Rust" /\ at % length > length - TicksPerSecond

\* Whether row t is of one of the days, and of the kind, that q names.
OfDays(q, t) ==
  LET day == t.at \div TicksPerDay
  IN /\ q.from # Absent => day >= q.from
     /\ q.to # Absent => day <= q.to
     /\ q.kind # Absent => t.row.kind = q.kind

\* `from` and `to` are inclusive: a movement of one of these days is counted, up
\* to the last instant of the last one (server/readme.md of the Rust backend,
\* line 721).
WholeDays ==
  Answered =>
    result.total =
      Cardinality({i \in Booked(Book, upTo, query.account) :
                     OfDays(query, Book[i])})

\* The C service, which compares whole seconds, keeps to it.
WholeDaysInC == backend = "C" => WholeDays

\* What is counted by either: the Rust service goes by microseconds, and leaves
\* out what comes after the first instant of the last second (transaction.rs:391).
Cut(b, q, t) ==
  q.to # Absent /\ t.at \div TicksPerDay = q.to /\ Lost(b, t.at, TicksPerDay)

DaysCounted ==
  Answered =>
    result.total =
      Cardinality({i \in Booked(Book, upTo, query.account) :
                     OfDays(query, Book[i]) /\ ~Cut(backend, query, Book[i])})

\* What makes these hold: the books explain the balances, the ids follow the
\* commits, and a statement that has read the balance has read what the rows
\* committed by then come to.
BooksSound ==
  /\ JournalTypeOK /\ Len(rows) <= MaxRows
  /\ Reconciled
  /\ \A i \in 1..Len(rows) : stamps[i].id = i

ReaderSound ==
  /\ pc # "idle" => query \in Queries
  /\ pc \in {"rows", "answered"} => asOf <= Len(rows)
  /\ pc = "answered" => asOf <= upTo /\ upTo <= Len(rows)
  /\ pc = "rows" /\ query.account # Bank =>
       LET a == query.account
       IN seen = Opening[a] + SumOf(Book, a, Booked(Book, asOf, a))

StatementInductive ==
  /\ StatementTypeOK /\ BooksSound /\ ReaderSound
  /\ Explained /\ Paged /\ DaysCounted
=============================================================================
