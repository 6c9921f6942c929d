-------------------------------- MODULE Figures --------------------------------
(****************************************************************************)
(* What the statistics of a customer are: figures over a set of             *)
(* transactions.  The movements between two accounts of the customer cancel *)
(* out in the money that came and went and still count by their kind.       *)
(*                                                                          *)
(* The C service keeps these figures in arrays that grow, the Rust service  *)
(* in maps; both are functions from the keys present to their totals here.  *)
(* Every amount is an int64_t or an i64: the atomic additions wrap around,  *)
(* and so do the plain ones of a release build.                             *)
(****************************************************************************)
EXTENDS Posting, FiniteSets, Functions

CONSTANTS
  TicksPerDay,    \* 86400 s, in the ticks recorded_on is kept in
  Categories,     \* the categories payments can name
  Other,          \* what a payment without a category is counted under
  Absent          \* a filter that is left out

Tx == [id : Nat, at : Nat, row : Row, category : Categories \cup {Other}]

\* What the customer asks for; `owned` are the customer's accounts.
Filter ==
  [owned : SUBSET Accounts, scope : Accounts \cup {Absent},
   from : Nat \cup {Absent}, to : Nat \cup {Absent},
   kind : Kinds \cup {Absent}]

\* What is asked for: the books, the filters, the LIMIT of each list, and
\* whether the extended figures are wanted (count and categories).  What comes
\* out depends neither on the backend nor on the number of its processors.
Call ==
  [books : SUBSET Tx, filter : Filter, limit : Nat \ {0}, extended : BOOLEAN,
   backend : {"C", "Rust"}, processors : Nat \ {0}]

\* The rows list_for_account returns: the newest `limit` that name a.
NewerThan(t, u) == t.at > u.at \/ (t.at = u.at /\ t.id > u.id)

Newest(books, a, limit) ==
  LET named == {t \in books : Names(t.row, a)}
  IN {t \in named : Cardinality({u \in named : NewerThan(u, t)}) < limit}

\* What a worker leaves out.
Counted(f, t) ==
  /\ f.from # Absent => t.at >= f.from
  /\ f.to # Absent => t.at <= f.to
  /\ f.kind # Absent => t.row.kind = f.kind
  /\ f.scope # Absent => Names(t.row, f.scope)

\* Money in less money out: of one account, or of all the customer owns.
Mine(f) == IF f.scope = Absent THEN f.owned ELSE {f.scope}

NetFor(f, t) ==
  (IF t.row.to \in Mine(f) THEN t.row.value ELSE 0)
    - (IF t.row.from \in Mine(f) THEN t.row.value ELSE 0)

DayOf(at) == at \div TicksPerDay

\* The three maps, the transactions that go into each, and where.
Maps == {"types", "days", "categories"}

Into(m, t) == m = "categories" => t.row.kind = "Payment"

KeyOf(m, t) == CASE m = "types" -> t.row.kind
                 [] m = "days" -> DayOf(t.at)
                 [] m = "categories" -> t.category

AmountOf(m, f, t) == IF m = "days" THEN NetFor(f, t) ELSE t.row.value

Total(m, f, T) ==
  LET taken == {t \in T : Into(m, t)}
  IN [k \in {KeyOf(m, t) : t \in taken} |->
        SumFunction([t \in {u \in taken : KeyOf(m, u) = k} |->
                       AmountOf(m, f, t)])]

\* What 64 bits keep of an amount, in two's complement, and of each entry of a
\* record or a map of amounts.  MaxCents stands for INT64_MAX.
Int64 == (-MaxCents - 1)..MaxCents

Wrap(n) == ((n + MaxCents + 1) % (2 * (MaxCents + 1))) - (MaxCents + 1)

Wrapped(x) == [k \in DOMAIN x |-> Wrap(x[k])]

\* day_total_map_add for every entry of another map.
Merged(x, y) ==
  [k \in DOMAIN x \cup DOMAIN y |->
     Wrap((IF k \in DOMAIN x THEN x[k] ELSE 0)
            + (IF k \in DOMAIN y THEN y[k] ELSE 0))]

\* The three sums and the count.
NoSums == [count |-> 0, incoming |-> 0, outgoing |-> 0, volume |-> 0]

Size(n) == IF n < 0 THEN -n ELSE n

Added(sums, f, t) ==
  LET net == NetFor(f, t)
  IN [count |-> Wrap(sums.count + 1),
      incoming |-> Wrap(sums.incoming + (IF net > 0 THEN net ELSE 0)),
      outgoing |-> Wrap(sums.outgoing + (IF net < 0 THEN -net ELSE 0)),
      volume |-> Wrap(sums.volume + Size(net))]

\* All figures at once.
SumsOf(f, T) ==
  LET counted == {t \in T : Counted(f, t)}
      gains == {t \in counted : NetFor(f, t) > 0}
      losses == counted \ gains
  IN [count |-> Cardinality(counted),
      incoming |-> SumFunction([t \in gains |-> NetFor(f, t)]),
      outgoing |-> SumFunction([t \in losses |-> -NetFor(f, t)]),
      volume |-> SumFunction([t \in counted |-> Size(NetFor(f, t))])]

FiguresOf(f, T) ==
  [sums |-> SumsOf(f, T),
   maps |-> [m \in Maps |-> Total(m, f, {t \in T : Counted(f, t)})]]

\* What is handed out of them.
AskedFor(c, figures) ==
  IF c.extended THEN figures
  ELSE [figures EXCEPT !.sums.count = 0, !.maps["categories"] = <<>>]

\* The transactions a call is about: the newest rows of every account of the
\* customer, each row once, that pass the filters.
Asked(c) ==
  {t \in UNION {Newest(c.books, a, c.limit) : a \in c.filter.owned} :
     Counted(c.filter, t)}

\* The figures of those, in 64 bits, where each map is short of some of them;
\* what the customer should get is short of none.
NoneShort == [m \in Maps |-> {}]

Reported(c, short) ==
  LET asked == Asked(c)
  IN AskedFor(c, [sums |-> Wrapped(SumsOf(c.filter, asked)),
                  maps |-> [m \in Maps |->
                              Wrapped(Total(m, c.filter, asked \ short[m]))]])

Right(c) == Reported(c, NoneShort)

\* The C service goes on where an array cannot grow: the days and the
\* categories it then reports are those of some of the transactions.
FallsShort(c, figures) ==
  /\ c.backend = "C"
  /\ \E days, categories \in SUBSET Asked(c) :
       figures = Reported(c, [NoneShort EXCEPT !["days"] = days,
                                               !["categories"] = categories])
=============================================================================
