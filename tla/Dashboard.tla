------------------------------ MODULE Dashboard ------------------------------
(****************************************************************************)
(* GET /dashboard and GET /transactions/summary of both backends: one page  *)
(* put together from many SELECTs while movements go on.  The dashboard     *)
(* reads the accounts, then the lists of every account three times over:    *)
(* for the figures of this month, for those of the last month, and for the  *)
(* chart and the recent activity.  The summary reads the lists once, and    *)
(* the accounts after them in the C service, before them in the Rust one.   *)
(*                                                                          *)
(* The figures are the right ones Summary promises, with sums that fit.  A  *)
(* page and a statement are never read at the same time: they do not change *)
(* anything, so neither could tell.  All months have DaysPerMonth days.     *)
(****************************************************************************)
EXTENDS Statements

CONSTANTS
  Owned,          \* the accounts of the customer, in the order of their list
  Pages,          \* "dashboard", "summary"
  DaysPerMonth,
  StatsLimit,     \* 500
  RecentLimit,    \* 100
  RecentShown     \* 5

ASSUME DashboardAssumption ==
  /\ Owned \in Seq(Accounts \ {Bank}) /\ Owned # <<>>
  /\ Pages \subseteq {"dashboard", "summary"}
  /\ DaysPerMonth \in Nat \ {0}
  /\ StatsLimit \in Nat \ {0} /\ RecentLimit \in Nat \ {0}
  /\ RecentShown \in 1..RecentLimit
  /\ Absent \notin Int

VARIABLES
  page,           \* which page, and the figures read for it so far
  step,           \* what is read next
  todo,           \* the accounts still to be listed
  heard           \* all transactions of the lists read in this step

dash == <<page, step, todo, heard>>
dvars == <<balance, rows, stamps, clock, dated, backend, pc, query, seen,
           result, asOf, upTo, page, step, todo, heard>>

Owns == ToSet(Owned)

NoPage == [kind |-> Absent]

\* The page with more of it.
With(parts) ==
  [part \in DOMAIN parts \cup DOMAIN page |->
     IF part \in DOMAIN parts THEN parts[part] ELSE page[part]]

DashboardInit ==
  /\ StatementInit
  /\ page = NoPage /\ step = "idle" /\ todo = <<>> /\ heard = {}

-----------------------------------------------------------------------------
\* Months.

TicksPerMonth == DaysPerMonth * TicksPerDay
MonthOf(at) == at \div TicksPerMonth
MonthStart(month) == month * TicksPerMonth
MonthEnd(month) == MonthStart(month + 1) - TicksPerSecond

\* What the C service keeps of the time of a row.
AsRead(at) == IF backend = "C" THEN at - (at % TicksPerSecond) ELSE at
Read(T) == {[t EXCEPT !.at = AsRead(t.at)] : t \in T}

InMonth(month, t) ==
  AsRead(t.at) >= MonthStart(month) /\ AsRead(t.at) <= MonthEnd(month)

\* Mutant: money in and out of the first account only.
OfRangeScoped(T, from, to) ==
  FiguresOf([owned |-> Owns, scope |-> Head(Owned), from |-> from, to |-> to,
             kind |-> Absent], Read(T))

\* The statistics of a range, over the lists of all accounts.
OfRange(T, from, to) ==
  FiguresOf([owned |-> Owns, scope |-> Absent, from |-> from, to |-> to,
             kind |-> Absent], Read(T))

OfMonth(T, month) == OfRange(T, MonthStart(month), MonthEnd(month))

OfKinds(figures, kinds) ==
  LET types == figures.maps["types"]
  IN SumFunctionOnSet(types, kinds \cap DOMAIN types)

NetFlow(figures) == figures.sums.incoming - figures.sums.outgoing

\* The chart: what was spent from the first of the month to each day of it,
\* today being the last.
Spends(t) == t.row.kind \in {"Payment", "Withdrawal"} /\ t.row.from \in Owns

SpentUntil(T, month, day) ==
  LET spent == {t \in T : InMonth(month, t) /\ Spends(t)
                            /\ DayOf(AsRead(t.at)) <= day}
  IN SumFunction([t \in spent |-> t.row.value])

Chart(T, month, today) ==
  [day \in DayOf(MonthStart(month))..today |-> SpentUntil(T, month, day)]

\* Mutant: in the order of the ids.
NewestByIds(T) ==
  Orders(Read(T), {p \in Read(T) \X Read(T) : p[1].id > p[2].id})

\* The transactions read, the newest first.
NewestFirst(T) ==
  Orders(Read(T), {p \in Read(T) \X Read(T) : NewerThan(p[1], p[2])})

-----------------------------------------------------------------------------
\* The steps of a page.

AskPage ==
  /\ pc = "idle" /\ step = "idle"
  /\ \E k \in Pages :
       /\ page' = [kind |-> k]
       /\ step' = IF k = "dashboard" THEN "accounts" ELSE "now"
  /\ UNCHANGED <<world, reader, todo, heard>>

\* get_user_with_accounts: all balances in one SELECT.
ReadAccounts ==
  /\ step = "accounts"
  /\ page' = With([total |-> SumFunctionOnSet(balance, Owns)])
  /\ step' = IF page.kind = "dashboard" THEN "now"
             ELSE IF backend = "Rust" THEN "current" ELSE "shown"
  /\ asOf' = IF step' = "now" THEN Len(rows) ELSE asOf
  /\ upTo' = IF step' = "shown" THEN Len(rows) ELSE upTo
  /\ todo' = IF step' = "current" THEN Owned ELSE todo
  /\ UNCHANGED <<world, backend, pc, query, seen, result, heard>>

\* The clock says which month this is.
LookAtClock ==
  /\ step = "now"
  /\ page' = With([now |-> AsRead(clock)])
  /\ IF "total" \in DOMAIN page \/ backend = "C"
     THEN step' = "current" /\ todo' = Owned
     ELSE step' = "accounts" /\ UNCHANGED todo
  /\ asOf' = IF page.kind = "dashboard" THEN asOf ELSE Len(rows)
  /\ UNCHANGED <<world, backend, pc, query, seen, result, upTo, heard>>

\* The list of the next account.
Listing(i) == [id |-> stamps[i].id, at |-> stamps[i].at, row |-> rows[i],
               category |-> Other]
Books == {Listing(i) : i \in 1..Len(rows)}

LimitOf(s) == IF s = "recent" THEN RecentLimit ELSE StatsLimit

ListNext(s) ==
  /\ step = s /\ todo # <<>>
  /\ heard' = heard \cup Newest(Books, Head(todo), LimitOf(s))
  /\ todo' = Tail(todo)
  /\ UNCHANGED <<world, reader, page, step>>

\* Once they are all read: what is made of them.
Closing(s, next, parts) ==
  /\ step = s /\ todo = <<>>
  /\ page' = With(parts)
  /\ step' = next
  /\ heard' = {}

\* The summary takes the month until now, the dashboard the whole of it.
Current ==
  LET month == MonthOf(page.now)
      to == IF page.kind = "summary" THEN page.now ELSE MonthEnd(month)
  IN /\ Closing("current",
                IF page.kind = "dashboard" THEN "previous"
                ELSE IF backend = "Rust" THEN "shown" ELSE "accounts",
                [current |-> OfRange(heard, MonthStart(month), to)])
     /\ todo' = IF step' = "previous" THEN Owned ELSE <<>>
     /\ upTo' = IF step' = "shown" THEN Len(rows) ELSE upTo
     /\ UNCHANGED <<world, backend, pc, query, seen, result, asOf>>

\* Mutant: the last month ends where this one begins.
PreviousToStart ==
  /\ Closing("previous", "recent",
       [previous |-> OfRange(heard, MonthStart(MonthOf(page.now) - 1),
                             MonthStart(MonthOf(page.now)))])
  /\ todo' = Owned
  /\ UNCHANGED <<world, reader>>

Previous ==
  /\ Closing("previous", "recent",
       [previous |-> OfMonth(heard, MonthOf(page.now) - 1)])
  /\ todo' = Owned
  /\ UNCHANGED <<world, reader>>

\* The Rust service looks at the clock again for the end of the chart.
ChartAndRecent ==
  LET month == MonthOf(page.now)
      today == IF backend = "C" \/ MonthOf(clock) # month
               THEN DayOf(IF backend = "C" THEN page.now ELSE MonthEnd(month))
               ELSE DayOf(clock)
  IN /\ \E newest \in NewestFirst(heard) :
          Closing("recent", "shown",
            [chart |-> Chart(heard, month, today),
             recent |-> SubSeq(newest, 1, IF RecentShown < Len(newest)
                                          THEN RecentShown ELSE Len(newest))])
     /\ upTo' = Len(rows)
     /\ UNCHANGED <<world, backend, pc, query, seen, result, asOf, todo>>

\* A read fails, or the page is answered.
PageDone ==
  /\ step # "idle"
  /\ page' = NoPage /\ step' = "idle" /\ todo' = <<>> /\ heard' = {}
  /\ asOf' = 0 /\ upTo' = 0
  /\ UNCHANGED <<world, backend, pc, query, seen, result>>

PageReader ==
  \/ AskPage \/ ReadAccounts \/ LookAtClock
  \/ \E s \in {"current", "previous", "recent"} : ListNext(s)
  \/ Current \/ Previous \/ ChartAndRecent \/ PageDone

ReadingNext ==
  \/ PageReader
  \/ step = "idle" /\ StatementReader /\ UNCHANGED dash
  \/ JournalNext /\ UNCHANGED <<reader, dash>>

ReadingSpec == DashboardInit /\ [][ReadingNext]_dvars

-----------------------------------------------------------------------------
\* Properties.

DashboardTypeOK ==
  /\ StatementTypeOK
  /\ "kind" \in DOMAIN page /\ page.kind \in Pages \cup {Absent}
  /\ step \in {"idle", "accounts", "now", "current", "previous", "recent",
               "shown"}
  /\ \E i \in 0..Len(Owned) : todo = SubSeq(Owned, i + 1, Len(Owned))
  /\ heard \subseteq Books

Shown(kind) == step = "shown" /\ page.kind = kind

\* No list of a customer's account was cut short.
Fills(a, limit, n) == Cardinality({i \in 1..n : Names(rows[i], a)}) > limit
Whole(limit) == \A a \in Owns : ~Fills(a, limit, upTo)

Before(month, n) == {i \in 1..n : MonthOf(stamps[i].at) < month}
During(month, n) ==
  {i \in 1..n : MonthOf(stamps[i].at) = month
                /\ ~Lost(backend, stamps[i].at, TicksPerMonth)}

\* What the customer has after the movements I of the books.
WealthAfter(I) ==
  SumFunctionOnSet(Opening, Owns) + NetAmong(I, Owns)

\* The balance of today less the net flow of the month is the balance the
\* customer had on the first of the month, but for movements posted while the
\* page was put together, and of these each counts as a whole or not at all:
\* never one side of a transfer.  (The Rust dashboard takes what falls into the
\* last fractions of a month for a movement of an earlier one.)
StartExplained ==
  Shown(page.kind) /\ Whole(StatsLimit) =>
    LET month == MonthOf(page.now)
        start == page.total - NetFlow(page.current)
        late == (asOf + 1)..upTo
    IN IF page.kind = "dashboard"
       THEN \E I \in SUBSET late :
              start = WealthAfter((1..asOf) \ During(month, asOf))
                        - NetAmong(I, Owns)
       ELSE \E I \in SUBSET late,
               J \in IF backend = "Rust" THEN SUBSET late ELSE {{}} :
              start = WealthAfter(Before(month, asOf)) + NetAmong(I, Owns)
                        - NetAmong(J, Owns)

\* When nothing is posted meanwhile, and no list is longer than what is read
\* of it, the page agrees with the books and with itself: the chart, drawn from
\* other lists than the month's figures, ends at the spending these give, and
\* the spending of both months is what the rows of these months come to.
PageAgrees ==
  Shown("dashboard") /\ asOf = upTo /\ Whole(RecentLimit)
    /\ Whole(StatsLimit) =>
      LET month == MonthOf(page.now)
          Spent(m) ==
            SumFunction([i \in {j \in During(m, upTo) : Spends(Entered(j))} |->
                           rows[i].value])
          Spending(figures) == OfKinds(figures, {"Payment", "Withdrawal"})
      IN /\ page.chart[DayOf(page.now)] = Spending(page.current)
         /\ Spending(page.current) = Spent(month)
         /\ Spending(page.previous) = Spent(month - 1)

\* The recent activity is in order, shows nothing twice, and leaves out no
\* movement there was when the page was begun and that is of a later second
\* than one it shows, though every account's list is read at another moment.
RecentActivity ==
  Shown("dashboard") =>
    LET shown == page.recent
        last == Len(shown)
    IN /\ \A i, j \in 1..last : i < j => NewerThan(shown[i], shown[j])
       /\ \A i \in 1..asOf :
            (\E a \in Owns : Names(rows[i], a)) =>
              \/ \E k \in 1..last : shown[k].id = stamps[i].id
              \/ last = RecentShown /\ AsRead(stamps[i].at) <= shown[last].at

\* A page and a statement are not read at the same time.
OneReader == step = "idle" \/ pc = "idle"

\* A movement has been read, or as many that are not earlier as one list holds.
Accounted(i) ==
  \/ \E t \in heard : t.id = stamps[i].id /\ t.at = stamps[i].at
  \/ \E U \in SUBSET heard :
       Cardinality(U) >= RecentLimit /\ \A u \in U : u.at >= stamps[i].at

\* So it is with all movements there were when the page was begun, of the
\* accounts that have been listed for the recent activity.
RecentSound ==
  /\ asOf <= Len(rows)
  /\ step = "recent" =>
       \A a \in Owns \ ToSet(todo) :
         \A i \in 1..asOf : Names(rows[i], a) => Accounted(i)

\* Dates are taken from the clock.
ClockSound ==
  /\ \A i \in 1..Len(rows) : stamps[i].at <= clock
  /\ \A w \in Writers : dated[w] # Undated => dated[w] <= clock

\* The customer has what the books say.
WealthSound == SumFunctionOnSet(balance, Owns) = WealthAfter(1..Len(rows))

\* The rows a page may be made of.
Horizon == IF step = "shown" THEN upTo ELSE Len(rows)
Unfilled(limit) == \A a \in Owns : ~Fills(a, limit, Horizon)

\* Only the lists of the customer have been heard, and of those a list holds
\* all rows there were when the page was begun.
HeardSound ==
  /\ asOf <= Horizon /\ Horizon <= Len(rows)
  /\ \A t \in heard : \E a \in Owns : Names(t.row, a)
  /\ step \in {"current", "previous", "recent"} =>
       \A a \in Owns \ ToSet(todo) :
         ~Fills(a, LimitOf(step), Len(rows)) =>
           \A i \in 1..asOf : Names(rows[i], a) => Listing(i) \in heard

\* What has been read for a page when.
Has(part) == part \in DOMAIN page
PartsOK ==
  /\ page.kind \in {"dashboard", "summary"}
  /\ page.kind = "dashboard" =>
       /\ Has("total") <=> step # "accounts"
       /\ Has("now") <=> step \notin {"accounts", "now"}
       /\ Has("current") <=> step \in {"previous", "recent", "shown"}
       /\ Has("previous") <=> step \in {"recent", "shown"}
       /\ Has("chart") <=> step = "shown"
  /\ page.kind = "summary" =>
       /\ step \notin {"previous", "recent"}
       /\ Has("now") <=> step # "now"
       /\ Has("total") <=> step = "shown" \/ (step = "current" /\ backend = "Rust")
       /\ Has("current") <=> step = "shown" \/ (step = "accounts" /\ backend = "C")

\* All rows there were when the page was begun are of no later than now.
NowSound ==
  \E c \in 0..clock : page.now = AsRead(c) /\ \A i \in 1..asOf : stamps[i].at <= c

\* The balances were read after row m, and the figures of the month are those
\* of the rows there were when the page was begun, and some of those up to m.
TotalOf(m) == page.total = WealthAfter(1..m)

RangeEnd == IF page.kind = "summary" THEN page.now
            ELSE MonthEnd(MonthOf(page.now))
InCurrent(i) == /\ AsRead(stamps[i].at) >= MonthStart(MonthOf(page.now))
                /\ AsRead(stamps[i].at) <= RangeEnd

FlowOf(m) ==
  Unfilled(StatsLimit) =>
    \E L \in SUBSET ((asOf + 1)..m) :
      NetFlow(page.current) =
        NetAmong({i \in 1..asOf : InCurrent(i)} \cup L, Owns)

\* The C summary reads the balances last.
StartSound ==
  /\ Has("now") => NowSound
  /\ Has("total") =>
       \E m \in asOf..Horizon :
         /\ TotalOf(m) /\ (page.kind = "dashboard" => m = asOf)
         /\ page.kind = "summary" /\ backend = "C" => FlowOf(m)
  /\ Has("current") => FlowOf(Horizon)

\* The lists of the customer while nothing is posted.
Settled ==
  {Listing(i) : i \in {j \in 1..asOf : \E a \in Owns : Names(rows[j], a)}}

AgreeSound ==
  page.kind = "dashboard" /\ asOf = Horizon =>
    LET month == MonthOf(page.now)
        today == DayOf(page.now)
    IN /\ Has("current") /\ Unfilled(StatsLimit) =>
            page.current = OfMonth(Settled, month)
       /\ Has("previous") /\ Unfilled(StatsLimit) =>
            page.previous = OfMonth(Settled, month - 1)
       /\ Has("chart") /\ Unfilled(RecentLimit) =>
            page.chart[today] = SpentUntil(Settled, month, today)

PageSound == step # "idle" => PartsOK /\ StartSound /\ AgreeSound

Inductive ==
  /\ StatementInductive /\ DashboardTypeOK /\ OneReader
  /\ RecentSound /\ RecentActivity
  /\ ClockSound /\ WealthSound /\ HeardSound /\ PageSound
=============================================================================
