# GTLX Vault: TLA+ models, model checking and proofs

GTLX Vault is a small bank: a React client, two interchangeable backends (C over
libmicrohttpd and libpq, Rust over axum and sqlx) and one PostgreSQL database. This
directory holds TLA+ models of the two backends as they use the database, the TLC
configurations that check them on small instances, and TLAPS proofs, for every value of the
constants, of nearly all safety properties those runs check.

Everything is run inside this directory: `tlc -workers 2 -config X.cfg M` for a run of the
table in section 3, `tlapm M.tla` for each `*Proof` module of section 5. `PROJECT.json` is the index: which definition models which lines, which run checks which property, and for every property a
mutated definition with which TLC must find it violated.

## 1. The system

### Parts, state, operations

| Part | State | Operations that change it |
|---|---|---|
| Transaction service (`service/transaction_service.c`, `service/transaction.rs`) | none of its own; reads `accounts`, writes `accounts.balance_cents` and `transactions` | deposit, withdrawal, send, transfer, payment |
| Account service (`account_service.c`, `account.rs`) | `accounts` rows | open account |
| User service (`user_service.c`, `user.rs`) | `users` rows and the default account | register; (delete is compiled but not routed) |
| Affiliate service | `affiliates` rows | save, rename, delete; `validate_send_target` for sends |
| Statements, recent lists | none | read only |
| Statistics | per-request totals shared by worker threads (C) | read only |
| Dashboard | none | read only, many SELECTs per response |
| C db layer (`db/db.c`, `db/*_repo.c`) | one `PGconn` per process, its transaction | begin, commit, rollback, one statement per call |
| Rust db layer (`db/mod.rs`, `db/*_repo.rs`) | a pool of five connections | `record_atomic`, `insert_with_default_account`, single statements |
| PostgreSQL (external) | committed rows, one transaction per session, row locks, unique indexes | as above; READ COMMITTED; deadlock detection |
| C HTTP server (`server/http_*.c`) | a body buffer per request | accept, buffer the body, dispatch |
| Rust HTTP server (axum, tokio) | a task per request | accept, dispatch, drop a handler whose client is gone |
| Authentication | none (JWT) | verify |
| React client | token in local storage, account list with a sequence number, transactions page, recent list | sign in, sign out, load, reload, submit, scroll |

### How the parts interact

A request reaches a handler, which calls a service; the service calls repositories; each
repository call is one SQL statement. The two backends differ where it matters:

* **C**: `http_server_start` uses `MHD_USE_SELECT_INTERNALLY`: one thread, and `main` opens one
  connection. So a process serves one request after another, everything between two SQL
  statements is private to it, and the only concurrency is that of *several processes* on one
  database. `record_transaction` runs reads, updates, insert and commit in one transaction.
* **Rust**: every request is a tokio task and every statement an `await`. `record_transaction`
  reads the accounts and computes their new balances *before* `record_atomic` begins its
  transaction, on other connections of the pool. A handler whose client goes away is dropped at
  an `await`; the `Transaction` guard then queues a ROLLBACK that runs when the pool takes the
  connection back.
* The readmes describe both backends as sharing one database behind a load balancer; the compose
  file runs one at a time. The models cover both: `Servers` and `Slots` may be any set.

### What is hard here

Lost updates: balances are written as absolute values computed from an earlier SELECT. Error paths
of a long handler over a single connection that must never stay inside a transaction. COMMIT
whose result is lost. Deadlocks of opposite transfers. Cancellation in the middle of a
transaction. A pool that must get every connection back. Check-then-insert against unique
indexes. Statements put together from two snapshots and dashboards from a dozen, with rows dated
before they commit. Worker threads over slices of a list, with a thread that cannot be started.
Request bodies that arrive in pieces. A client whose loads and POSTs are answered in any order,
also after a sign-out. The full list, with the line where each hazard bites and the properties that
watch it, is `hazards` in `PROJECT.json`; three have a note instead, since the code does nothing a
property could hold of.

## 2. Modules

| Module | What it is |
|---|---|
| `Posting` | shared vocabulary: rows of `transactions`, which accounts a row is posted to, the deltas of a statement |
| `Ledger` | **abstract specification** of "record a transaction": one movement at a time, posted and entered at once, only if the money is there. `Reconciled`: opening balance plus deltas is the balance |
| `Postgres` | sessions, transactions, row locks, READ COMMITTED reads, failed transactions, as operators that client modules conjoin to their own steps |
| `Requests` | what clients send to `POST /transactions/*`, and the columns the checks look at |
| `CTransactions` | the five posting routes of the C backend, one action per SQL statement, composed with `Postgres`; implements `Ledger` for one process |
| `RustTransactions` | the same routes of the Rust backend, one action per await, with the pool and dropped handlers, composed with `Postgres` |
| `Directory` | `users` and `accounts` with their unique indexes: an INSERT is refused by a committed duplicate and waits for an uncommitted one |
| `Onboarding` | registration and opening an account in both backends, composed with `Directory` |
| `Journal` | `Ledger` as its readers meet it: other requests date, post and give up movements meanwhile |
| `Figures` | the statistics of a set of transactions, as pure operators in 64 bits, the right figures of a call (`Right`) and what may be told for want of room (`FallsShort`) |
| `Sorting` | what `qsort`, `sort_by` and ORDER BY make of a set of rows |
| `Statements` | `GET /transactions/statement` of both backends, two SELECTs over the `Journal` |
| `Dashboard` | `GET /dashboard` and `GET /transactions/summary` of both backends, composed with `Statements`: many SELECTs over the same `Journal`, figures of `Figures` |
| `Summary` | **abstract specification** of `compute_user_statistics`: asked, then answered with the right figures, an error, or figures whose days and categories are those of some of the transactions (`short`) |
| `Statistics` | `compute_user_statistics(_extended)` of both backends thread by thread; implements `Summary` |
| `Affiliates` | `/affiliates` of both backends and the check of a send, statement by statement over one table of links |
| `Uploads` | the life of a request body across the calls of the C access handler |
| `WebClient` | the React client: session, token, account context, transactions page, recent list, composed with `Uploads`, through which its POSTs reach the C server |
| `MC*` | instances for TLC |
| `PostingProof` | what the sums of `Posting` come to, for any sequence of rows |
| `CTransactionsProof`, `RustTransactionsProof`, `OnboardingProof`, `AffiliatesProof`, `StatementsProof`, `StatisticsProof`, `WebClientProof` | theorems about the module each is named after; `StatementsProof` covers `Dashboard` and `WebClientProof` covers `Uploads` too |

### State and actions against the code

*`CTransactions`.* `pc[s]` is the statement process `s` is about to send. `Accept` is a request that
has been read completely; `Check` is everything `handle_*`, `record_<kind>_for_user` and
`record_<kind>` do before BEGIN (ownership, send target, currency, amount, overflow). It is one step
because nothing it reads can change: owner, type and currency of an account have no update route,
and affiliates are not changed here. `Begin`, `ReadFrom`, `ReadTo`, `UpdateFrom`, `UpdateTo`, `Insert`,
`Commit`, `Rollback` are the statements of `record_transaction`, in the order of
`record_transaction_apply_balances`; `img` holds the two `Account` objects on its stack; the checks of
`account_debit` and `account_credit` are made on those, at the step that reads. The faults are
`StatementFails` (the server refuses a statement: the transaction is failed and only ROLLBACK ends
it), `CheckFails`, `DeadlockAbort`, `LinkLost` (nothing re-opens the connection, so `Unreachable` answers
every later request with an error until `Restart`), `CommitUnseen` and `Restart`.

*`RustTransactions`.* The same, await by await. A *slot* is a task and then the connection it leaves
behind: after an error or a drop inside `record_atomic` it is in `recycle` (ROLLBACK queued, locks still
held) or `landing` (COMMIT sent, nobody waiting) and only then free. `ConnectionFree` is the pool.
`current` and `raced` are history: what a task has read that is still true, and the accounts somebody
has overwritten from a balance that was not.

*`Directory` and `Onboarding`.* A server of backend "C" is a process, of backend "Rust" a task. A
registration is `CheckEmail`, `CheckTag`, the unbounded `ReserveIban` loop, then `InsertUser` (with BEGIN),
`InsertAccount`, `Commit` or `Rollback`. `padded` says which fields were sent with white space around them:
both backends store what they trim, the C service looks up what was sent. Opening an account is
`CheckPair` and a loop of at most `MaxRetries` inserts; C also asks for the IBAN first (`CheckIban`)
and retries any refusal (`OpenC`), Rust retries only what it recognises as an IBAN collision
(`OpenRust`). `flaw` stands for every validation error, by whether it is found before or after the first
lookups.

*`Journal` and `Statements`.* Movements are those of `Ledger`; `Date` is `Transaction::create`, which stamps a
movement before its transaction begins, so movements can commit in another order than that of
their dates. Ids follow commits: two movements of one account both UPDATE its row before they
INSERT, so the second one's INSERT comes after the first one's COMMIT. `ReadBalance` and `ReadRows` are the two
SELECTs of `compute_account_statement`; what it does in memory after them (sorting, going back to the
opening balance and forth to every running balance, filters, bounds, page) is the operators `Entries`, `Kept` and `Statement`.
The books are a sequence (`Book`), and a list of transactions is a list of places in it: `ByDate` is what sorting makes of a set of them.

*`Dashboard`.* `step` is what a page reads next, `todo` the accounts whose lists it has not read yet. The dashboard
reads the accounts (`ReadAccounts`), the clock, then the lists of all accounts for this month's figures, again for
the last month's, and again, shorter, for chart and recent activity. The customer's accounts are constant: none is opened
meanwhile. The
summary reads the lists once; the C handler reads the accounts after them, the Rust handler before. A list is
`Newest`, the newest rows up to the limit. `AsRead` is the `time_t` the C repository keeps of a microsecond stamp.

*`Statistics`.* `main` is where the caller is: `gather` (lists, removal of duplicates), `spawn` (a worker per slice),
`join`, `categorise` (the second pass of the extended C variant), or `abandon` after a `pthread_create` that fails. A C worker
adds to the atomic sums as it goes, collects its maps and merges them at the end, each map under its mutex:
`Acquire` reads the map, `Merge` writes it back and releases it. A Rust worker does this for every transaction,
with the map of the categories too. The C code keeps days and categories in arrays that double when they are full, and goes on
where `realloc` fails: `lost` is history, the transactions that have no entry in a map for that reason. `Take` may lose one where the
worker's own array of days must grow (`MayLose`), `Merge` where the shared one must (`MayDrop`), and `Categorise` stops where that of the categories
must, as the loop of the second pass does. A failed allocation anywhere else is an error (`GatherFails`). `Spawn` computes a slice as the code does, `all_count - offset` in `size_t`. The
Rust service leaves joining to `thread::scope`; its `SpawnFails` is the panic of a spawn inside the scope, which still joins.

*`Affiliates`.* `pc[s]` is the statement a server is about to send. `FindAccount`, `LookForLink`, `Insert` are `create_affiliate`;
`Rename` and `Delete` look at the number of rows changed; `ListLinks`, `PickRow`, `Page` are `list_affiliates_view`, one SELECT per
link in the send-picker mode; `Target`, `Recipients` are `validate_send_target` and `Record` the movement that follows;
`FindTag`, `OwnAccounts`, `TheirAccounts` are `resolve_target_by_tag`. A blank
nickname in a rename, and a missing account in the check of a send, come out of the Rust repository as errors and so as 500 (`failed`). `during` is history: the versions of the tables a request under way
has seen. Nicknames are told apart and folded by `Key`; `U32` is the width in which the Rust service finds the first row
of a page.

*`Uploads` and `WebClient`.* `conn[k].cls` is `*con_cls`; `Headers` is the handler's first call, `Piece` a call with data, `Dispatch` the
call at the end, `Refuse` a body over 1 MiB or a failed `realloc`, `Break` a connection that goes away (no completion
callback is registered, so its buffer stays allocated). The client's `load` are the GET requests under way with the
closure that waits for each, `post` the `submit()` that waits for its POST: `PostReturns` goes on with the `reload()` of the
render it was started in. `ctx.latest` is `loadSeq`. `panel` is `RecentTransactionsPanel` with `inFlightRef`, `offsetRef` and the
pages so far. `Orphan` is a load whose component is gone. `Expel` is the 401 handler, which loads another document.

### Abstractions

Strings, names, descriptions, IBAN digits, hashes and tokens are members of small sets or flags. JSON
and HTTP are left out except for which class of answer is given: `ok` 2xx, `rejected`, `invalid` and
`conflict` 4xx, `failed` 5xx. A user is named by its tag, which is unique and never changes. A request for
an account that does not exist is rejected by the same check as one for another's account and is
not enumerated. `INT64_MAX` is `MaxCents`, and the arithmetic keeps it as a bound: `MaxCents \div CentsPerUnit`
is the code's `INT64_MAX / 100`. PostgreSQL is assumed to abort the session of a lost connection before
another session's statement is refused for its sake, and to look at the unique index on `iban` (the
older one) before that on `(user_id, account_type, currency)`. Months have equal lengths and days are days of
ticks. `qsort` is taken as stable, as in glibc. The dashboard uses the right figures
`Summary` promises, which `Statistics` is shown to keep; that its C arrays do not grow is left to `Statistics`. The categories of the two backends are named alike here, though an empty category is
`""` in one and `Other` in the other. A movement in the client is its number among those of its account, and a balance
how many movements it shows. A second session is one of the same customer.

*Width.* In `Figures` and `Statistics` every sum, total and count is kept in two's complement (`Wrap`), with `MaxCents` in the place of
`INT64_MAX`: the `atomic_fetch_add`s of C and Rust wrap around by definition, the plain `+=` of Rust wraps in the release build the
Dockerfile makes, and that of C, undefined beyond `INT64_MAX`, is taken as the wrapping addition compilers make of it. The
statements and the dashboard add up without wrapping: their sums are assumed to fit, as all balances do.

*Memory.* `DayRoom` and `CategoryRoom` stand for the first capacities of the C arrays, 16 and 8.

## 3. Runs

| Run | Instance | What it shows |
|---|---|---|
| `c_one` | one C process, every request of a customer over four accounts, `MaxCents` 3, `CentsPerUnit` 2, up to 3 rows | the deployment the C code is safe in: it implements `Ledger` (`LedgerSpec`), its books explain its balances (`Reconciled`), no path leaves a transaction open (`SessionClean`), answers are honest (`AnswerHonest`) |
| `c_two` | two C processes, six requests that can meet, deadlock and be refused, 2 rows | even racing: no balance out of range (`NoOverdraft`), balances and row commit together (`CommitsTogether`), the proofs' invariant (`Inductive`), every request answered (`Answered`) |
| `rust` | two tasks and a reading route, pool of two, eight requests, 2 rows | `NoOverdraft`, `CommitsTogether`, `AnswerHonest`; `PoolSound` and `Served`: a dropped transaction is rolled back before its connection is used again, and every connection comes back; `UnracedReconciled`: only an overwrite from a stale read loses money |
| `rust_books` | as `rust` | **violation** of `Reconciled`: two requests of one process are enough |
| `onboard` | a C process and a Rust task, five requests, four IBANs, two retries, fair | `Provisioned`, `OneOfEach`, `AnswerHonest` under races, failures, lost results and crashes; `Served`: whoever waits behind another's uncommitted row gets its turn; `Inductive`, the invariant of the proofs |
| `statements` | both backends; two writers, two accounts of a customer, three rows, a day and a month boundary | `Explained`, `Paged`, `WholeDaysInC` of statements; `StartExplained`, `PageAgrees`, `RecentActivity` of dashboards and summaries |
| `statements_days` | as `statements`, Rust only | **violation** of `WholeDays`: the last day of a Rust statement ends before its last second does |
| `statistics` | both backends; four transactions whose sums do not fit `MaxCents`, one to three threads, four filters, lists that are cut short; fair | it implements `Summary` (`SummarySpec`), wherever sums wrap and arrays cannot grow; `NoUseAfterFree` when a thread cannot be started; `CategoriesAddUp`; `Returns` |
| `statistics_empty` | C, no transactions, two processors | **violation** of `NeverCrashes` |
| `affiliates` | a C process and a Rust task, two dozen requests, six accounts, nicknames that differ in case | `TypeOK` with the primary key, `AnswersTrue`, `PickerAllows` |
| `client` | one session, two accounts, two connections, two loads under way, bodies of one and two pieces | `AccountsFresh`, `RecentUnbroken`, `BodySound` |
| `client_token` | two sessions | **violation** of `TokenInSync` |

### Bounds, and why they are enough

*Processes and tasks.* Every race in this code is between one reader-writer and one other; a lost update,
a deadlock and a refused duplicate need two, and two tasks and a reader share a pool of two, so that
one has to wait. *Accounts.* The bank, two of one
customer and one of another give every relation a request can have to its accounts (own, other's,
same, Regular or not). *Money.* `MaxCents` 3 puts both ends of the range within two movements; with
`CentsPerUnit` 2 an amount of 2 overflows while 1 does not. *Rows.* `MaxRows` stops requests from
being accepted once that many rows exist; two rows are enough for an overwritten one, three for a
third movement on top of them. *IBANs.* One more than accounts, so that a free one exists: with none
left the code loops for ever, which in the real space of identifiers does not happen.
*Statements and dashboards.* Seconds of two ticks, days of two seconds, months of two days, and a clock that runs from the
last second of one month to the first instant of the next: every comparison with a bound has both outcomes at
it. Three rows and limits of 1 and 2 give pages inside, across and past the end; the dashboard's short list
(`RecentLimit` 2) is cut and its long one (`StatsLimit` 3) is not. `Writers` are interchangeable, so this run uses their
symmetry (no liveness is checked there). A page and a statement are not read at the same time: neither changes
anything. *Statistics.* One to three workers with slices of one and two and a remainder; a transfer between own
accounts, which is in two lists; `SizeT` 16 stands for 2^64. `MaxCents` 5 makes the sum of the amounts wrap; `DayRoom` 2 and
`CategoryRoom` 1 are both passed by the three days and two categories, and every array also starts out full, being empty. *Affiliates.* Two servers are enough for every check
and every write to come apart; `MaxVersions` bounds the versions of the tables one request can see to three, that is
two writes of others (or of others and itself). *Client.* Two loads and two connections, so that two answers can come in either order and a
stranger's body can lie between the pieces of the customer's; four movements; pages of one row. Three state
constraints keep it small: `Narrow` (strangers' bodies and broken connections only while the customer is at the form with
nothing else under way), `Single` (the recent list is on the screen only while at most one POST is), `Last` (nothing
after the last session). The two configurations that look for a violation here need none of them.

### Fairness

`Answered` (C) and `Served` (Rust, onboarding) assume strong fairness of a server's own next step, and weak
fairness of the deadlock detector. A server's thread or task runs on as long as it has something to
do; the step can only be disabled in between because a row is locked or the pool is empty, and
PostgreSQL queues waiters for a row as sqlx's semaphore queues waiters for a connection, so nobody is
overtaken for ever; this is what strong fairness says. `deadlock_timeout` makes the detector run. For
`ReserveIban` it is assumed that a random generator does not yield only used IBANs for ever. Faults,
client disconnects and restarts are never assumed to happen, nor to stop. Requests need not
arrive: no fairness of `Accept`. `Returns` (statistics) assumes weak fairness of the caller's thread and of each
worker: the operating system runs every thread, and `pthread_create` does succeed or fail. A mutex is held for one step
only and no worker needs it twice, so weak fairness is enough there.

## 4. Where code and documentation disagree

Four are runs that find them (`findings` in `PROJECT.json`).

1. *Two requests of one Rust process lose a movement* (`rust_books`), because the accounts are read before the
   transaction begins. The statement's "current − Σ(all deltas)" is then not the opening balance.
2. *The C statistics of a customer without transactions read outside a list* (`statistics_empty`): as many workers as
   processors are started over an empty list, each with a slice of one, the last with a slice that wraps.
3. *A Rust statement ends before its last day does* (`statements_days`): `to` is documented as inclusive, and a movement recorded after
   the first instant of 23:59:59 is left out. The C service, which keeps whole seconds, counts it.
4. *The client takes an old token back* (`client_token`): a POST answered after the sign-out goes on with the old
   `reload()`, which sets the token of the session that is over.

Three more are stated as invariants that the code violates, with a configuration each for trying them that `PROJECT.json` does not list:

5. *The recent list shows another account* (`RecentOfAccount`, `MCWebClient_recent.cfg`): `RecentTransactionsPanel.tsx:60` says "Reset and load
   first page when account or refresh token changes", and the reset is skipped while a page is under way.
6. *C statistics that succeed may be incomplete* (`SuccessIsWhole`, `MCStatistics_short.cfg`): `day_total_map_add` returns false when
   `realloc` fails, and neither `stats_worker` (`transaction_service.c:345`) nor its merge (360) looks; the pass over the categories just
   stops (1236). Every other failed allocation is an error.
7. *The send picker does not filter* (`PickerKeepsMatching`, `MCAffiliates_picker.cfg`): both server readmes (C line 544, Rust line 547) say that
   `for_send_currency` keeps "only affiliates whose recipient account currency matches". The code keeps every nickname whose user has a
   Regular account of that currency, whatever account the link is saved with, and shows that one. `PickerAllows` says what holds: only
   what a send accepts is offered, and of the links saved in that currency none is left out.

Two follow from the modules as they are:

* Two C *processes* on one database lose movements as in 1 (a plain SELECT, an addition in memory, an absolute
  UPDATE, under READ COMMITTED), although the readmes offer this deployment. `Reconciled` is checked for one process and
  proved of `Ledger` through `OneProcessImplementsLedger`, not claimed for two.
* A duplicate that only the unique index finds is answered 500 by both registrations, where the readmes say
  conflict: after a race, and in C also for an e-mail or tag sent with white space, which is looked up untrimmed
  and stored trimmed. `AnswerHonest` therefore says of a conflict that it is one, not of a duplicate that it is answered so.
  The same holds of two creates of one affiliate (`Affiliates.Insert`).

What holds of the lost movements is worth as much: balances never leave their range, balances and
row are never seen apart, answers are honest, and (`UnracedReconciled`) money goes missing in no
other way than an overlap of two requests on one account.

## 5. Proofs

Each proof module extends the module it is about and leaves all its constants open: any set of processes,
tasks, accounts, requests, links, threads, connections and movements, and any value of the bounds. The
assumptions are the named ASSUMEs of the models (typing of the constants; opening balances in
range; a database that starts out obeying its own constraints), which TLC evaluates in every run, and,
where a table below says so, a hypothesis of the theorem. Every invariant was given to TLC before it was proved.

### The two posting backends

| Module, theorem | Says |
|---|---|
| `CTransactionsProof`: `InductiveHolds` | `Spec => []Inductive` |
| `TypeCorrect` | every variable keeps its type; every row is a positive, representable movement |
| `NoOverdraftHolds` | no balance stored or about to be stored is out of range |
| `SessionCleanHolds` | every path out of `record_transaction` ends its database transaction |
| `AnswerHonestHolds` | 2xx only for a row in the books, 4xx only for none |
| `CommitsTogetherHolds` | balances and row become visible in one step, which writes no other account |
| `OneProcessImplementsLedger` | *with one process*, `Spec => LedgerSpec` |
| `LedgerReconciles`, `OneProcessReconciled` | `LedgerSpec => []Reconciled`, and so `Spec => []Reconciled` *with one process* |
| `RustTransactionsProof`: `InductiveHolds`, `TypeCorrect`, `NoOverdraftHolds`, `AnswerHonestHolds`, `CommitsTogetherHolds` | the same, of any number of tasks over a pool of any size |
| `PoolSoundHolds` | the pool is never overdrawn; a connection has a transaction exactly while a task, its ROLLBACK or its COMMIT is under way |
| `UnracedReconciledHolds` | the books explain every balance no request has written from a stale read |
| `OneSlotImplementsLedger`, `OneSlotReconciled` | *with one request in flight at a time*, `Ledger` and `Reconciled`, drops, failures and restarts included |
| `PostingProof`: `NetOfAppend`, `PostingKeepsExplained` | one more row adds its delta to the net of an account, and posting it keeps an explained balance explained |

*The argument.* None of these is inductive alone: that a COMMIT writes balances in range and one row needs what
the transaction has written, which needs what the process had in memory when it wrote, which needs
what was checked at the reads. `Inductive` therefore says, of each process: its request passed the checks
and it is at a statement of that kind (`RequestSound`); the balances in its memory are in range
(`ImageSound`); its transaction has written exactly what its statements so far wrote, and there is none
where there should be none (`TxnSound`); its answer so far is honest (`ReplySound`). Each action has a
lemma that it preserves this; `Untouched` covers the processes that do not move; `DivisionGuard` is the arithmetic
of `amount <= INT64_MAX / 100`. The refinement adds `Fresh`: a lone process inside a transaction has
computed its images from the committed balances, since nobody else can commit.

The Rust backend reads before its transaction begins, so its `Inductive` has `Fresh` of every task: of an account that is still
`current`, which nobody has written since the task read it, the task holds and writes the balance as it is with the movement
posted. An account written from anything else is in `raced` from then on, so for all others a COMMIT posts to the balance
as it is, which `PostingKeepsExplained` covers. For `PoolSound` the connections of the pool are counted: `PoolKept` and `PoolTakes` compare the finite set of
sessions with a transaction before and after a step.

*Induction over rows.* `NetOf` is a recursive function over a sequence, and no prover here can instantiate an induction
theorem that takes a predicate. `PostingProof` goes round that: `AllNumbers` is about the *set* of numbers a claim holds
of, and follows from the well-foundedness of `<`, which the library states for a set too.

### Registration and opening accounts

`OnboardingProof`, about any set of servers of either backend, any users, requests, IBANs and `MaxRetries`.

| Theorem | Says |
|---|---|
| `InductiveHolds` | `Spec => []Inductive` |
| `TypeCorrect` | every variable keeps its type; no loop exceeds `MaxRetries` |
| `ProvisionedHolds` | nobody is registered without the default account |
| `OneOfEachHolds` | nothing unique is given out twice, uncommitted rows included |
| `AnswerHonestHolds` | success for what is there, a refusal for what is not |

*The argument.* `OneOfEach` is kept because an INSERT that fits is like no row anybody has committed or holds
uncommitted (`FitsIsNew`, `FittingRow`), and a COMMIT only moves rows between the two (`RowsCommitted`). `Provisioned`
needs to know what a COMMIT moves: a user *and* its account, which is what `PendingSound` says of a server
at `commit`. That in turn needs the request and the IBAN behind the two INSERTs to be the same
(`RequestSound`), and `AnswerSound` ties the answer to whether the rows have been entered. A server that moves
leaves the others as they are (`StepInductive` and the lemmas after it), and what they have answered stays true
because nothing is deleted: a duplicate stays one.

### Affiliates

`AffiliatesProof`, about any number of servers of either backend, users, accounts, nicknames and versions of the tables.

| Theorem | Says |
|---|---|
| `InductiveHolds` | `Spec => []Inductive` |
| `TypeCorrect` | the primary key: an owner has at most one link to an account, and only to opened ones |
| `PickerAllowsHolds` | the send picker lists only accounts the check of a send accepts, one for each nickname, and of the links saved in the currency asked for leaves none out whose user had such an account all the time |
| `AnswersFitHolds` | every answer is true of one version of the tables the request has seen, if its page begins within a `u32` |
| `AnswersTrueHolds` | so is every answer, *if no Rust server is asked for a page that begins beyond its `u32`* |

The hypothesis is one about requests: the Rust service multiplies page and size in a `u32`. Beyond 2^32 rows the first row wraps, and
the page is not the one asked for; a customer would need as many affiliates to notice, and a C server, with `size_t`, never does.

*The argument.* `during` is the set of versions a request has seen; what a server has read so far is true of one of them
(`ServingOK`), and a write of another server only adds a version (`HereGrows`). In the send-picker mode, one SELECT per link, the
rows read are true each of its own version: `PickerAllows` needs that an account's owner and currency never change, and
for what must not be left out that a link present in all versions was among those read. That the page has the
right rows is a fact about sorted lists: `Placed` says that an entry of an ordered list of distinct rows stands at the
number of those before it plus one, by counting, and `PageLists` that `Page` cuts those of the right ranks.

### Statements

`StatementsProof`, about any number of accounts, movements and writers, books of any length, every query, and days of any
whole number of seconds, in both backends. It is about `ReadingSpec`, so pages of the dashboard are read in between.

| Theorem | Says |
|---|---|
| `InductiveHolds` | `ReadingSpec => []Inductive` |
| `TypeCorrect` | no page is longer than its total; no list read for a page has a row that is not in the books |
| `ExplainedHolds` | every balance, and both bounds, are those the account had in the order of dates, less what was posted between the two SELECTs |
| `PagedHolds` | a page has the rows of the ranks asked for, each once, in the order asked for |
| `WholeDaysHolds` | in C, the rows counted are those of the days asked for, up to the last instant of the last one |
| `DaysCountedHolds` | in both, they are those but for what Rust leaves out of the last second (`Cut`) |
| `RecentActivityHolds` | the dashboard's recent activity is in order, and leaves out no movement there was when the page was begun for one of an earlier second |
| `StartExplainedHolds` | the balance of today less the net flow of the month is what the customer had on the first of the month, but for movements posted while the page was put together, each a whole one |
| `PageAgreesHolds` | when nothing is posted meanwhile and no list is cut short, the chart ends at the spending of the month, and the spending of both months is what their rows come to |

*The argument.* The code adds up in the order of dates what the writers added in the order of commits. `SumOf` is the sum over a
set of places of the books, and sums of disjoint sets add up (`SumOfParts`); so a walk along any list of places has, after
k of them, the sum over the first k (`PrefixSums`), and the whole list comes to what `Reconciled` says of the balance (`BalanceIs`).
What was missed between the SELECTs is the sum over the places in between, and it enters every balance
alike (`EntriesExplained`). Ids follow commits, which makes the order of dates total; in a list in that order a row has as
many before it as its place says (`Ranks`), by counting, and filtering keeps the order (`KeptSorted`), so that `Page` cuts
out the ranks asked for (`ReadingPaged`). `DaysAre` is the arithmetic of days: whole seconds never cross midnight.
Once answered, a statement stays true of books that grow (`GrownExplained`, `GrownPaged`), and nothing else happens to them
(`JournalKeeps`).

The recent activity is made of one list per account, each cut off and each read at another moment. `RecentSound` says what is true of a
movement once its account is listed: it was read, or as many were that are not earlier as a list holds (`NewestFills`). That
survives later lists and later movements. When the lists are put in order, a movement that was read is shown or stands behind what
is shown (`ReadIsShown`), and one that was not has a full list before it (`FullIsShown`); this needs that no more
is shown than a list holds (`RecentShown \in 1..RecentLimit`: 5 of 100 in C, 5 of 100 in Rust). The C service
orders by whole seconds, so times may tie that did not: `AsReadKeeps`.

The figures of a page come from SELECTs at different moments, and `PageSound` says what each is worth until the page is shown. `PartsOK`:
which parts have been read at which step, in the order of either backend. `StartSound`: the balances were those after some row, and
the figures of the month are those of the rows there were when the page was begun and of some since (`FlowOf`). `AgreeSound`:
if nothing was posted since, every part was computed from one set of rows (`Settled`). This takes that the lists of the customer that are not cut short hold all
rows there were when the page was begun, each once however many of the customer's accounts it names (`HeardSound`), that dates are
not after the clock (`ClockSound`), and that the balances add up to the openings and the rows (`WealthSound`). A step
of the page keeps it (`PageKeepsPage`), and so does a movement posted in between, which either adds a later row or, being
the first, leaves nothing to agree (`LaterStart`, `LaterAgree`). TLC checked all of `Inductive` on the instance of the run `statements` before it was proved.

The theorems then follow. `MonthsAre` and `RangeIs` turn the seconds the filters compare into months; `FlowOfRange` and
`SpendingOfRange` turn sums over the lists into sums over rows (`SumRenamed`), and a transfer between two of the customer's accounts cancels out;
`SpentRowsAre` says that the spending counted is that of payments and withdrawals, which name one account of the customer, since their other
side is the bank. `WealthBefore` takes the month off the balance. Besides what the other theorems assume, the mark of an absent
value is not a number (`DashboardAssumption`).

### Statistics

`StatisticsProof`, about any number of worker threads, transactions and processors, in both backends.

| Theorem | Says |
|---|---|
| `InductiveHolds` | `Spec => []Inductive` |
| `TypeCorrect` | what the threads share keeps its type; a thread holds a mutex exactly while it merges into that map |
| `NoUseAfterFreeHolds` | no worker is at work when its caller frees the list, the arguments and the shared figures |
| `CrashesOnlyEmpty` | the slices of a list with an entry lie within it: the workers of an empty list are the only ones that read outside |
| `AccountingHolds` | `Spec => []Accounting`: at every moment the shared sums and maps are those of what has been taken, short of what is not merged yet and of what found no room, and so is what is returned |
| `Summarised` | `Spec => SummarySpec`: every call is answered once, with an error or the right figures in 64 bits; only in C, and only for want of room, with days and categories of some of the transactions |
| `CategoriesAgree` | the map of categories, and the payments the second pass stopped short of, add up to the payments of the map of types |

*The argument.* `Inductive` ties every thread to where its caller is (only threads spawned and not yet joined run), every
mutex to the one thread that merges, the list to the request, and every slice to the list. The slices are arithmetic (`SlicesFit`):
of a list that has an entry all slices but the last end within it, and so `all_count - offset` does not wrap.

`Accounting` is what the refinement needs besides. While threads run, the shared sums are those of the transactions taken so far
(`Taken`: what each thread has passed in its slice), and each map is the totals of what is taken except for what a C worker
has in private and not merged into that map (`Unmerged`), and what found no room (`lost`). A thread inside a mutex holds a copy of the map it read; that the map
has not changed since is why the merge loses nothing, and holds because `Inductive` gives the mutex to one thread. The slices
lie side by side (`SlicesApart`, `SlicesCover`), so nothing is taken twice and at the join everything is; the list has each row
gathered once (`IsListing`), so its places are its transactions. What is left is about the sums: over one transaction more
(`SumGrows`), over two sets apart (`SumUnites`, from the one before by induction on the cardinality, with `AllNumbers`), over the entries of a map (`EntriesAddUp`), and that `day_total_map_add` of the totals of two batches is
the totals of both (`TotalOfBoth`). All of these are about exact sums; that wrapping at every addition gives what wrapping once at the end does is
arithmetic of remainders (`RemainderAdds`, `WrapAdds`, `SumWrapped`). The second pass of the C caller goes over the list with the filters written out again, and
`PassesCounted` says that it lets through what the workers do. `CategoriesAgree` then follows from what is returned (`ShortAddsUp`).

What is lost is one transaction, where a worker cannot add a day to its own array, or all a worker has of a day, where the shared array cannot
take it; a later transaction or another worker may find room for the same day again. Either way every map stays the totals of some transactions (`FiguresOK`), and the answer is
`Reported` short of them: `SameReported` says that this is `Right` if nothing was lost, and `LostFallsShort` that it is otherwise one of those
`Summary` allows, by `LostOK` of the days and categories of the C service only.

The assumptions on the constants are `StatisticsAssumption` and `AnswerAssumption`: a list shorter than `2^64`, filters of the
types the handlers parse, as many members of `Threads` as a call starts at most (`MostStarted`: the Rust service rounds its slices
down, and so may start nearly twice as many as there are processors), and that no figures, right or short, are the mark for no answer yet,
which is not that for an error.

### The web client and its uploads

`WebClientProof`, about any number of connections, loads under way, accounts, movements and sessions.

| Theorem | Says |
|---|---|
| `InductiveHolds` | `Spec => []Inductive` |
| `BodySoundHolds` | a body under way has a buffer of its own that holds what has come of it; only buffers of broken connections are left over |
| `AccountsFreshHolds` | the accounts shown, once no load counts any more, contain every movement the page was told is recorded |
| `RecentUnbrokenHolds` | for pages of any size, no movement is missing between two neighbours of the recent list |

*The argument.* `UploadsInductive` adds to `BodySound` that no two connections share a buffer, which is why freeing one leaves the others
theirs. `Fresh` follows the sequence number: the load that counts is either not served yet, or has been served with every
movement the page was told of (`ContextSound`), because being told starts a load anew. `Unbroken` says of the pages under
way what `RecentUnbroken` says of those that have come: the page asked for begins at the offset where the list ends, and since
movements are only added at its head, an older page can overlap the list but not leave a gap (`PageComesUnbroken`).

### Only model-checked

* *Liveness* (`Answered`, `Served`, `Returns`): fairness and ENABLED are out of the prover's reach. 

## 6. Not modelled

* Reads that change nothing and are one SELECT: login, account lookup, availability.
* `useAsyncData` and `useDashboard`: each keeps the result of whichever load ends last; there is nothing in the code that
  would make it the right one. A 401 for an old token that arrives in a new session is in the model, but the code
  does not tell tokens apart.
* A POST that is repeated after a lost answer: a second movement, with no means in the code against it.
* The buffer of a connection that breaks inside its body is never freed: `BodySound` counts it (`broken`).
* `GET /transactions/summary/monthly` is the summary without its second half; the summary's filter for one account is in
  `Statistics`, not in `Dashboard`.
* Parsing, formatting, hashing, token signing, logging, configuration: no state to get out of order.
* `admins` tables and `user_service_delete_user`: no route reaches them.
* Containers, seeds, benchmarks and scripts: no program logic.

## 7. Plan

Every safety and action property of a run that passes is stated by a theorem, some under a hypothesis the theorem names; liveness stays with TLC. What is left:

1. The journal the statements are proved over commits whole movements. That several C server processes implement it, lost
   updates aside, is not stated: `OneProcessImplementsLedger` and `OneSlotImplementsLedger` are about one request at a time.
2. More of the reads: the login with its token, and the availability checks of registration, as actions beside the writes they race with.
