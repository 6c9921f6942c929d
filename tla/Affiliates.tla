------------------------------ MODULE Affiliates ------------------------------
(****************************************************************************)
(* /affiliates of both backends, and the check that POST /transactions/send *)
(* makes of the recipient.  An affiliate is a link from its owner to the    *)
(* account of a recipient, under a nickname.  Every statement commits by    *)
(* itself: other servers change the links between the statements of one     *)
(* request, and users open accounts.                                        *)
(*                                                                          *)
(* An account's owner, type and currency, and a user's name, never change,  *)
(* so a SELECT of a row that is known to exist has no step of its own.      *)
(****************************************************************************)
EXTENDS Integers, Sorting

CONSTANTS
  Servers,        \* C processes, which serve one request at a time, Rust tasks
  Backend,        \* "C" or "Rust", of each server
  Users,
  Accounts,       \* ids
  UserOf, TypeOf, CurrencyOf,
  Currencies, Regular,
  Opened,         \* the accounts there are to begin with
  Nicknames,      \* those the domain accepts
  Blank,          \* one that it refuses
  Key,            \* the place of a nickname, in lower case, in the alphabet
  MaxPageSize,    \* 100
  U32,            \* the values of the Rust u32 a page's first row is found in
  Absent,         \* no value for a parameter
  NoCall,
  Calls,          \* what clients send each server
  MaxVersions     \* bound: of the tables, while one request is served

Link == [owner : Users, account : Accounts, nickname : Nicknames]

OfLink(op) == [op : {op}, owner : Users, account : Accounts]
Named(op) == [op : {op}, owner : Users, account : Accounts,
              nickname : Nicknames \cup {Blank}]

\* `sendIn`: for_send_currency.  `search`: the users and nicknames whose names
\* contain the needle, Absent also when that has less than two characters.
Listing ==
  [op : {"list"}, owner : Users, sendIn : Currencies \cup {Absent, "bad"},
   search : SUBSET (Users \cup Nicknames) \cup {Absent},
   currency : Currencies \cup {Absent, "bad"}, desc : BOOLEAN,
   page : Nat, size : Nat]

Resolving == [op : {"resolve"}, owner : Users, user : Users \cup {Absent}]
Sending == [op : {"send"}, owner : Users, from : Accounts, to : Accounts]

Request ==
  Named("create") \cup Named("rename") \cup OfLink("delete") \cup OfLink("get")
    \cup Listing \cup Resolving \cup Sending

ASSUME AffiliatesAssumption ==
  /\ Backend \in [Servers -> {"C", "Rust"}]
  /\ Accounts \subseteq Nat /\ Opened \subseteq Accounts
  /\ IsFiniteSet(Opened) /\ Absent \notin Users
  /\ UserOf \in [Accounts -> Users] /\ CurrencyOf \in [Accounts -> Currencies]
  /\ \A a, b \in Accounts :
       /\ <<UserOf[a], TypeOf[a], CurrencyOf[a]>> =
          <<UserOf[b], TypeOf[b], CurrencyOf[b]>>
       => a = b
  /\ Key \in [Nicknames -> Nat] /\ Blank \notin Nicknames
  /\ MaxPageSize \in Nat \ {0} /\ U32 \in Nat \ {0}
  /\ MaxVersions \in Nat
  /\ \A s \in Servers : Calls[s] \subseteq Request

VARIABLES
  links,          \* the table `affiliates`
  opened,         \* the ids in the table `accounts`
  pc,             \* the statement a server is about to send
  req,            \* the request it serves, or has served last
  rows,           \* of the links or accounts it has read: those left to look at
  view,           \* the rows it has made for its answer
  reply,
  during          \* history: <<links, opened>> since it accepted the request

vars == <<links, opened, pc, req, rows, view, reply, during>>

NoAnswer == [kind |-> "none", items |-> <<>>, total |-> 0]
Said(kind) == [NoAnswer EXCEPT !.kind = kind]

Init ==
  /\ links = {} /\ opened = Opened
  /\ pc = [s \in Servers |-> "idle"]
  /\ req = [s \in Servers |-> NoCall]
  /\ rows = [s \in Servers |-> <<>>]
  /\ view = [s \in Servers |-> <<>>]
  /\ reply = [s \in Servers |-> NoAnswer]
  /\ during = [s \in Servers |-> {}]

-----------------------------------------------------------------------------
\* What the tables hold, and the ways a request goes on.

Linked(owner, account) ==
  \E l \in links : l.owner = owner /\ l.account = account

At(s, label) == pc[s] = label

GoOn(s, label, left, made) ==
  /\ pc' = [pc EXCEPT ![s] = label]
  /\ rows' = [rows EXCEPT ![s] = left]
  /\ view' = [view EXCEPT ![s] = made]
  /\ UNCHANGED <<req, reply>>

GoTo(s, label) == GoOn(s, label, rows[s], view[s])

Answer(s, answer) ==
  /\ pc' = [pc EXCEPT ![s] = "idle"]
  /\ reply' = [reply EXCEPT ![s] = answer]
  /\ rows' = [rows EXCEPT ![s] = <<>>]
  /\ view' = [view EXCEPT ![s] = <<>>]
  /\ UNCHANGED req

Say(s, kind) == Answer(s, Said(kind))

\* A statement that reads.
Reads == UNCHANGED <<links, opened, during>>

\* History: every request under way sees a new version of the tables.
Watched(version) ==
  /\ \A t \in Servers :
       ~At(t, "idle") => Cardinality(during[t] \cup {version}) <= MaxVersions
  /\ during' = [t \in Servers |->
                  IF At(t, "idle") THEN during[t] ELSE during[t] \cup {version}]

\* A statement that writes and commits.  Its answer may be lost on the way.
Write(s, table, kind) ==
  /\ links' = table
  /\ \E answer \in {kind, "failed"} : Say(s, answer)
  /\ Watched(<<table, opened>>)
  /\ UNCHANGED opened

FirstStatement(q) ==
  CASE q.op = "create" -> "account" [] q.op = "send" -> "target"
    [] q.op = "list" -> "links" [] q.op = "resolve" -> "tag"
    [] OTHER -> q.op

Accept(s, q) ==
  /\ At(s, "idle")
  /\ req' = [req EXCEPT ![s] = q]
  /\ pc' = [pc EXCEPT ![s] = FirstStatement(q)]
  /\ reply' = [reply EXCEPT ![s] = NoAnswer]
  /\ during' = [during EXCEPT ![s] = {<<links, opened>>}]
  /\ UNCHANGED <<links, opened, rows, view>>

\* A statement fails, or is never answered for want of a connection.
Fail(s) == ~At(s, "idle") /\ Say(s, "failed") /\ Reads

\* POST /accounts or a registration, elsewhere.
OpenAccount(a) ==
  /\ a \notin opened
  /\ opened' = opened \cup {a}
  /\ Watched(<<links, opened \cup {a}>>)
  /\ UNCHANGED <<links, pc, req, rows, view, reply>>

-----------------------------------------------------------------------------
\* create_affiliate.

FindAccount(s) ==
  /\ At(s, "account")
  /\ IF req[s].account \in opened THEN GoTo(s, "exists") ELSE Say(s, "invalid")
  /\ Reads

\* The nickname is looked at only now.
LookForLink(s) ==
  /\ At(s, "exists")
  /\ IF Linked(req[s].owner, req[s].account) THEN Say(s, "conflict")
     ELSE IF req[s].nickname = Blank THEN Say(s, "invalid")
     ELSE GoTo(s, "insert")
  /\ Reads

\* Mutant: a table without the primary key.
InsertUnkeyed(s) ==
  /\ At(s, "insert")
  /\ Write(s, links \cup {[owner |-> req[s].owner, account |-> req[s].account,
                          nickname |-> req[s].nickname]}, "ok")

\* The primary key refuses a second link; its error is answered as any other.
Insert(s) ==
  /\ At(s, "insert")
  /\ IF Linked(req[s].owner, req[s].account) THEN Say(s, "failed") /\ Reads
     ELSE Write(s, links \cup {[owner |-> req[s].owner,
                                account |-> req[s].account,
                                nickname |-> req[s].nickname]}, "ok")

\* rename_affiliate, delete_affiliate.
Others(s) ==
  {l \in links : l.owner # req[s].owner \/ l.account # req[s].account}

\* Mutant: the number of rows changed is not looked at.
RenameUncounted(s) ==
  /\ At(s, "rename")
  /\ IF req[s].nickname = Blank THEN Say(s, "invalid") /\ Reads
     ELSE Write(s, Others(s) \cup {[l EXCEPT !.nickname = req[s].nickname] :
                                     l \in links \ Others(s)}, "ok")

\* The Rust repository refuses the nickname itself, and its error is answered
\* as any other of the database.
Rename(s) ==
  /\ At(s, "rename")
  /\ IF req[s].nickname = Blank
     THEN Say(s, IF Backend[s] = "C" THEN "invalid" ELSE "failed") /\ Reads
     ELSE IF links = Others(s) THEN Say(s, "notfound") /\ Reads
     ELSE Write(s, Others(s) \cup {[l EXCEPT !.nickname = req[s].nickname] :
                                     l \in links \ Others(s)}, "ok")

Delete(s) ==
  /\ At(s, "delete")
  /\ IF links = Others(s) THEN Say(s, "notfound") /\ Reads
     ELSE Write(s, Others(s), "ok")

-----------------------------------------------------------------------------
\* The views.

\* build_affiliate_view.
ViewOf(l) ==
  [account |-> l.account, nickname |-> l.nickname, user |-> UserOf[l.account],
   currency |-> CurrencyOf[l.account]]

ByAccount(mine) == {p \in mine \X mine : p[1].account < p[2].account}

LinksOf(owner) ==
  LET mine == {l \in links : l.owner = owner} IN Orders(mine, ByAccount(mine))

\* get_affiliate_view.
Get(s) ==
  /\ At(s, "get")
  /\ IF links = Others(s) THEN Say(s, "notfound")
     ELSE \E l \in links \ Others(s) :
            Answer(s, [kind |-> "ok", items |-> <<ViewOf(l)>>, total |-> 1])
  /\ Reads

\* A Rust backend checks the currency to send in for every link it looks at,
\* hence not at all when there is none.
ListLinks(s) ==
  /\ At(s, "links")
  /\ \E found \in LinksOf(req[s].owner) :
       LET refused ==
             req[s].sendIn = "bad" /\ (Backend[s] = "C" \/ found # <<>>)
       IN IF refused THEN Say(s, "invalid")
          ELSE IF req[s].sendIn = Absent
          THEN GoOn(s, "page", <<>>, [i \in DOMAIN found |-> ViewOf(found[i])])
          ELSE GoOn(s, "row", found, <<>>)
  /\ Reads

\* Mutant: nicknames that differ only in case are told apart.
SeenExactly(s) ==
  \E i \in DOMAIN view[s] : view[s][i].nickname = Head(rows[s]).nickname

\* The nickname of the link looked at has been given a row already.
Seen(s) ==
  \E i \in DOMAIN view[s] :
    Key[view[s][i].nickname] = Key[Head(rows[s]).nickname]

\* One link in send-picker mode: the recipient's Regular account in the wanted
\* currency takes the place of the saved one.
PickRow(s) ==
  /\ At(s, "row")
  /\ IF rows[s] = <<>> THEN GoTo(s, "page")
     ELSE LET saved == ViewOf(Head(rows[s]))
              targets == {a \in opened : UserOf[a] = saved.user
                                         /\ TypeOf[a] = Regular
                                         /\ CurrencyOf[a] = req[s].sendIn}
              row(a) == [saved EXCEPT !.account = a, !.currency = req[s].sendIn]
          IN IF Seen(s) \/ targets = {}
             THEN GoOn(s, "row", Tail(rows[s]), view[s])
             ELSE \E a \in targets :
                    GoOn(s, "row", Tail(rows[s]), Append(view[s], row(a)))
  /\ Reads

Kept(q, row) ==
  /\ q.search # Absent => {row.user, row.nickname} \cap q.search # {}
  /\ q.sendIn = Absent /\ q.currency # Absent => row.currency = q.currency

\* The places of the rows that are kept, in the order they are shown in.  Equal
\* nicknames stay in the order of their accounts, except that the C service
\* reverses all for a descending list.
Before(backend, q, items) ==
  {p \in (DOMAIN items) \X (DOMAIN items) :
     LET i == p[1]  j == p[2]
         k == Key[items[i].nickname]  m == Key[items[j].nickname]
     IN IF k = m THEN IF q.desc /\ backend = "C" THEN j < i ELSE i < j
        ELSE IF q.desc THEN m < k ELSE k < m}

Sorted(backend, q, items) ==
  Orders({i \in DOMAIN items : Kept(q, items[i])}, Before(backend, q, items))

SizeOf(q) == IF q.size < 1 THEN 1
             ELSE IF q.size > MaxPageSize THEN MaxPageSize ELSE q.size

Start(q) == ((IF q.page < 1 THEN 1 ELSE q.page) - 1) * SizeOf(q)

FirstRow(backend, q) == IF backend = "C" THEN Start(q) ELSE Start(q) % U32

\* No statement: filters, sorting and paging.
Page(s) ==
  /\ At(s, "page")
  /\ LET q == req[s]
         first == FirstRow(Backend[s], q)
     IN IF q.sendIn = Absent /\ q.currency = "bad" THEN Say(s, "invalid")
        ELSE \E order \in Sorted(Backend[s], q, view[s]) :
               LET last == Min({first + SizeOf(q), Len(order)})
                   sorted == [i \in DOMAIN order |-> view[s][order[i]]]
               IN Answer(s, [kind |-> "ok", total |-> Len(order),
                             items |-> SubSeq(sorted, first + 1, last)])
  /\ Reads

-----------------------------------------------------------------------------
\* validate_send_target, then the movement itself.  Accounts are only ever
\* added, so its two SELECTs of accounts may be one step.  The Rust service does
\* not tell a missing account from any other error of the database.

Target(s) ==
  /\ At(s, "target")
  /\ LET from == req[s].from  to == req[s].to
     IN IF ~({from, to} \subseteq opened)
        THEN Say(s, IF Backend[s] = "C" THEN "notfound" ELSE "failed")
        ELSE IF TypeOf[to] # Regular \/ CurrencyOf[from] # CurrencyOf[to]
        THEN Say(s, "invalid")
        ELSE GoTo(s, "recipients")
  /\ Reads

Recipients(s) ==
  /\ At(s, "recipients")
  /\ IF \E l \in links : l.owner = req[s].owner
                         /\ UserOf[l.account] = UserOf[req[s].to]
     THEN GoTo(s, "record") ELSE Say(s, "invalid")
  /\ Reads

Record(s) == At(s, "record") /\ Say(s, "ok") /\ Reads

\* resolve_target_by_tag.
FindTag(s) ==
  /\ At(s, "tag")
  /\ IF req[s].user = Absent THEN Say(s, "invalid") ELSE GoTo(s, "mine")
  /\ Reads

OwnAccounts(s) ==
  /\ At(s, "mine")
  /\ GoOn(s, "theirs", SetToSeq({a \in opened : UserOf[a] = req[s].owner}), <<>>)
  /\ Reads

Option(a) == [account |-> a, nickname |-> Blank, user |-> UserOf[a],
              currency |-> CurrencyOf[a]]

Ascending(ids) == {p \in ids \X ids : p[1] < p[2]}

TheirAccounts(s) ==
  /\ At(s, "theirs")
  /\ LET held == {CurrencyOf[rows[s][i]] : i \in DOMAIN rows[s]}
         targets == {a \in opened : UserOf[a] = req[s].user
                                    /\ TypeOf[a] = Regular
                                    /\ CurrencyOf[a] \in held}
     IN IF targets = {} THEN Say(s, "invalid")
        ELSE \E found \in Orders(targets, Ascending(targets)) :
               Answer(s, [kind |-> "ok", total |-> Len(found),
                          items |-> [i \in DOMAIN found |-> Option(found[i])]])
  /\ Reads

-----------------------------------------------------------------------------
Writing(s) == FindAccount(s) \/ LookForLink(s) \/ Insert(s) \/ Rename(s) \/ Delete(s)

Viewing(s) == Get(s) \/ ListLinks(s) \/ PickRow(s) \/ Page(s)

Choosing(s) ==
  \/ Target(s) \/ Recipients(s) \/ Record(s)
  \/ FindTag(s) \/ OwnAccounts(s) \/ TheirAccounts(s)

Next ==
  \/ \E s \in Servers :
       \/ \E q \in Calls[s] : Accept(s, q)
       \/ Writing(s) \/ Viewing(s) \/ Choosing(s) \/ Fail(s)
  \/ \E a \in Accounts : OpenAccount(a)

Spec == Init /\ [][Next]_vars

-----------------------------------------------------------------------------
\* Types; and the primary key: an owner has one link to an account at most,
\* whichever creates and renames overlap (affiliate_service.c:231).
Row == [account : Accounts, nickname : Nicknames \cup {Blank}, user : Users,
        currency : Currencies]

TypeOK ==
  /\ links \subseteq Link
  /\ \A l, m \in links : l.owner = m.owner /\ l.account = m.account => l = m
  /\ opened \subseteq Accounts
  /\ \A l \in links : l.account \in opened
  /\ \A s \in Servers : req[s] \in Calls[s] \cup {NoCall}
  /\ \A s \in Servers :
       /\ view[s] \in Seq(Row) /\ reply[s].items \in Seq(Row)
       /\ At(s, "idle") => rows[s] = <<>> /\ view[s] = <<>>
       /\ reply[s].kind \in
            {"none", "ok", "invalid", "conflict", "notfound", "failed"}

\* What request q may be told of the versions `seen` of the tables.
TrueOfLink(q, kind, seen) ==
  LET has(v) == \E l \in v[1] : l.owner = q.owner /\ l.account = q.account
      named(v) == [owner |-> q.owner, account |-> q.account,
                   nickname |-> q.nickname] \in v[1]
  IN CASE kind = "ok" /\ q.op = "create" ->
            (\E v \in seen : named(v)) /\ (\E v \in seen : ~has(v))
       [] kind = "ok" /\ q.op = "rename" -> \E v \in seen : named(v)
       [] kind = "ok" /\ q.op = "delete" ->
            (\E v \in seen : has(v)) /\ (\E v \in seen : ~has(v))
       [] kind = "conflict" -> \E v \in seen : has(v)
       [] kind = "notfound" -> \E v \in seen : ~has(v)
       [] OTHER -> TRUE

TrueOfSend(q, kind, seen) ==
  LET linked(v) == \E l \in v[1] : l.owner = q.owner
                                   /\ UserOf[l.account] = UserOf[q.to]
      fits == TypeOf[q.to] = Regular /\ CurrencyOf[q.to] = CurrencyOf[q.from]
  IN /\ kind = "ok" => fits /\ \E v \in seen : linked(v)
     /\ kind = "invalid" /\ fits => \E v \in seen : ~linked(v)

\* Every option there was all the time is given, and none that never was.
TrueOfOptions(q, answer, seen) ==
  LET options(v) ==
        {a \in v[2] : /\ UserOf[a] = q.user /\ TypeOf[a] = Regular
                      /\ \E b \in v[2] : UserOf[b] = q.owner
                                         /\ CurrencyOf[b] = CurrencyOf[a]}
      given == {answer.items[i].account : i \in DOMAIN answer.items}
  IN answer.kind \in {"ok", "invalid"} =>
       /\ \A a \in Accounts : (\A v \in seen : a \in options(v)) => a \in given
       /\ \A a \in given : \E v \in seen : a \in options(v)

MineOf(q, v) == {l \in v[1] : l.owner = q.owner}

\* A plain list is a page of one version of the links: the row at place i is
\* the one that Start(q) + i - 1 of the kept rows come before.
TrueOfList(backend, q, answer, seen) ==
  \E v \in seen :
    LET kept == {r \in {ViewOf(l) : l \in MineOf(q, v)} : Kept(q, r)}
        before(r, t) ==
          IF Key[r.nickname] = Key[t.nickname]
          THEN IF q.desc /\ backend = "C" THEN t.account < r.account
                                          ELSE r.account < t.account
          ELSE IF q.desc THEN Key[t.nickname] < Key[r.nickname]
                         ELSE Key[r.nickname] < Key[t.nickname]
        place(r) == Cardinality({t \in kept \ {r} : before(t, r)})
    IN /\ answer.total = Cardinality(kept)
       /\ \A r \in kept, i \in 1..SizeOf(q) :
            place(r) = Start(q) + i - 1
              <=> i \in DOMAIN answer.items /\ answer.items[i] = r

AnswerTrue(backend, q, answer, seen) ==
  CASE q.op = "send" -> TrueOfSend(q, answer.kind, seen)
    [] q.op = "resolve" -> TrueOfOptions(q, answer, seen)
    [] q.op = "list" ->
         answer.kind = "ok" /\ q.sendIn = Absent =>
           TrueOfList(backend, q, answer, seen)
    [] OTHER -> TrueOfLink(q, answer.kind, seen)

\* An answer is true of the links as they were at some moment between the
\* request and the answer, whatever other servers did to them meanwhile: a
\* refusal names a real obstacle, a success a change that was made, and money
\* is sent to a user who was among the sender's affiliates
\* (affiliate_service.c:231, http_transactions.c:123).
AnswersTrue ==
  \A s \in Servers :
    reply[s].kind # "none" =>
      AnswerTrue(Backend[s], req[s], reply[s], during[s])

\* The rows `items` of the send picker stand for the links of one version of
\* the tables, and name each nickname once; if `whole`, they leave none out that
\* is saved in the currency to send in.
IsTarget(q, l, a) ==
  /\ UserOf[a] = UserOf[l.account] /\ TypeOf[a] = Regular
  /\ CurrencyOf[a] = q.sendIn

SavedIn(q, l) == CurrencyOf[l.account] = q.sendIn

NickIn(items, l) ==
  \E i \in DOMAIN items : Key[items[i].nickname] = Key[l.nickname]

Allowed(q, items, whole, seen) ==
  /\ \A i, j \in DOMAIN items :
       Key[items[i].nickname] = Key[items[j].nickname] => i = j
  /\ \E v \in seen :
       /\ \A i \in DOMAIN items : \E l \in MineOf(q, v) :
            l.nickname = items[i].nickname /\ IsTarget(q, l, items[i].account)
       /\ whole => \A l \in {m \in MineOf(q, v) : SavedIn(q, m)} :
            (\E a \in Accounts : IsTarget(q, l, a) /\ \A w \in seen : a \in w[2])
            => NickIn(items, l)

PickerTrue(q, answer, seen) ==
  answer.kind = "ok" /\ q.op = "list" /\ q.sendIn # Absent =>
    Allowed(q, answer.items,
            q.search = Absent /\ answer.total = Len(answer.items), seen)

\* What the send picker lists is what the check of a send accepts: Regular
\* accounts, in the currency asked for, of users the owner had a link to; one
\* for each nickname, and one for each nickname of a link saved in that currency
\* whose user had such an account all the time (affiliate_service.c:640).
PickerAllows ==
  \A s \in Servers : PickerTrue(req[s], reply[s], during[s])

\* for_send_currency keeps only affiliates whose recipient account has that
\* currency (server/readme.md of the C backend, line 544): a row stands for a
\* link that is saved in it.
PickerKeepsMatching ==
  \A s \in Servers :
    reply[s].kind = "ok" /\ req[s].op = "list" /\ req[s].sendIn # Absent =>
      \A i \in DOMAIN reply[s].items : \E v \in during[s] :
        \E l \in MineOf(req[s], v) :
          /\ l.nickname = reply[s].items[i].nickname
          /\ UserOf[l.account] = reply[s].items[i].user
          /\ SavedIn(req[s], l)

-----------------------------------------------------------------------------
\* What makes them hold.  A version of the tables has one link of an owner to
\* an account at most, and only to accounts that have been opened.
Version == (SUBSET Link) \X (SUBSET Accounts)

VersionOK(v) ==
  /\ v \in Version /\ IsFiniteSet(v[1]) /\ IsFiniteSet(v[2])
  /\ \A l, m \in v[1] : l.owner = m.owner /\ l.account = m.account => l = m
  /\ \A l \in v[1] : l.account \in v[2]


\* The rows of a plain list are the links of one version.
Plain(q, made, seen) ==
  \E v \in seen : \E found \in Orders(MineOf(q, v), ByAccount(MineOf(q, v))) :
    made = [i \in DOMAIN found |-> ViewOf(found[i])]

\* A send picker that has still to look at the links `left`.
Picking(q, left, made, seen) ==
  /\ \A i, j \in DOMAIN made :
       Key[made[i].nickname] = Key[made[j].nickname] => i = j
  /\ \E v \in seen :
       /\ \A i \in DOMAIN made : \E l \in MineOf(q, v) :
            l.nickname = made[i].nickname /\ IsTarget(q, l, made[i].account)
       /\ \A i \in DOMAIN left : left[i] \in MineOf(q, v)
       /\ \A l \in MineOf(q, v) :
            \/ \E i \in DOMAIN left : left[i] = l
            \/ NickIn(made, l)
            \/ \A a \in Accounts :
                 IsTarget(q, l, a) => \E w \in seen : a \notin w[2]

Fits(q) == TypeOf[q.to] = Regular /\ CurrencyOf[q.to] = CurrencyOf[q.from]

\* What a server knows of the request it serves before the statement `label`.
Serving(q, label, left, made, seen) ==
  /\ label \in {"account", "exists", "insert"} => q.op = "create"
  /\ label \in {"exists", "insert"} => q.account \in opened
  /\ label = "insert" => q.nickname # Blank
  /\ label \in {"rename", "delete", "get"} => q.op = label
  /\ label \in {"links", "row", "page"} => q.op = "list"
  /\ label = "row" =>
       /\ q.sendIn # Absent /\ Picking(q, left, made, seen)
       /\ left \in Seq(Link) /\ (left # <<>> => q.sendIn \in Currencies)
  /\ label = "page" =>
       IF q.sendIn = Absent THEN Plain(q, made, seen)
       ELSE Picking(q, <<>>, made, seen)
  /\ label \in {"target", "recipients", "record"} => q.op = "send"
  /\ label \in {"recipients", "record"} => Fits(q)
  /\ label = "record" =>
       \E v \in seen, l \in Link : l \in v[1] /\ l.owner = q.owner
                                  /\ UserOf[l.account] = UserOf[q.to]
  /\ label \in {"tag", "mine", "theirs"} => q.op = "resolve"
  /\ label \in {"mine", "theirs"} => q.user # Absent
  /\ label = "theirs" =>
       \E v \in seen :
         /\ \A i \in DOMAIN left : left[i] \in v[2] /\ UserOf[left[i]] = q.owner
         /\ \A a \in v[2] : UserOf[a] = q.owner => \E i \in DOMAIN left : left[i] = a

Steps ==
  {"account", "exists", "insert", "rename", "delete", "get", "links", "row",
   "page", "target", "recipients", "record", "tag", "mine", "theirs"}

StateOK ==
  /\ VersionOK(<<links, opened>>)
  /\ pc \in [Servers -> Steps \cup {"idle"}]
  /\ req \in [Servers -> Request \cup {NoCall}]
  /\ DOMAIN rows = Servers
  /\ view \in [Servers -> Seq(Row)]
  /\ reply \in [Servers -> [kind : {"none", "ok", "invalid", "conflict", "notfound",
                                  "failed"},
                           items : Seq(Row), total : Nat]]
  /\ during \in [Servers -> SUBSET Version]

HistoryOK ==
  \A s \in Servers :
    /\ \A v \in during[s] : VersionOK(v) /\ v[2] \subseteq opened
    /\ ~At(s, "idle") => <<links, opened>> \in during[s]

ServingOK ==
  \A s \in Servers : ~At(s, "idle") =>
    /\ req[s] \in Calls[s] /\ reply[s] = NoAnswer
    /\ Serving(req[s], pc[s], rows[s], view[s], during[s])

\* Where the page asked for begins within a u32.
PageFits(backend, q) == q.op = "list" => FirstRow(backend, q) = Start(q)

AnswersFit ==
  \A s \in Servers :
    reply[s].kind # "none" =>
      /\ req[s] \in Calls[s]
      /\ PageFits(Backend[s], req[s]) =>
           AnswerTrue(Backend[s], req[s], reply[s], during[s])

Inductive ==
  TypeOK /\ StateOK /\ HistoryOK /\ ServingOK /\ AnswersFit /\ PickerAllows
=============================================================================
