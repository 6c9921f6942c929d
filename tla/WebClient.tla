------------------------------- MODULE WebClient -------------------------------
(****************************************************************************)
(* The web client of one customer: the session and the token its requests   *)
(* carry, the accounts every page shares, the transactions page with its    *)
(* form and its list of recent transactions, and the POST of the form on    *)
(* its way through the C server.  Answers come in any order.                *)
(*                                                                          *)
(* A movement is the number it has among those of its account; the list of  *)
(* accounts stands for how many movements each balance shows.  Signing in   *)
(* again is a new session with a new token.  NULL is the empty choice, no   *)
(* token and no session.                                                    *)
(****************************************************************************)
EXTENDS Uploads, Sequences

CONSTANTS
  Accounts,       \* 1..n, as the accounts are listed
  FirstRows,      \* how many movements each has when the model begins
  PageSize,       \* RECENT_PAGE_SIZE
  MaxRows,        \* bound: movements of all accounts
  MaxSessions,    \* bound: times the customer signs in
  Loads           \* bound: requests the browser has under way, 1..m

ASSUME WebClientAssumption ==
  /\ FirstRows \in Seq(Nat) /\ FirstRows # <<>>
  /\ Accounts = 1..Len(FirstRows)
  /\ PageSize \in Nat \ {0}
  /\ Loads \subseteq Nat \ {0}

VARIABLES
  session,        \* AuthContext: whose pages are mounted
  signed,         \* how many sessions there have been
  expired,        \* the tokens the server no longer takes
  apiToken,       \* apiClient.authToken
  ctx,            \* AccountsContext
  page,           \* TransactionsPage; `tab` is "away" on any other page
  panel,          \* RecentTransactionsPanel, mounted on the tab "Recent"
  load,           \* the GET requests under way
  post,           \* of each connection, the submit() that waits for it
  rows,           \* how many movements each account has in the books
  told            \* history: the last movement of each the page was told of

client == <<session, signed, expired, apiToken, ctx, page, panel, load, post>>
vars == <<client, rows, told, uploads>>

NoList == <<>>
\* `latest` is the load with the sequence number loadSeq.current, as long as it
\* is under way (isLoading).
NoContext == [latest |-> NULL, list |-> NoList, error |-> FALSE]
NoPage == [tab |-> "away", account |-> NULL, busy |-> FALSE]
NoPanel ==
  [items |-> <<>>, offset |-> 0, more |-> TRUE, busy |-> FALSE, error |-> FALSE]

\* `after` says which submit() awaits the load: that of the mounted page, or of
\* one that has been left.
NoLoad ==
  [kind |-> "none", offset |-> 0, account |-> NULL, append |-> FALSE,
   token |-> NULL, after |-> "nothing", answer |-> "none", data |-> <<>>]

\* `account` is the one of a submit(), for the link it goes to at its end.
AccountsLoad(token, after, account) ==
  [NoLoad EXCEPT !.kind = "accounts", !.token = token,
                 !.after = after, !.account = account]

RecentLoad(account, offset, append) ==
  [NoLoad EXCEPT !.kind = "recent", !.offset = offset, !.account = account,
                 !.append = append, !.token = apiToken]

\* A load whose component is unmounted: its answer sets no state.
Orphan(r) ==
  IF r.kind = "none" \/ (r.after = "nothing" /\ r.answer = "ok")
  THEN NoLoad
  ELSE [NoLoad EXCEPT !.kind = "orphan", !.token = r.token, !.answer = r.answer,
                      !.account = r.account,
                      !.after = IF r.after = "page" THEN "left" ELSE r.after]

Slots(l) == {i \in Loads : l[i] = NoLoad}
HasRoom(l) == Slots(l) # {}
Sent(l, r) == [l EXCEPT ![Min(Slots(l))] = r]

\* submit() holds on to the token of the session it was rendered in.
NoPost == [session |-> NULL, token |-> NULL, account |-> NULL, page |-> FALSE,
           answer |-> "none", row |-> 0]

Init ==
  /\ UploadsInit
  /\ session = NULL /\ signed = 0 /\ expired = {} /\ apiToken = NULL
  /\ ctx = NoContext /\ page = NoPage /\ panel = NoPanel
  /\ load = [i \in Loads |-> NoLoad]
  /\ post = [k \in Connections |-> NoPost]
  /\ rows = FirstRows
  /\ told = [a \in Accounts |-> 0]

-----------------------------------------------------------------------------
\* The list of recent transactions.

\* loadPage returns early when a page is under way (inFlightRef).
LoadPage(p, l, a, offset, append) ==
  IF a = NULL \/ p.busy THEN panel' = p /\ load' = l
  ELSE /\ panel' = [p EXCEPT !.busy = TRUE, !.error = FALSE,
                             !.offset = IF append THEN @ ELSE 0]
       /\ load' = Sent(l, RecentLoad(a, offset, append))

\* The effect on a new account or refresh token, and on mounting.
ResetPanel(p, l, a) ==
  LoadPage([p EXCEPT !.items = <<>>, !.more = a # NULL], l, a, 0, FALSE)

OnlyPanel == UNCHANGED <<session, signed, expired, apiToken, ctx, page, post,
                         rows, told, uploads>>

Scroll ==
  /\ page.tab = "Recent" /\ panel.items # <<>> /\ panel.more /\ ~panel.busy
  /\ HasRoom(load)
  /\ LoadPage(panel, load, page.account, panel.offset, TRUE)
  /\ OnlyPanel

Retry ==
  /\ page.tab = "Recent" /\ panel.error
  /\ HasRoom(load)
  /\ LoadPage(panel, load, page.account, 0, FALSE)
  /\ OnlyPanel

\* GET /transactions/recent, newest first.
Recent(a, offset) ==
  LET left == IF offset > rows[a] THEN 0 ELSE rows[a] - offset
  IN  [i \in 1..Min({PageSize, left}) |-> <<a, left + 1 - i>>]

\* Mutant: a page that failed counts as one that has come.
PageComesCounted(r) ==
  IF r.answer = "ok"
  THEN [panel EXCEPT !.items = IF r.append THEN @ \o r.data ELSE r.data,
                     !.offset = r.offset + Len(r.data),
                     !.more = Len(r.data) >= PageSize, !.busy = FALSE]
  ELSE [panel EXCEPT !.items = IF r.append THEN @ ELSE <<>>,
                     !.offset = r.offset + PageSize,
                     !.error = TRUE, !.busy = FALSE]

PageComes(r) ==
  IF r.answer = "ok"
  THEN [panel EXCEPT !.items = IF r.append THEN @ \o r.data ELSE r.data,
                     !.offset = r.offset + Len(r.data),
                     !.more = Len(r.data) >= PageSize, !.busy = FALSE]
  ELSE [panel EXCEPT !.items = IF r.append THEN @ ELSE <<>>,
                     !.error = TRUE, !.busy = FALSE]

-----------------------------------------------------------------------------
\* Sessions and pages.

\* The effect of AccountsContext, or a call of its reload(): `token` is the one
\* reload() was made with.
Reloading(token, after, account) ==
  /\ HasRoom(load)
  /\ apiToken' = token
  /\ ctx' = [ctx EXCEPT !.latest = Min(Slots(load)), !.error = FALSE]
  /\ load' = Sent(load, AccountsLoad(token, after, account))

\* What becomes of requests under way when the transactions page is unmounted.
Left(l) ==
  [i \in Loads |->
     IF l[i].kind = "recent" THEN Orphan(l[i])
     ELSE IF l[i].after = "page" THEN [l[i] EXCEPT !.after = "left"] ELSE l[i]]

LeftPosts == [k \in Connections |-> [post[k] EXCEPT !.page = FALSE]]

\* The answer to POST /users/login; the dashboard opens.
SignIn ==
  /\ session = NULL /\ signed < MaxSessions
  /\ session' = signed + 1 /\ signed' = signed + 1
  /\ Reloading(signed + 1, "nothing", NULL)
  /\ UNCHANGED <<expired, page, panel, post, rows, told, uploads>>

\* handleLogout: the pages are unmounted, the document stays, and so do the
\* requests under way.
SignOut ==
  /\ session # NULL
  /\ session' = NULL /\ apiToken' = NULL
  /\ ctx' = NoContext /\ page' = NoPage /\ panel' = NoPanel
  /\ load' = [i \in Loads |-> Orphan(load[i])]
  /\ post' = LeftPosts
  /\ UNCHANGED <<signed, expired, rows, told, uploads>>

Expire ==
  /\ \E t \in (1..signed) \ expired : expired' = expired \cup {t}
  /\ UNCHANGED <<session, signed, apiToken, ctx, page, panel, load, post, rows,
                 told, uploads>>

\* The handler of a 401.  Another document is loaded, and everything under way
\* in this one is dropped; on the login page it does nothing.
Expel ==
  /\ session' = NULL /\ apiToken' = NULL
  /\ ctx' = NoContext /\ page' = NoPage /\ panel' = NoPanel
  /\ load' = [i \in Loads |-> NoLoad]
  /\ post' = [k \in Connections |-> NoPost]

\* The accounts page: retry, or an account has been opened.
Reload ==
  /\ session # NULL /\ page.tab = "away"
  /\ Reloading(session, "nothing", NULL)
  /\ UNCHANGED <<session, signed, expired, page, panel, post, rows, told, uploads>>

\* From a link that names an account, or one that does not.
OpenPage ==
  /\ session # NULL /\ page.tab = "away" /\ HasRoom(load)
  /\ \E tab \in {"Recent", "form"},
        a \in Accounts \cup {IF ctx.list = NoList THEN NULL ELSE Min(Accounts)} :
       /\ page' = [NoPage EXCEPT !.tab = tab, !.account = a]
       /\ IF tab = "Recent" THEN ResetPanel(NoPanel, load, a)
          ELSE UNCHANGED <<panel, load>>
  /\ UNCHANGED <<session, signed, expired, apiToken, ctx, post, rows, told, uploads>>

LeavePage ==
  /\ page.tab # "away"
  /\ page' = NoPage /\ panel' = NoPanel /\ load' = Left(load)
  /\ post' = LeftPosts
  /\ UNCHANGED <<session, signed, expired, apiToken, ctx, rows, told, uploads>>

SwitchTab ==
  /\ page.tab # "away" /\ HasRoom(load)
  /\ IF page.tab = "Recent"
     THEN /\ page' = [page EXCEPT !.tab = "form"]
          /\ panel' = NoPanel
          /\ load' = [i \in Loads |-> IF load[i].kind = "recent"
                                      THEN Orphan(load[i]) ELSE load[i]]
     ELSE /\ page' = [page EXCEPT !.tab = "Recent"]
          /\ ResetPanel(NoPanel, load, page.account)
  /\ UNCHANGED <<session, signed, expired, apiToken, ctx, post, rows, told, uploads>>

ChooseAccount ==
  /\ page.tab # "away" /\ ctx.list # NoList /\ HasRoom(load)
  /\ \E a \in Accounts \ {page.account} :
       /\ page' = [page EXCEPT !.account = a]
       /\ IF page.tab = "Recent" THEN ResetPanel(panel, load, a)
          ELSE UNCHANGED <<panel, load>>
  /\ UNCHANGED <<session, signed, expired, apiToken, ctx, post, rows, told, uploads>>

-----------------------------------------------------------------------------
\* The form.

\* submit(): the button is disabled while one is under way.
Submit ==
  /\ page.tab = "form" /\ page.account # NULL /\ ~page.busy
  /\ \E k \in Connections :
       /\ post[k] = NoPost
       /\ LET Waits(answer) ==
                post' = [post EXCEPT ![k] =
                  [session |-> session, token |-> apiToken, page |-> TRUE,
                   account |-> page.account, answer |-> answer, row |-> 0]]
          IN  \/ Headers(k, 1) /\ Waits("none")
              \/ NoHeaders(k) /\ Waits("lost")
  /\ page' = [page EXCEPT !.busy = TRUE]
  /\ UNCHANGED <<session, signed, expired, apiToken, ctx, panel, load, rows, told>>

\* submit() goes on when its POST has ended: with refreshAll(), or with a toast.
\* Everything of submit() and of reload() is of the render it was started in.
PostReturns(k) ==
  LET q == post[k]
      answer == q.answer
  IN /\ q # NoPost
     /\ answer # "none"
     /\ IF answer = "401" /\ apiToken # NULL /\ session # NULL
        THEN Expel /\ UNCHANGED told
        ELSE /\ post' = [post EXCEPT ![k] = NoPost]
             /\ UNCHANGED <<session, panel>>
             /\ \/ /\ answer # "recorded"
                   /\ page' = [page EXCEPT !.busy = @ /\ ~q.page]
                   /\ UNCHANGED <<apiToken, ctx, load, told>>
                \/ /\ answer = "recorded" /\ q.session = session
                   /\ Reloading(session, IF q.page THEN "page" ELSE "left",
                                q.account)
                   /\ told' = [told EXCEPT ![q.account] = Max({@, q.row})]
                   /\ UNCHANGED page
                \/ /\ answer = "recorded" /\ q.session # session
                   /\ HasRoom(load)
                   /\ apiToken' = q.session
                   /\ load' = Sent(load,
                        Orphan(AccountsLoad(q.session, "left", q.account)))
                   /\ UNCHANGED <<ctx, page, told>>
     /\ UNCHANGED <<signed, expired, rows, uploads>>

-----------------------------------------------------------------------------
\* The server, and the answers to GET requests.

Recorded(a) ==
  /\ FoldFunction(+, 0, rows) < MaxRows
  /\ rows' = [rows EXCEPT ![a] = @ + 1]

Answered(k, answer) ==
  post' = [post EXCEPT ![k] = IF @ = NoPost THEN @ ELSE [@ EXCEPT !.answer = answer]]

\* The end of a body: of the form's POST, or of a stranger's, who may pay to or
\* from an account of the customer.
ServePost(k) ==
  /\ Dispatch(k)
  /\ UNCHANGED <<session, signed, expired, apiToken, ctx, page, panel, load, told>>
  /\ IF post[k] = NoPost
     THEN UNCHANGED post /\ (UNCHANGED rows \/ \E a \in Accounts : Recorded(a))
     ELSE \/ /\ post[k].token \notin expired
             /\ Recorded(post[k].account)
             /\ post' = [post EXCEPT ![k].row = rows'[post[k].account],
                                     ![k].answer = "recorded"]
          \/ /\ UNCHANGED rows
             /\ Answered(k, IF post[k].token \in expired THEN "401" ELSE "refused")

\* A request that ends inside its body, or whose answer is lost.
Upload(k) ==
  /\ \/ \E length \in Lengths :
          post[k] = NoPost /\ Headers(k, length) /\ UNCHANGED post
     \/ Piece(k) /\ UNCHANGED post
     \/ Refuse(k) /\ Answered(k, "lost")
     \/ Break(k) /\ Answered(k, "lost")
     \/ /\ post[k].answer \in {"recorded", "refused"}
        /\ Answered(k, "lost") /\ UNCHANGED uploads
  /\ UNCHANGED <<session, signed, expired, apiToken, ctx, page, panel, load,
                 rows, told>>

ServeLoad(i) ==
  LET r == load[i]
      Answer(answer, data) ==
        load' = [load EXCEPT ![i] =
          IF r.kind = "orphan" /\ r.after = "nothing" /\ answer = "ok" THEN NoLoad
          ELSE [r EXCEPT !.answer = answer, !.data = data]]
  IN /\ r # NoLoad /\ r.answer = "none"
     /\ IF r.token \in expired THEN Answer("401", <<>>)
        ELSE Answer("ok", CASE r.kind = "accounts" -> rows
                            [] r.kind = "recent" -> Recent(r.account, r.offset)
                            [] OTHER -> <<>>)
     /\ UNCHANGED <<session, signed, expired, apiToken, ctx, page, panel, post,
                    rows, told, uploads>>

\* Mutant: the sequence number is not looked at.
AccountsComeUnordered(i, r) ==
  IF r.kind # "accounts" THEN ctx
  ELSE [latest |-> NULL, list |-> r.data, error |-> r.answer # "ok"]

\* An answer to any load but the latest is ignored.
AccountsCome(i, r) ==
  IF r.kind # "accounts" \/ ctx.latest # i THEN ctx
  ELSE [latest |-> NULL, list |-> r.data, error |-> r.answer # "ok"]

\* The transactions page once a load of accounts has ended: the first account
\* is chosen when none is, and the submit() that awaited it goes to the tab
\* "Recent", back to the page if that has been left.
PageAfter(r, list) ==
  LET account == IF page.tab # "away" /\ page.account = NULL /\ list # NoList
                 THEN Min(Accounts) ELSE page.account
  IN  CASE r.after = "page" ->
             [tab |-> "Recent", account |-> account, busy |-> FALSE]
        [] r.after = "left" /\ page.tab = "away" /\ session # NULL ->
             [tab |-> "Recent", account |-> r.account, busy |-> FALSE]
        [] OTHER -> [page EXCEPT !.account = account]

\* The answer, or the news that there is none: a network failure, a 5xx.
Arrive(i) ==
  \E answer \in {load[i].answer, "failed"} \ {"none"} :
  LET r == [load[i] EXCEPT !.answer = answer,
                           !.data = IF answer = "ok" THEN @ ELSE <<>>]
      others == [load EXCEPT ![i] = NoLoad]
  IN /\ r.kind # "none"
     /\ IF answer = "401" /\ apiToken # NULL /\ session # NULL
        THEN Expel
        ELSE /\ UNCHANGED <<session, apiToken, post>>
             /\ IF r.kind = "recent"
                THEN panel' = PageComes(r) /\ load' = others /\ UNCHANGED <<ctx, page>>
                ELSE /\ ctx' = AccountsCome(i, r)
                     /\ page' = PageAfter(r, ctx'.list)
                     /\ IF page'.tab = "Recent"
                           /\ (r.after = "page" \/ <<page'.tab, page'.account>>
                                                   # <<page.tab, page.account>>)
                        THEN ResetPanel(panel, others, page'.account)
                        ELSE panel' = panel /\ load' = others
     /\ UNCHANGED <<signed, expired, rows, told, uploads>>

Next ==
  \/ SignIn \/ SignOut \/ Expire \/ Reload
  \/ OpenPage \/ LeavePage \/ SwitchTab \/ ChooseAccount
  \/ Scroll \/ Retry \/ Submit
  \/ \E k \in Connections : Upload(k) \/ ServePost(k) \/ PostReturns(k)
  \/ \E i \in Loads : ServeLoad(i) \/ Arrive(i)

Spec == Init /\ [][Next]_vars

-----------------------------------------------------------------------------
\* Once no load of the accounts is under way, the accounts that are shown
\* contain every movement the page was told is recorded, in whatever order
\* loads and POSTs were answered (AccountsContext.tsx:37, TransactionsPage.tsx:143).
AccountsFresh ==
  session # NULL /\ ctx.latest = NULL /\ ctx.list # NoList =>
    \A a \in Accounts : ctx.list[a] >= told[a]

\* Between two neighbours of one account in the list no movement is missing,
\* although movements are recorded, pages fail and are asked for again, and the
\* account changes, between one page and the next.  A movement may be shown
\* twice (RecentTransactionsPanel.tsx:44).
RecentUnbroken ==
  \A i \in 2..Len(panel.items) :
    LET newer == panel.items[i - 1]
        older == panel.items[i]
    IN newer[1] = older[1] => older[2] >= newer[2] - 1

\* What makes these two hold.  The variables keep to their types; nothing the
\* page was told is newer than the books; the load of the accounts that counts
\* was sent when the page was told last, or later; and at most one page of
\* recent transactions is under way, the one the panel waits for.
Lists == {NoList} \cup [Accounts -> Nat]
Items == Seq(Accounts \X Int)

LoadType ==
  [kind : {"none", "accounts", "recent", "orphan"}, offset : Nat,
   account : Accounts \cup {NULL}, append : BOOLEAN, token : Nat,
   after : {"nothing", "page", "left"}, answer : {"none", "ok", "401"},
   data : Lists \cup Items]

PostType ==
  [session : Nat, token : Nat, account : Accounts \cup {NULL}, page : BOOLEAN,
   answer : {"none", "lost", "recorded", "refused", "401"}, row : Nat]

PanelType ==
  [items : Items, offset : Nat, more : BOOLEAN, busy : BOOLEAN,
   error : BOOLEAN]

ClientTypeOK ==
  /\ session \in Nat /\ signed \in Nat /\ expired \subseteq Nat
  /\ apiToken \in Nat
  /\ ctx \in [latest : Loads \cup {NULL}, list : Lists, error : BOOLEAN]
  /\ page \in [tab : {"away", "Recent", "form"},
               account : Accounts \cup {NULL}, busy : BOOLEAN]
  /\ panel \in PanelType
  /\ load \in [Loads -> LoadType]
  /\ post \in [Connections -> PostType]
  /\ rows \in [Accounts -> Nat] /\ told \in [Accounts -> Nat]

PostSound(k) ==
  post[k] # NoPost =>
    post[k].account \in Accounts /\ post[k].row <= rows[post[k].account]

ContextSound ==
  ctx.latest # NULL =>
    LET r == load[ctx.latest]
    IN /\ r.kind = "accounts"
       /\ r.answer = "ok" => \A a \in Accounts : r.data[a] >= told[a]

Fresh ==
  /\ \A a \in Accounts : told[a] <= rows[a]
  /\ \A k \in Connections : PostSound(k)
  /\ \A i \in Loads : load[i].kind = "accounts" => load[i].data \in Lists
  /\ ContextSound
  /\ AccountsFresh

\* The books go on where the list ends, as far as its last item can tell.
Continues(items, offset) ==
  items # <<>> =>
    LET last == items[Len(items)]
    IN rows[last[1]] - offset >= last[2] - 1

PageSound(r) ==
  /\ r.account \in Accounts /\ r.data \in Items
  /\ r.append => r.offset = panel.offset
  /\ \A j \in DOMAIN r.data :
       r.data[j] = <<r.account, r.data[1][2] + 1 - j>>
  /\ Continues(r.data, r.offset + Len(r.data))
  /\ r.append /\ panel.items # <<>> /\ r.data # <<>>
       /\ panel.items[Len(panel.items)][1] = r.account =>
         r.data[1][2] >= panel.items[Len(panel.items)][2] - 1

Unbroken ==
  /\ page.tab # "Recent" => panel = NoPanel
  /\ Continues(panel.items, panel.offset)
  /\ \A i \in Loads : load[i].kind = "recent" =>
       /\ panel.busy /\ PageSound(load[i])
       /\ \A j \in Loads : load[j].kind = "recent" => j = i
  /\ RecentUnbroken

Inductive == ClientTypeOK /\ UploadsInductive /\ Fresh /\ Unbroken

\* What AuthContext.tsx:50 says its effect does: "Keep apiClient token in sync
\* with React state."
TokenInSync == apiToken = session

\* What RecentTransactionsPanel.tsx:60 says of its effect: "Reset and load first
\* page when account or refresh token changes."  The list of an account that is
\* not loading is a list of that account.
RecentOfAccount ==
  page.tab = "Recent" /\ ~panel.busy =>
    \A i \in DOMAIN panel.items : panel.items[i][1] = page.account
=============================================================================
