--------------------------- MODULE OnboardingProof ---------------------------
(****************************************************************************)
(* What holds of Onboarding for every set of servers, of either backend,    *)
(* and every set of tags, e-mails, IBANs and requests.                      *)
(****************************************************************************)
EXTENDS Onboarding, TLAPS

-----------------------------------------------------------------------------
\* Rows.

\* A request says what rows it asks for.
LEMMA NewRows ==
  ASSUME NEW s \in Servers, req[s] \in Requests
  PROVE  /\ req[s].op = "register" => NewUser(s) \in User
         /\ \A i \in Ibans : NewAccount(s, i) \in Account
         /\ \A i \in Ibans :
              req[s].op = "register" => IsDefault(NewAccount(s, i), NewUser(s))
<1>1. req[s] \in Registration \/ req[s] \in Opening
  BY OnboardingAssumption
<1>2. CASE req[s] \in Registration
  BY <1>2, DirectoryAssumption
  DEF Registration, NewUser, NewAccount, User, Account, IsDefault
<1>3. CASE req[s] \in Opening
  BY <1>3 DEF Opening, NewUser, NewAccount, User, Account, IsDefault
<1> QED
  BY <1>1, <1>2, <1>3

\* The rows there are, uncommitted ones included: what OneOfEach is about.
Users == users \cup UNION {pending[s].users : s \in Servers}
Opened == accounts \cup UNION {pending[s].accounts : s \in Servers}

\* What OneOfEach says, in these terms.
LEMMA OneOfEachOfThem ==
  OneOfEach <=> /\ \A u, v \in Users : SameUser(u, v) => u = v
                /\ \A a, b \in Opened :
                     SamePair(a, b) \/ a.iban = b.iban => a = b
BY DEF OneOfEach, Users, Opened

\* A step that inserts nothing new.
LEMMA NoNewRow ==
  ASSUME OneOfEach, Users' \subseteq Users, Opened' \subseteq Opened
  PROVE  OneOfEach'
<1>1. \A u, v \in Users' : SameUser(u, v) => u = v
  BY OneOfEachOfThem
<1>2. \A a, b \in Opened' : SamePair(a, b) \/ a.iban = b.iban => a = b
  BY OneOfEachOfThem
<1> QED
  BY <1>1, <1>2 DEF OneOfEach, Users, Opened

\* INSERT INTO users of a session that has inserted no user yet.
LEMMA UserAdded ==
  ASSUME DirectoryTypeOK, OneOfEach, NEW s \in Servers, NEW u \in User,
         AddUser(s, u), pending[s] = Nothing
  PROVE  /\ DirectoryTypeOK' /\ OneOfEach' /\ UNCHANGED <<users, accounts>>
         /\ pending'[s] = [users |-> {u}, accounts |-> {}]
         /\ \A t \in Servers \ {s} : pending'[t] = pending[t]
<1>1. /\ UNCHANGED <<users, accounts>>
      /\ pending' = [pending EXCEPT ![s].users = @ \cup {u}]
      /\ UserBlockers(s, u) = {} /\ ~UserTaken(u)
  BY DEF AddUser
<1>2. /\ pending'[s] = [users |-> {u}, accounts |-> {}]
      /\ \A t \in Servers \ {s} : pending'[t] = pending[t]
  <2>1. pending[s].users \cup {u} = {u} /\ pending[s].accounts = {}
    BY DEF Nothing
  <2> QED
    BY <1>1, <2>1 DEF DirectoryTypeOK
<1>3. DirectoryTypeOK'
  BY <1>1 DEF DirectoryTypeOK
<1>4. Users' \subseteq Users \cup {u} /\ Opened' \subseteq Opened
  BY <1>1, <1>2 DEF Users, Opened, Nothing
<1>5. \A v \in Users : ~SameUser(u, v)
  <2>1. \A v \in users : ~SameUser(u, v)
    BY <1>1 DEF UserTaken
  <2>2. ASSUME NEW t \in Servers, NEW v \in pending[t].users
        PROVE  ~SameUser(u, v)
    BY <1>1, <2>2 DEF UserBlockers, Nothing
  <2> QED
    BY <2>1, <2>2 DEF Users
<1>6. \A v, w \in Users' : SameUser(v, w) => v = w
  BY <1>4, <1>5, OneOfEachOfThem DEF SameUser
<1>7. \A a, b \in Opened' : SamePair(a, b) \/ a.iban = b.iban => a = b
  BY <1>4, OneOfEachOfThem
<1>8. OneOfEach'
  BY <1>6, <1>7 DEF OneOfEach, Users, Opened
<1> QED
  BY <1>1, <1>2, <1>3, <1>8

\* A row that fits is like none of those there are, if the session has opened
\* none itself.
LEMMA FitsIsNew ==
  ASSUME NEW s \in Servers, NEW a \in Account, AccountFits(s, a),
         pending[s].accounts = {}
  PROVE  \A b \in Opened : ~SamePair(a, b) /\ a.iban # b.iban
<1>1. \A b \in accounts : ~SamePair(a, b) /\ a.iban # b.iban
  BY DEF AccountFits, PairTaken, IbanTaken
<1>2. ASSUME NEW t \in Servers, NEW b \in pending[t].accounts
      PROVE  ~SamePair(a, b) /\ a.iban # b.iban
  BY <1>2 DEF AccountFits, AccountBlockers
<1> QED
  BY <1>1, <1>2 DEF Opened

\* So adding it keeps every pair and every IBAN given out once.
LEMMA FittingRow ==
  ASSUME OneOfEach, NEW s \in Servers, NEW a \in Account, AccountFits(s, a),
         pending[s].accounts = {},
         Users' \subseteq Users, Opened' \subseteq Opened \cup {a}
  PROVE  OneOfEach'
<1>1. \A u, v \in Users' : SameUser(u, v) => u = v
  BY OneOfEachOfThem
<1>2. \A b \in Opened : ~SamePair(a, b) /\ a.iban # b.iban
  BY FitsIsNew
<1>3. \A b, c \in Opened' : SamePair(b, c) \/ b.iban = c.iban => b = c
  BY <1>2, OneOfEachOfThem DEF SamePair
<1> QED
  BY <1>1, <1>3 DEF OneOfEach, Users, Opened

\* INSERT INTO accounts inside a transaction.
LEMMA AccountAdded ==
  ASSUME DirectoryTypeOK, OneOfEach, NEW s \in Servers, NEW a \in Account,
         AddAccount(s, a), pending[s].accounts = {}
  PROVE  /\ DirectoryTypeOK' /\ OneOfEach' /\ UNCHANGED <<users, accounts>>
         /\ pending'[s] = [users |-> pending[s].users, accounts |-> {a}]
         /\ \A t \in Servers \ {s} : pending'[t] = pending[t]
<1>1. /\ UNCHANGED <<users, accounts>> /\ AccountFits(s, a)
      /\ pending' = [pending EXCEPT ![s].accounts = @ \cup {a}]
  BY DEF AddAccount
<1>2. /\ pending'[s] = [users |-> pending[s].users, accounts |-> {a}]
      /\ \A t \in Servers \ {s} : pending'[t] = pending[t]
  BY <1>1 DEF DirectoryTypeOK
<1>3. DirectoryTypeOK'
  BY <1>1 DEF DirectoryTypeOK
<1>4. Users' \subseteq Users /\ Opened' \subseteq Opened \cup {a}
  BY <1>1, <1>2 DEF Users, Opened
<1> QED
  BY <1>1, <1>2, <1>3, <1>4, FittingRow

\* INSERT INTO accounts on its own.
LEMMA AccountAddedAlone ==
  ASSUME DirectoryTypeOK, OneOfEach, Provisioned, NEW s \in Servers,
         NEW a \in Account, AddAccountAlone(s, a), pending[s] = Nothing
  PROVE  /\ DirectoryTypeOK' /\ OneOfEach' /\ Provisioned'
         /\ UNCHANGED <<users, pending>>
         /\ accounts \subseteq accounts'
<1>1. /\ UNCHANGED <<users, pending>> /\ AccountFits(s, a)
      /\ accounts' = accounts \cup {a}
  BY DEF AddAccountAlone
<1>2. DirectoryTypeOK'
  BY <1>1 DEF DirectoryTypeOK
<1>3. Provisioned'
  BY <1>1 DEF Provisioned
<1>4. Users' \subseteq Users /\ Opened' \subseteq Opened \cup {a}
  BY <1>1 DEF Users, Opened
<1>5. pending[s].accounts = {}
  BY DEF Nothing
<1> QED
  BY <1>1, <1>2, <1>3, <1>4, <1>5, FittingRow

\* COMMIT of a registration: the user comes with its account.
LEMMA RowsCommitted ==
  ASSUME DirectoryTypeOK, OneOfEach, Provisioned, NEW s \in Servers,
         CommitRows(s),
         \A u \in pending[s].users :
           \E a \in pending[s].accounts : IsDefault(a, u)
  PROVE  /\ DirectoryTypeOK' /\ OneOfEach' /\ Provisioned'
         /\ users \subseteq users' /\ accounts \subseteq accounts'
         /\ pending'[s] = Nothing
         /\ \A t \in Servers \ {s} : pending'[t] = pending[t]
<1>1. /\ users' = users \cup pending[s].users
      /\ accounts' = accounts \cup pending[s].accounts
      /\ pending' = [pending EXCEPT ![s] = Nothing]
  BY DEF CommitRows
<1>2. /\ pending'[s] = Nothing
      /\ \A t \in Servers \ {s} : pending'[t] = pending[t]
  BY <1>1 DEF DirectoryTypeOK
<1>3. DirectoryTypeOK'
  BY <1>1 DEF DirectoryTypeOK, Nothing
<1>4. Provisioned'
  BY <1>1 DEF Provisioned
<1>5. Users' \subseteq Users /\ Opened' \subseteq Opened
  BY <1>1, <1>2 DEF Users, Opened, Nothing
<1> QED
  BY <1>1, <1>2, <1>3, <1>4, <1>5, NoNewRow

\* ROLLBACK.
LEMMA RowsDropped ==
  ASSUME DirectoryTypeOK, OneOfEach, NEW s \in Servers, DropRows(s)
  PROVE  /\ DirectoryTypeOK' /\ OneOfEach' /\ UNCHANGED <<users, accounts>>
         /\ pending'[s] = Nothing
         /\ \A t \in Servers \ {s} : pending'[t] = pending[t]
<1>1. /\ UNCHANGED <<users, accounts>>
      /\ pending' = [pending EXCEPT ![s] = Nothing]
  BY DEF DropRows
<1>2. /\ pending'[s] = Nothing
      /\ \A t \in Servers \ {s} : pending'[t] = pending[t]
  BY <1>1 DEF DirectoryTypeOK
<1>3. DirectoryTypeOK'
  BY <1>1 DEF DirectoryTypeOK, Nothing
<1>4. Users' \subseteq Users /\ Opened' \subseteq Opened
  BY <1>1, <1>2 DEF Users, Opened, Nothing
<1> QED
  BY <1>1, <1>2, <1>3, <1>4, NoNewRow

-----------------------------------------------------------------------------
\* Steps of one server.

LocalTypeOK ==
  /\ pc \in [Servers -> Labels]
  /\ req \in [Servers -> Requests \cup {NoRequest}]
  /\ iban \in [Servers -> Ibans \cup {NoIban}]
  /\ attempt \in [Servers -> 0..MaxRetries]
  /\ reply \in [Servers -> Replies]
  /\ entered \in [Servers -> BOOLEAN]

\* What another server has in memory and in its transaction.
Same(t) ==
  /\ pc'[t] = pc[t] /\ req'[t] = req[t] /\ iban'[t] = iban[t]
  /\ attempt'[t] = attempt[t] /\ reply'[t] = reply[t]
  /\ entered'[t] = entered[t] /\ pending'[t] = pending[t]

\* The state everything starts in satisfies the invariant.
LEMMA InitInductive == Init => Inductive
<1> SUFFICES ASSUME Init PROVE Inductive
  OBVIOUS
<1>1. TypeOK
  BY DirectoryAssumption, OnboardingAssumption
  DEF Init, DirectoryInit, TypeOK, DirectoryTypeOK, Nothing, Labels, Replies
<1>2. Provisioned
  BY DirectoryAssumption DEF Init, DirectoryInit, Provisioned
<1>3. OneOfEach
  <2>1. Users = FirstUsers /\ Opened = FirstAccounts
    BY DEF Init, DirectoryInit, Users, Opened, Nothing
  <2> QED
    BY <2>1, DirectoryAssumption, OneOfEachOfThem
<1>4. \A s \in Servers : Sound(s)
  BY DEF Init, DirectoryInit, Sound, RequestSound, PendingSound, AnswerSound
<1> QED
  BY <1>1, <1>2, <1>3, <1>4 DEF Inductive

\* A server stays sound while others add rows: a duplicate remains one.
LEMMA Untouched ==
  ASSUME NEW t \in Servers, Sound(t), Same(t),
         users \subseteq users', accounts \subseteq accounts'
  PROVE  Sound(t)'
<1>1. RequestSound(t)'
  BY DEF Sound, RequestSound, Same
<1>2. PendingSound(t)'
  BY DEF Sound, PendingSound, Same, NewUser, NewAccount, Nothing
<1>3. Duplicate(t) => Duplicate(t)'
  BY DEF Duplicate, UserTaken, PairTaken, NewUser, NewAccount, Same
<1>4. AnswerSound(t)'
  BY <1>3 DEF Sound, AnswerSound, Same
<1> QED
  BY <1>1, <1>2, <1>4 DEF Sound

\* So a step keeps the invariant if it does what it must for its own server
\* and for the tables.
LEMMA StepInductive ==
  ASSUME Inductive, NEW s \in Servers, DirectoryTypeOK', LocalTypeOK',
         OneOfEach', Provisioned', Sound(s)',
         users \subseteq users', accounts \subseteq accounts',
         \A t \in Servers \ {s} : Same(t)
  PROVE  Inductive'
<1>1. TypeOK'
  BY DEF TypeOK, LocalTypeOK
<1>2. \A t \in Servers \ {s} : Sound(t)'
  BY Untouched DEF Inductive
<1> QED
  BY <1>1, <1>2 DEF Inductive

\* The tables as they are keep what holds of them.
LEMMA SameTables ==
  ASSUME Inductive, UNCHANGED dir
  PROVE  /\ DirectoryTypeOK' /\ OneOfEach' /\ Provisioned'
         /\ users \subseteq users' /\ accounts \subseteq accounts'
<1>1. UNCHANGED <<users, accounts, pending>>
  BY DEF dir
<1>2. DirectoryTypeOK' /\ Provisioned'
  BY <1>1 DEF Inductive, TypeOK, DirectoryTypeOK, Provisioned
<1>3. Users' = Users /\ Opened' = Opened
  BY <1>1 DEF Users, Opened
<1>4. OneOfEach'
  BY <1>3, NoNewRow DEF Inductive
<1> QED
  BY <1>1, <1>2, <1>4

\* Going on to another statement that finds no transaction open.
LEMMA MoveInductive ==
  ASSUME Inductive, NEW s \in Servers,
         NEW label \in {"email", "tag", "reserve", "insertUser", "pair", "iban",
                        "open"},
         pc' = [pc EXCEPT ![s] = label],
         UNCHANGED <<dir, req, reply, entered>>,
         iban' \in [Servers -> Ibans \cup {NoIban}],
         attempt' \in [Servers -> 0..MaxRetries],
         \A t \in Servers \ {s} : iban'[t] = iban[t] /\ attempt'[t] = attempt[t],
         pending[s] = Nothing, ~entered[s], RequestSound(s)'
  PROVE  Inductive'
<1>1. LocalTypeOK'
  BY DEF Inductive, TypeOK, LocalTypeOK, Labels
<1>2. pc'[s] = label /\ ~entered'[s] /\ pending'[s] = Nothing
  BY DEF Inductive, TypeOK, dir
<1>3. Sound(s)'
  BY <1>2 DEF Sound, PendingSound, AnswerSound, Nothing
<1>4. \A t \in Servers \ {s} : Same(t)
  BY DEF Same, Inductive, TypeOK, dir
<1> QED
  BY <1>1, <1>3, <1>4, SameTables, StepInductive

\* Answering, with no transaction open.
LEMMA RefuseInductive ==
  ASSUME Inductive, NEW s \in Servers, NEW answer \in Replies,
         Refuse(s, answer), UNCHANGED <<dir, attempt>>,
         pending[s] = Nothing, answer = "ok" => entered[s],
         answer \in {"conflict", "invalid"} => ~entered[s],
         answer = "conflict" => Duplicate(s)
  PROVE  Inductive'
<1>1. LocalTypeOK'
  BY DEF Refuse, Leave, Inductive, TypeOK, LocalTypeOK, Labels
<1>2. /\ pc'[s] = "idle" /\ reply'[s] = answer /\ entered'[s] = entered[s]
      /\ req'[s] = req[s] /\ attempt'[s] = attempt[s]
      /\ pending'[s] = Nothing
  BY DEF Refuse, Leave, Inductive, TypeOK, dir
<1>3. Duplicate(s) => Duplicate(s)'
  BY <1>2 DEF Duplicate, UserTaken, PairTaken, NewUser, NewAccount, dir
<1>4. Sound(s)'
  BY <1>2, <1>3 DEF Sound, RequestSound, PendingSound, AnswerSound, Nothing
<1>5. \A t \in Servers \ {s} : Same(t)
  BY DEF Refuse, Leave, Same, Inductive, TypeOK, dir
<1> QED
  BY <1>1, <1>4, <1>5, SameTables, StepInductive

\* Failing inside a transaction.
LEMMA FailInductive ==
  ASSUME Inductive, NEW s \in Servers, NEW answer \in {"none", "failed"},
         Leave(s, "rollback", answer), UNCHANGED <<dir, attempt, entered>>,
         ~entered[s]
  PROVE  Inductive'
<1>1. LocalTypeOK'
  BY DEF Leave, Inductive, TypeOK, LocalTypeOK, Labels, Replies
<1>2. pc'[s] = "rollback" /\ reply'[s] = answer /\ ~entered'[s]
  BY DEF Leave, Inductive, TypeOK
<1>3. Sound(s)'
  BY <1>2 DEF Sound, RequestSound, PendingSound, AnswerSound
<1>4. \A t \in Servers \ {s} : Same(t)
  BY DEF Leave, Same, Inductive, TypeOK, dir
<1> QED
  BY <1>1, <1>3, <1>4, SameTables, StepInductive

\* Another turn of the loop that opens an account, or its end.
LEMMA TurnInductive ==
  ASSUME Inductive, NEW s \in Servers, NEW exhausted \in {"conflict", "failed"},
         AnotherTurn(s, exhausted), UNCHANGED dir,
         pc[s] \in {"pair", "iban", "open"}
  PROVE  Inductive'
<1>1. /\ pending[s] = Nothing /\ ~entered[s]
      /\ req[s] \in Requests /\ req[s].op = "open"
  BY DEF Inductive, Sound, PendingSound, AnswerSound, RequestSound
<1>2. attempt \in [Servers -> 0..MaxRetries] /\ MaxRetries \in Nat
  BY OnboardingAssumption DEF Inductive, TypeOK
<1>3. CASE attempt[s] < MaxRetries
  <2> DEFINE label == IF Backend[s] = "C" THEN "iban" ELSE "open"
  <2>1. /\ pc' = [pc EXCEPT ![s] = label] /\ UNCHANGED <<req, iban, reply, entered>>
        /\ attempt' = [attempt EXCEPT ![s] = @ + 1]
    BY <1>3 DEF AnotherTurn, GoTo
  <2>2. attempt' \in [Servers -> 0..MaxRetries]
    BY <1>2, <1>3, <2>1
  <2>3. pc'[s] = label /\ req'[s] = req[s]
    BY <2>1 DEF Inductive, TypeOK
  <2>4. RequestSound(s)'
    BY <1>1, <2>3 DEF RequestSound
  <2>5. /\ iban' \in [Servers -> Ibans \cup {NoIban}]
        /\ \A t \in Servers \ {s} : iban'[t] = iban[t] /\ attempt'[t] = attempt[t]
    BY <1>2, <2>1 DEF Inductive, TypeOK
  <2> QED
    BY <1>1, <2>1, <2>2, <2>4, <2>5, MoveInductive
<1>4. CASE ~(attempt[s] < MaxRetries)
  <2>1. Refuse(s, exhausted) /\ UNCHANGED attempt
    BY <1>4 DEF AnotherTurn
  <2>2. Duplicate(s)
    BY <1>1, <1>2, <1>4 DEF Duplicate
  <2> QED
    BY <1>1, <2>1, <2>2, RefuseInductive DEF Replies
<1> QED
  BY <1>3, <1>4

-----------------------------------------------------------------------------
\* Each action keeps the invariant.

\* Taking a request.
LEMMA AcceptInductive ==
  ASSUME Inductive, NEW s \in Servers, Accept(s)
  PROVE  Inductive'
<1>1. PICK q \in Requests :
        /\ req' = [req EXCEPT ![s] = q]
        /\ pc' = [pc EXCEPT ![s] = IF q.op = "open" THEN "pair" ELSE "email"]
  BY DEF Accept
<1>2. q.op \in {"register", "open"}
  BY OnboardingAssumption DEF Registration, Opening
<1>3. pending[s] = Nothing
  BY DEF Accept, Inductive, Sound, PendingSound
<1>4. LocalTypeOK'
  BY <1>1, OnboardingAssumption
  DEF Accept, Inductive, TypeOK, LocalTypeOK, Labels, Replies
<1>5. /\ pc'[s] = IF q.op = "open" THEN "pair" ELSE "email"
      /\ req'[s] = q /\ ~entered'[s] /\ pending'[s] = Nothing
  BY <1>1, <1>3 DEF Accept, Inductive, TypeOK, dir
<1>6. Sound(s)'
  BY <1>2, <1>5 DEF Sound, RequestSound, PendingSound, AnswerSound, Nothing
<1>7. \A t \in Servers \ {s} : Same(t)
  BY <1>1 DEF Accept, Same, Inductive, TypeOK, dir
<1> QED
  BY <1>4, <1>6, <1>7, SameTables, StepInductive DEF Accept

\* Going on to another lookup, or to the first INSERT.
LEMMA GoToInductive ==
  ASSUME Inductive, NEW s \in Servers, NEW label \in {"tag", "reserve"},
         GoTo(s, label), UNCHANGED <<dir, attempt>>,
         pc[s] \in {"email", "tag", "reserve"}
  PROVE  Inductive'
<1>1. /\ pending[s] = Nothing /\ ~entered[s]
      /\ req[s] \in Requests /\ req[s].op = "register"
  BY DEF Inductive, Sound, PendingSound, AnswerSound, RequestSound
<1>2. /\ pc' = [pc EXCEPT ![s] = label] /\ pc'[s] = label
      /\ UNCHANGED <<req, iban, reply, entered>>
  BY DEF GoTo, Inductive, TypeOK
<1>3. RequestSound(s)'
  BY <1>1, <1>2 DEF RequestSound
<1> QED
  BY <1>1, <1>2, <1>3, MoveInductive DEF Inductive, TypeOK

\* Going on to an INSERT with a free IBAN.
LEMMA GoWithInductive ==
  ASSUME Inductive, NEW s \in Servers, NEW label \in {"insertUser", "open"},
         NEW i \in Ibans, GoWith(s, label, i),
         UNCHANGED <<dir, attempt>>,
         pc[s] = IF label = "open" THEN "iban" ELSE "reserve"
  PROVE  Inductive'
<1>1. /\ pending[s] = Nothing /\ ~entered[s] /\ req[s] \in Requests
      /\ req[s].op = IF label = "open" THEN "open" ELSE "register"
  BY DEF Inductive, Sound, PendingSound, AnswerSound, RequestSound
<1>2. /\ pc' = [pc EXCEPT ![s] = label] /\ pc'[s] = label
      /\ iban' = [iban EXCEPT ![s] = i] /\ iban'[s] = i
      /\ UNCHANGED <<req, reply, entered>>
  BY DEF GoWith, Inductive, TypeOK
<1>3. RequestSound(s)'
  BY <1>1, <1>2 DEF RequestSound
<1> QED
  BY <1>1, <1>2, <1>3, MoveInductive DEF Inductive, TypeOK

\* The lookup of the e-mail: what it finds is a duplicate.
LEMMA CheckEmailInductive ==
  ASSUME Inductive, NEW s \in Servers, CheckEmail(s)
  PROVE  Inductive'
<1>1. /\ pending[s] = Nothing /\ ~entered[s] /\ req[s].op = "register"
  BY DEF CheckEmail, Inductive, Sound, PendingSound, AnswerSound, RequestSound,
         TypeOK
<1>2. CASE Refuse(s, "invalid")
  BY <1>1, <1>2, RefuseInductive DEF CheckEmail, Replies
<1>3. CASE EmailFound(s) /\ Refuse(s, "conflict")
  <2>1. Duplicate(s)
    BY <1>1, <1>3 DEF EmailFound, Duplicate, UserTaken, SameUser, NewUser
  <2> QED
    BY <1>1, <1>3, <2>1, RefuseInductive DEF CheckEmail, Replies
<1>4. CASE GoTo(s, "tag")
  BY <1>4, GoToInductive DEF CheckEmail
<1> QED
  BY <1>2, <1>3, <1>4 DEF CheckEmail

\* So is what the lookup of the tag finds.
LEMMA CheckTagInductive ==
  ASSUME Inductive, NEW s \in Servers, CheckTag(s)
  PROVE  Inductive'
<1>1. /\ pending[s] = Nothing /\ ~entered[s] /\ req[s].op = "register"
  BY DEF CheckTag, Inductive, Sound, PendingSound, AnswerSound, RequestSound,
         TypeOK
<1>2. CASE Refuse(s, "invalid")
  BY <1>1, <1>2, RefuseInductive DEF CheckTag, Replies
<1>3. CASE TagFound(s) /\ Refuse(s, "conflict")
  <2>1. Duplicate(s)
    BY <1>1, <1>3 DEF TagFound, Duplicate, UserTaken, SameUser, NewUser
  <2> QED
    BY <1>1, <1>3, <2>1, RefuseInductive DEF CheckTag, Replies
<1>4. CASE GoTo(s, "reserve")
  BY <1>4, GoToInductive DEF CheckTag
<1> QED
  BY <1>2, <1>3, <1>4 DEF CheckTag

\* A turn of the loop that looks for an IBAN.
LEMMA ReserveIbanInductive ==
  ASSUME Inductive, NEW s \in Servers, ReserveIban(s)
  PROVE  Inductive'
<1>1. PICK i \in Ibans : GoTo(s, "reserve") \/ GoWith(s, "insertUser", i)
  BY DEF ReserveIban
<1>2. CASE GoTo(s, "reserve")
  BY <1>2, GoToInductive DEF ReserveIban
<1>3. CASE GoWith(s, "insertUser", i)
  BY <1>3, GoWithInductive DEF ReserveIban
<1> QED
  BY <1>1, <1>2, <1>3

\* BEGIN and the INSERT of the user, or its refusal.
LEMMA InsertUserInductive ==
  ASSUME Inductive, NEW s \in Servers, InsertUser(s)
  PROVE  Inductive'
<1>1. /\ pc[s] = "insertUser" /\ pending[s] = Nothing /\ ~entered[s]
      /\ req[s] \in Requests /\ req[s].op = "register" /\ iban[s] \in Ibans
  BY DEF InsertUser, Inductive, Sound, PendingSound, AnswerSound, RequestSound
<1>2. CASE /\ AddUser(s, NewUser(s)) /\ GoTo(s, "insertAccount")
           /\ UNCHANGED attempt
  <2>1. /\ DirectoryTypeOK' /\ OneOfEach' /\ UNCHANGED <<users, accounts>>
        /\ pending'[s] = [users |-> {NewUser(s)}, accounts |-> {}]
        /\ \A t \in Servers \ {s} : pending'[t] = pending[t]
    BY <1>1, <1>2, NewRows, UserAdded DEF Inductive, TypeOK
  <2>2. LocalTypeOK'
    BY <1>2 DEF GoTo, Inductive, TypeOK, LocalTypeOK, Labels
  <2>3. /\ pc'[s] = "insertAccount" /\ UNCHANGED <<req, iban, entered>>
        /\ NewUser(s)' = NewUser(s)
    BY <1>2 DEF GoTo, Inductive, TypeOK, NewUser
  <2>4. Sound(s)'
    BY <1>1, <2>1, <2>3 DEF Sound, RequestSound, PendingSound, AnswerSound
  <2>5. \A t \in Servers \ {s} : Same(t)
    BY <1>2, <2>1 DEF GoTo, Same, Inductive, TypeOK
  <2>6. Provisioned'
    BY <2>1 DEF Inductive, Provisioned
  <2> QED
    BY <2>1, <2>2, <2>4, <2>5, <2>6, StepInductive
<1>3. CASE /\ Leave(s, "rollback", "failed") /\ UNCHANGED <<dir, entered, attempt>>
  BY <1>1, <1>3, FailInductive
<1> QED
  BY <1>2, <1>3 DEF InsertUser

\* The INSERT of the default account, or its refusal.
LEMMA InsertAccountInductive ==
  ASSUME Inductive, NEW s \in Servers, InsertAccount(s)
  PROVE  Inductive'
<1> DEFINE a == NewAccount(s, iban[s])
<1>1. /\ pc[s] = "insertAccount" /\ ~entered[s]
      /\ pending[s].users = {NewUser(s)} /\ pending[s].accounts = {}
      /\ req[s] \in Requests /\ req[s].op = "register" /\ iban[s] \in Ibans
  <2>1. pc[s] = "insertAccount"
    BY DEF InsertAccount
  <2>2. RequestSound(s) /\ PendingSound(s) /\ AnswerSound(s)
    BY DEF Inductive, Sound
  <2>3. req[s] \in Requests /\ req[s].op = "register" /\ iban[s] \in Ibans
    BY <2>1, <2>2 DEF RequestSound
  <2>4. ~entered[s]
    BY <2>1, <2>2 DEF AnswerSound, PendingSound
  <2>5. pending[s].users = {NewUser(s)} /\ pending[s].accounts = {}
    BY <2>1, <2>2 DEF PendingSound
  <2> QED
    BY <2>1, <2>3, <2>4, <2>5
<1>2. CASE AddAccount(s, a) /\ GoTo(s, "commit") /\ UNCHANGED attempt
  <2>1. /\ DirectoryTypeOK' /\ OneOfEach' /\ UNCHANGED <<users, accounts>>
        /\ pending'[s] = [users |-> {NewUser(s)}, accounts |-> {a}]
        /\ \A t \in Servers \ {s} : pending'[t] = pending[t]
    <3>1. a \in Account
      BY <1>1, NewRows
    <3>2. AddAccount(s, a)
      BY <1>2
    <3> HIDE DEF a
    <3> QED
      BY <1>1, <3>1, <3>2, AccountAdded DEF Inductive, TypeOK
  <2>2. LocalTypeOK'
    BY <1>2 DEF GoTo, Inductive, TypeOK, LocalTypeOK, Labels
  <2>3. /\ pc'[s] = "commit" /\ UNCHANGED <<req, iban, entered>>
        /\ NewUser(s)' = NewUser(s) /\ a' = a
    BY <1>2 DEF GoTo, Inductive, TypeOK, NewUser, NewAccount
  <2>4. Sound(s)'
    BY <1>1, <2>1, <2>3 DEF Sound, RequestSound, PendingSound, AnswerSound
  <2>5. \A t \in Servers \ {s} : Same(t)
    BY <1>2, <2>1 DEF GoTo, Same, Inductive, TypeOK
  <2>6. Provisioned'
    BY <2>1 DEF Inductive, Provisioned
  <2> QED
    BY <2>1, <2>2, <2>4, <2>5, <2>6, StepInductive
<1>3. CASE /\ RefusedBy(a) # "none"
           /\ Leave(s, "rollback", "failed") /\ UNCHANGED <<dir, entered, attempt>>
  BY <1>1, <1>3, FailInductive
<1> QED
  BY <1>2, <1>3 DEF InsertAccount

\* COMMIT of a registration and INSERT of an account on its own, whatever
\* becomes of the answer.
LEMMA LandsInductive ==
  ASSUME Inductive, NEW s \in Servers, Lands(s),
         NEW answer \in {"none", "ok", "failed"}, Leave(s, "idle", answer),
         UNCHANGED attempt
  PROVE  Inductive'
<1>1. /\ DirectoryTypeOK' /\ OneOfEach' /\ Provisioned'
      /\ users \subseteq users' /\ accounts \subseteq accounts'
      /\ pending'[s] = Nothing
      /\ \A t \in Servers \ {s} : pending'[t] = pending[t]
  <2>1. CASE pc[s] = "commit" /\ CommitRows(s)
    <3>1. /\ pending[s] = [users |-> {NewUser(s)},
                           accounts |-> {NewAccount(s, iban[s])}]
          /\ req[s] \in Requests /\ req[s].op = "register" /\ iban[s] \in Ibans
      BY <2>1 DEF Inductive, Sound, PendingSound, RequestSound
    <3>2. \A u \in pending[s].users :
            \E a \in pending[s].accounts : IsDefault(a, u)
      BY <3>1, NewRows
    <3> QED
      BY <2>1, <3>2, RowsCommitted DEF Inductive, TypeOK
  <2>2. CASE pc[s] = "open"
    <3>1. /\ pending[s] = Nothing /\ req[s] \in Requests
          /\ Backend[s] = "C" => iban[s] \in Ibans
      BY <2>2 DEF Inductive, Sound, PendingSound, RequestSound
    <3>2. PICK i \in Ibans : AddAccountAlone(s, NewAccount(s, i))
      BY <2>2, <3>1 DEF Lands
    <3>3. NewAccount(s, i) \in Account
      BY <3>1, NewRows
    <3> QED
      BY <3>1, <3>2, <3>3, AccountAddedAlone DEF Inductive, TypeOK
  <2> QED
    BY <2>1, <2>2 DEF Lands
<1>2. entered' = [entered EXCEPT ![s] = TRUE]
  BY DEF Lands
<1>3. LocalTypeOK'
  BY <1>2 DEF Leave, Inductive, TypeOK, LocalTypeOK, Labels, Replies
<1>4. pc'[s] = "idle" /\ reply'[s] = answer /\ entered'[s]
  BY <1>2 DEF Leave, Inductive, TypeOK
<1>5. Sound(s)'
  BY <1>1, <1>4
  DEF Sound, RequestSound, PendingSound, AnswerSound, Nothing
<1>6. \A t \in Servers \ {s} : Same(t)
  BY <1>1, <1>2 DEF Leave, Same, Inductive, TypeOK
<1> QED
  BY <1>1, <1>3, <1>5, <1>6, StepInductive

\* COMMIT of a registration whose result comes back.
LEMMA CommitInductive ==
  ASSUME Inductive, NEW s \in Servers, Commit(s)
  PROVE  Inductive'
<1>1. Lands(s) /\ Leave(s, "idle", "ok") /\ UNCHANGED attempt
  BY DEF Commit, Lands
<1> QED
  BY <1>1, LandsInductive

\* Rows dropped with the transaction, and the answer that was decided before.
LEMMA DropInductive ==
  ASSUME Inductive, NEW s \in Servers, DropRows(s),
         NEW answer \in {"none", "failed"}, Leave(s, "idle", answer),
         UNCHANGED <<attempt, entered>>
  PROVE  Inductive'
<1>1. /\ DirectoryTypeOK' /\ OneOfEach' /\ UNCHANGED <<users, accounts>>
      /\ pending'[s] = Nothing
      /\ \A t \in Servers \ {s} : pending'[t] = pending[t]
  BY RowsDropped DEF Inductive, TypeOK
<1>2. LocalTypeOK'
  BY DEF Leave, Inductive, TypeOK, LocalTypeOK, Labels, Replies
<1>3. pc'[s] = "idle" /\ reply'[s] = answer
  BY DEF Leave, Inductive, TypeOK
<1>4. Sound(s)'
  BY <1>1, <1>3
  DEF Sound, RequestSound, PendingSound, AnswerSound, Nothing
<1>5. \A t \in Servers \ {s} : Same(t)
  BY <1>1 DEF Leave, Same, Inductive, TypeOK
<1>6. Provisioned'
  BY <1>1 DEF Inductive, Provisioned
<1> QED
  BY <1>1, <1>2, <1>4, <1>5, <1>6, StepInductive

\* ROLLBACK.
LEMMA RollbackInductive ==
  ASSUME Inductive, NEW s \in Servers, Rollback(s)
  PROVE  Inductive'
<1>1. reply[s] \in {"none", "failed"}
  BY DEF Rollback, Inductive, Sound, AnswerSound
<1> QED
  BY <1>1, DropInductive DEF Rollback, Refuse

\* The lookup of type and currency.
LEMMA CheckPairInductive ==
  ASSUME Inductive, NEW s \in Servers, CheckPair(s)
  PROVE  Inductive'
<1>1. /\ pc[s] = "pair" /\ pending[s] = Nothing /\ ~entered[s]
      /\ req[s].op = "open"
  BY DEF CheckPair, Inductive, Sound, PendingSound, AnswerSound, RequestSound,
         TypeOK
<1>2. CASE Refuse(s, "invalid") /\ UNCHANGED attempt
  BY <1>1, <1>2, RefuseInductive DEF CheckPair, Replies
<1>3. CASE /\ PairTaken(NewAccount(s, NoIban))
           /\ Refuse(s, "conflict") /\ UNCHANGED attempt
  <2>1. Duplicate(s)
    BY <1>1, <1>3 DEF Duplicate
  <2> QED
    BY <1>1, <1>3, <2>1, RefuseInductive DEF CheckPair, Replies
<1>4. CASE AnotherTurn(s, "conflict")
  BY <1>1, <1>4, TurnInductive DEF CheckPair
<1> QED
  BY <1>2, <1>3, <1>4 DEF CheckPair

\* The lookup of the IBAN.
LEMMA CheckIbanInductive ==
  ASSUME Inductive, NEW s \in Servers, CheckIban(s)
  PROVE  Inductive'
<1>1. pc[s] = "iban" /\ UNCHANGED dir
  BY DEF CheckIban, Inductive, TypeOK
<1>2. PICK i \in Ibans : \/ AnotherTurn(s, "conflict")
                         \/ GoWith(s, "open", i) /\ UNCHANGED attempt
  BY DEF CheckIban
<1>3. CASE AnotherTurn(s, "conflict")
  BY <1>1, <1>3, TurnInductive
<1>4. CASE GoWith(s, "open", i) /\ UNCHANGED attempt
  BY <1>1, <1>4, GoWithInductive DEF CheckIban
<1> QED
  BY <1>2, <1>3, <1>4

\* INSERT of an account that is entered; the handler goes on to read it back.
LEMMA OpenAccountInductive ==
  ASSUME Inductive, NEW s \in Servers, NEW i \in Ibans, pc[s] = "open",
         OpenAccount(s, NewAccount(s, i))
  PROVE  Inductive'
<1>1. /\ pending[s] = Nothing /\ req[s] \in Requests /\ req[s].op = "open"
  BY DEF Inductive, Sound, PendingSound, RequestSound
<1>2. /\ DirectoryTypeOK' /\ OneOfEach' /\ Provisioned'
      /\ UNCHANGED <<users, pending>> /\ accounts \subseteq accounts'
  BY <1>1, NewRows, AccountAddedAlone DEF OpenAccount, Inductive, TypeOK
<1>3. LocalTypeOK'
  BY DEF OpenAccount, Inductive, TypeOK, LocalTypeOK, Labels
<1>4. /\ pc'[s] = "load" /\ entered'[s] /\ req'[s] = req[s]
      /\ pending'[s] = Nothing
  BY <1>1, <1>2 DEF OpenAccount, Inductive, TypeOK
<1>5. Sound(s)'
  BY <1>1, <1>4 DEF Sound, RequestSound, PendingSound, AnswerSound
<1>6. \A t \in Servers \ {s} : Same(t)
  BY <1>2 DEF OpenAccount, Same, Inductive, TypeOK
<1> QED
  BY <1>2, <1>3, <1>5, <1>6, StepInductive

\* The INSERT of the C service: any refusal is taken for a used IBAN.
LEMMA OpenCInductive ==
  ASSUME Inductive, NEW s \in Servers, OpenC(s)
  PROVE  Inductive'
<1>1. pc[s] = "open" /\ iban[s] \in Ibans
  BY DEF OpenC, Inductive, Sound, RequestSound
<1>2. CASE OpenAccount(s, NewAccount(s, iban[s]))
  BY <1>1, <1>2, OpenAccountInductive
<1>3. CASE /\ RefusedBy(NewAccount(s, iban[s])) # "none"
           /\ AnotherTurn(s, "failed") /\ UNCHANGED dir
  BY <1>1, <1>3, TurnInductive
<1> QED
  BY <1>2, <1>3 DEF OpenC

\* The INSERT of the Rust service: it tells an IBAN from a duplicate.
LEMMA OpenRustInductive ==
  ASSUME Inductive, NEW s \in Servers, OpenRust(s)
  PROVE  Inductive'
<1>1. /\ pc[s] = "open" /\ pending[s] = Nothing /\ ~entered[s]
      /\ req[s].op = "open"
  BY DEF OpenRust, Inductive, Sound, PendingSound, AnswerSound, RequestSound
<1>2. PICK i \in Ibans :
        LET a == NewAccount(s, i)
        IN \/ OpenAccount(s, a)
           \/ /\ RefusedBy(a) # "none"
              /\ IF RefusedBy(a) = "iban" THEN AnotherTurn(s, "conflict")
                 ELSE Refuse(s, "conflict") /\ UNCHANGED attempt
              /\ UNCHANGED dir
  BY DEF OpenRust
<1> DEFINE a == NewAccount(s, i)
<1>3. CASE OpenAccount(s, a)
  BY <1>1, <1>3, OpenAccountInductive
<1>4. CASE /\ RefusedBy(a) # "none" /\ UNCHANGED dir
           /\ IF RefusedBy(a) = "iban" THEN AnotherTurn(s, "conflict")
              ELSE Refuse(s, "conflict") /\ UNCHANGED attempt
  <2>2. CASE AnotherTurn(s, "conflict")
    BY <1>1, <1>4, <2>2, TurnInductive
  <2>3. CASE PairTaken(a) /\ Refuse(s, "conflict") /\ UNCHANGED attempt
    <3>1. PairTaken(NewAccount(s, NoIban))
      BY <1>1, <2>3 DEF PairTaken, SamePair, NewAccount
    <3>2. Duplicate(s)
      BY <1>1, <3>1 DEF Duplicate
    <3> QED
      BY <1>1, <1>4, <2>3, <3>2, RefuseInductive DEF Replies
  <2> QED
    BY <1>4, <2>2, <2>3 DEF RefusedBy
<1> QED
  BY <1>2, <1>3, <1>4

\* Reading the new account back.
LEMMA LoadInductive ==
  ASSUME Inductive, NEW s \in Servers, Load(s)
  PROVE  Inductive'
<1>1. pending[s] = Nothing /\ entered[s]
  BY DEF Load, Inductive, Sound, PendingSound, AnswerSound, TypeOK
<1> QED
  BY <1>1, RefuseInductive DEF Load, Refuse, Replies

\* A statement that fails.
LEMMA StatementFailsInductive ==
  ASSUME Inductive, NEW s \in Servers, StatementFails(s)
  PROVE  Inductive'
<1>1. UNCHANGED dir
  BY DEF StatementFails, Inductive, TypeOK
<1>2. CASE /\ pc[s] \in {"email", "tag", "reserve", "pair", "iban", "open", "load"}
           /\ Refuse(s, "failed") /\ UNCHANGED attempt
  <2>1. pending[s] = Nothing
    BY <1>2 DEF Inductive, Sound, PendingSound
  <2> QED
    BY <1>1, <1>2, <2>1, RefuseInductive DEF Replies
<1>3. CASE /\ pc[s] \in {"insertUser", "insertAccount", "commit"}
           /\ Leave(s, "rollback", "failed") /\ UNCHANGED <<attempt, entered>>
  <2>1. ~entered[s]
    BY <1>3 DEF Inductive, Sound, AnswerSound
  <2> QED
    BY <1>1, <1>3, <2>1, FailInductive
<1>4. CASE pc[s] = "open" /\ AnotherTurn(s, "failed")
  BY <1>1, <1>4, TurnInductive
<1> QED
  BY <1>2, <1>3, <1>4 DEF StatementFails

\* A process or a client that goes away.
LEMMA GoneInductive ==
  ASSUME Inductive, NEW s \in Servers, Gone(s)
  PROVE  Inductive'
<1>1. CASE DropRows(s) /\ UNCHANGED entered /\ Leave(s, "idle", "none")
  BY <1>1, DropInductive DEF Gone
<1>2. CASE Lands(s) /\ Leave(s, "idle", "none")
  BY <1>2, LandsInductive DEF Gone
<1>3. CASE /\ pc[s] \in {"insertAccount", "commit"}
           /\ Leave(s, "rollback", "none") /\ UNCHANGED <<dir, entered>>
  <2>1. ~entered[s]
    BY <1>3 DEF Gone, Inductive, Sound, AnswerSound, TypeOK
  <2> QED
    BY <1>3, <2>1, FailInductive DEF Gone
<1> QED
  BY <1>1, <1>2, <1>3 DEF Gone

-----------------------------------------------------------------------------
\* The theorems.

\* The inductive invariant holds, whatever the servers, requests and failures
\* of registration and of opening accounts.
THEOREM InductiveHolds == Spec => []Inductive
<1>1. Inductive /\ [Next]_vars => Inductive'
  <2> SUFFICES ASSUME Inductive, [Next]_vars PROVE Inductive'
    OBVIOUS
  <2>1. ASSUME NEW s \in Servers, Serve(s) PROVE Inductive'
    BY <2>1, CheckEmailInductive, CheckTagInductive, ReserveIbanInductive,
       InsertUserInductive, InsertAccountInductive, CommitInductive,
       RollbackInductive, CheckPairInductive, CheckIbanInductive,
       OpenCInductive, OpenRustInductive, LoadInductive DEF Serve
  <2>2. ASSUME NEW s \in Servers, Fault(s) PROVE Inductive'
    BY <2>2, StatementFailsInductive, LandsInductive, GoneInductive
    DEF Fault, EffectUnseen
  <2>3. ASSUME UNCHANGED vars PROVE Inductive'
    <3>1. /\ LocalTypeOK' /\ UNCHANGED dir
          /\ \A t \in Servers : Same(t)
      BY <2>3 DEF vars, dir, Same, LocalTypeOK, Inductive, TypeOK
    <3>2. TypeOK'
      BY <3>1, SameTables DEF TypeOK, LocalTypeOK
    <3>3. \A t \in Servers : Sound(t)'
      BY <3>1, SameTables, Untouched DEF Inductive
    <3> QED
      BY <3>1, <3>2, <3>3, SameTables DEF Inductive
  <2> QED
    BY <2>1, <2>2, <2>3, AcceptInductive DEF Next
<1> QED
  BY InitInductive, <1>1, PTL DEF Spec

\* Every variable keeps its type; no loop of an open request makes more than
\* MaxRetries turns.
THEOREM TypeCorrect == Spec => []TypeOK
<1>1. Inductive => TypeOK
  BY DEF Inductive
<1> QED
  BY InductiveHolds, <1>1, PTL

\* No user is ever without the Regular account in RON (insert of user and
\* account in one transaction, user_service.c and user_repo.rs).
THEOREM ProvisionedHolds == Spec => []Provisioned
<1>1. Inductive => Provisioned
  BY DEF Inductive
<1> QED
  BY InductiveHolds, <1>1, PTL

\* A tag, an e-mail, an IBAN and a (type, currency) of a user are given out
\* once, however many servers of either backend pass the same check.
THEOREM OneOfEachHolds == Spec => []OneOfEach
<1>1. Inductive => OneOfEach
  BY DEF Inductive
<1> QED
  BY InductiveHolds, <1>1, PTL

\* Success is answered for what is there, a refusal for what is not, and a
\* conflict rests on a duplicate or on a loop that has run out.
THEOREM AnswerHonestHolds == Spec => []AnswerHonest
<1>1. Inductive => AnswerHonest
  BY DEF Inductive, Sound, AnswerSound, AnswerHonest
<1> QED
  BY InductiveHolds, <1>1, PTL
=============================================================================
