-------------------------- MODULE CTransactionsProof --------------------------
(****************************************************************************)
(* What holds of CTransactions for every set of processes, accounts and     *)
(* requests; that a single process implements the ledger; and that the books *)
(* of the ledger explain its balances.                                      *)
(****************************************************************************)
EXTENDS CTransactions, PostingProof, TLAPS

(***************************************************************************)
(* Arithmetic and data.                                                    *)
(***************************************************************************)

\* The guard amount <= INT64_MAX / 100 is enough for amount * 100 to fit.
LEMMA DivisionGuard ==
  ASSUME NEW n \in Nat, NEW c \in Nat \ {0}, NEW a \in Int,
         a > 0, a <= n \div c
  PROVE  a * c \in 1..n
<1> DEFINE d == n \div c
<1>1. d \in Int /\ c * d <= n
  BY Z3
<1>2. a * c <= d * c
  BY <1>1, Z3
<1>3. a * c >= 1
  BY Z3
<1> QED
  BY <1>1, <1>2, <1>3

\* The value of a request that passed the checks fits in a row.
LEMMA ValueInRange ==
  ASSUME NEW q \in Requests, Allowed(q)
  PROVE  Value(q) \in 1..MaxCents
<1>1. q \in Request /\ q.amount \in -MaxCents..MaxCents
  BY RequestsAssumption DEF Request
<1>2. MaxCents \in Nat /\ CentsPerUnit \in Nat \ {0}
  BY PostingAssumption, RequestsAssumption
<1>3. q.amount > 0 /\ (InUnits(q) => q.amount <= MaxCents \div CentsPerUnit)
  BY DEF Allowed, AmountValid
<1>4. CASE InUnits(q)
  BY <1>1, <1>2, <1>3, <1>4, DivisionGuard DEF Value
<1>5. CASE ~InUnits(q)
  BY <1>1, <1>2, <1>3, <1>5 DEF Value
<1> QED
  BY <1>4, <1>5

\* Such a request names two different accounts, and its row is a Row.
LEMMA RowOfRequest ==
  ASSUME NEW q \in Requests, Allowed(q)
  PROVE  /\ RowOf(q) \in Row
         /\ q.from \in Accounts /\ q.to \in Accounts /\ q.from # q.to
         /\ q.kind \in Kinds
<1>1. q \in Request
  BY RequestsAssumption
<1>2. q.from # q.to
  BY DEF Allowed
<1> QED
  BY <1>1, <1>2, ValueInRange DEF RowOf, Row, Request, BankMeets

\* A session with no transaction locks nothing and leaves Accounts alone.
LEMMA NoTxnIsEmpty ==
  /\ NoTxn \in Txn
  /\ \A a \in Accounts : NoTxn.wrote[a] = Unwritten
BY DEF NoTxn, Txn

-----------------------------------------------------------------------------
\* The state a process starts in satisfies the invariant.
LEMMA InitInductive == Init => Inductive
<1> SUFFICES ASSUME Init PROVE Inductive
  OBVIOUS
<1> USE PostingAssumption, RequestsAssumption, CTransactionsAssumption,
        NoTxnIsEmpty
<1>1. TypeOK
  BY DEF Init, DbInit, TypeOK, DbTypeOK, Cents, NoImage, Image, Labels,
         Replies
<1>2. \A a \in Accounts : balance[a] \in Cents
  BY DEF Init, DbInit, Cents
<1>3. ASSUME NEW s \in Servers PROVE Sound(s)
  <2>1. pc[s] = "idle" /\ txn[s] = NoTxn /\ img[s] = NoImage
        /\ reply[s] = "none" /\ link[s] = "up"
    BY DEF Init, DbInit
  <2> QED
    BY <2>1 DEF Sound, RequestSound, ImageSound, TxnSound, ReplySound, InTxn,
                Locks, NoImage, Cents
<1> QED
  BY <1>1, <1>2, <1>3 DEF Inductive

\* A process none of whose variables changes stays sound.
LEMMA Untouched ==
  ASSUME NEW t \in Servers, Sound(t), 
         pc'[t] = pc[t], req'[t] = req[t], img'[t] = img[t],
         link'[t] = link[t], reply'[t] = reply[t], entered'[t] = entered[t],
         txn'[t] = txn[t]
  PROVE  Sound(t)'
<1>1. Written(t)' = Written(t) /\ Locks(t)' = Locks(t)
  BY DEF Written, WroteFrom, WroteTo, Locks
<1> QED
  BY <1>1 DEF Sound, RequestSound, ImageSound, TxnSound, ReplySound

\* The ways a process goes on keep its own variables well typed.
LocalTypeOK ==
  /\ pc \in [Servers -> Labels]
  /\ req \in [Servers -> Requests \cup {NoRequest}]
  /\ img \in [Servers -> Image]
  /\ link \in [Servers -> {"up", "down"}]
  /\ reply \in [Servers -> Replies]

\* Answering a request, with any reply, keeps the local variables typed.
LEMMA AnswerTyped ==
  ASSUME LocalTypeOK, NEW s \in Servers, NEW answer \in Replies,
         Answer(s, answer)
  PROVE  LocalTypeOK'
BY DEF LocalTypeOK, Answer, Labels, NoImage, Image

\* So does giving a request up inside its transaction.
LEMMA GiveUpTyped ==
  ASSUME LocalTypeOK, NEW s \in Servers, NEW answer \in Replies,
         GiveUp(s, answer)
  PROVE  LocalTypeOK'
BY DEF LocalTypeOK, GiveUp, Labels, NoImage, Image

\* So does going on to the next statement.
LEMMA GoToTyped ==
  ASSUME LocalTypeOK, NEW s \in Servers, NEW label \in Labels,
         GoTo(s, label), img' \in [Servers -> Image]
  PROVE  LocalTypeOK'
BY DEF LocalTypeOK, GoTo

\* A process that has answered is sound if its transaction is over and the
\* answer is an honest one.
LEMMA AnswerSound ==
  ASSUME TypeOK, NEW s \in Servers, NEW answer \in Replies,
         Answer(s, answer), txn'[s] = NoTxn,
         answer = "ok" => entered'[s], answer = "rejected" => ~entered'[s]
  PROVE  Sound(s)'
<1>1. pc'[s] = "idle" /\ img'[s] = NoImage /\ reply'[s] = answer
      /\ req'[s] = NoRequest
  BY DEF Answer, TypeOK
<1>2. Locks(s)' = {}
  BY NoTxnIsEmpty DEF Locks
<1> QED
  BY <1>1, <1>2, PostingAssumption
  DEF Sound, RequestSound, ImageSound, TxnSound, ReplySound, InTxn, NoImage,
      Cents

\* So is one that gives up inside its transaction.
LEMMA GiveUpSound ==
  ASSUME TypeOK, NEW s \in Servers, Sound(s), pc[s] \in InTxn, link[s] = "up",
         NEW answer \in {"rejected", "failed"}, GiveUp(s, answer),
         txn'[s].wrote = txn[s].wrote
  PROVE  Sound(s)'
<1>1. /\ pc'[s] = "rollback" /\ img'[s] = NoImage /\ reply'[s] = answer
      /\ req'[s] = req[s] /\ link'[s] = "up" /\ entered'[s] = entered[s]
  BY DEF GiveUp, TypeOK
<1>2. Locks(s)' = Locks(s)
  BY DEF Locks
<1>3. req[s] \in Requests /\ Allowed(req[s]) /\ ~entered[s]
  BY DEF Sound, RequestSound, ReplySound, InTxn
<1> QED
  BY <1>1, <1>2, <1>3, PostingAssumption
  DEF Sound, RequestSound, ImageSound, TxnSound, ReplySound, InTxn, NoImage,
      Cents

-----------------------------------------------------------------------------
\* Taking a request keeps the invariant.
LEMMA AcceptInductive ==
  ASSUME Inductive, NEW s \in Servers, Accept(s)
  PROVE  Inductive'
<1> USE DEF Inductive, Accept, db
<1>1. TypeOK'
  BY DEF TypeOK, DbTypeOK, Labels, Replies
<1>2. \A a \in Accounts : balance'[a] \in Cents
  OBVIOUS
<1>3. Sound(s)'
  BY DEF Sound, RequestSound, ImageSound, TxnSound, ReplySound, InTxn, Locks,
         TypeOK
<1>4. ASSUME NEW t \in Servers \ {s} PROVE Sound(t)'
  BY <1>4, Untouched DEF TypeOK
<1> QED
  BY <1>1, <1>2, <1>3, <1>4

\* The checks of handle_* and record_<kind> keep it; what passes is Allowed.
LEMMA CheckInductive ==
  ASSUME Inductive, NEW s \in Servers, Check(s)
  PROVE  Inductive'
<1> USE DEF Inductive, Check, At, GoTo, Answer, db
<1>1. TypeOK'
  <2>1. LocalTypeOK'
    BY AnswerTyped, GoToTyped DEF TypeOK, LocalTypeOK, Labels, Replies
  <2> QED
    BY <2>1 DEF TypeOK, DbTypeOK, LocalTypeOK
<1>2. \A a \in Accounts : balance'[a] \in Cents
  OBVIOUS
<1>3. txn'[s] = NoTxn /\ ~entered'[s]
  BY DEF Sound, TxnSound, ReplySound
<1>4. Sound(s)'
  <2>1. CASE Allowed(req[s])
    BY <1>3, <2>1 DEF Sound, RequestSound, ImageSound, TxnSound, ReplySound,
                      InTxn, Locks, TypeOK
  <2>2. CASE ~Allowed(req[s])
    BY <1>3, <2>2, AnswerSound DEF Replies
  <2> QED
    BY <2>1, <2>2
<1>5. ASSUME NEW t \in Servers \ {s} PROVE Sound(t)'
  BY <1>5, Untouched DEF TypeOK
<1> QED
  BY <1>1, <1>2, <1>4, <1>5

\* BEGIN keeps it: the session had no transaction, so none is taken over.
LEMMA BeginInductive ==
  ASSUME Inductive, NEW s \in Servers, Begin(s)
  PROVE  Inductive'
<1> USE CTransactionsAssumption
    DEF Inductive, Begin, BeginTxn, At, GoTo
<1>1. TypeOK'
  BY DEF TypeOK, DbTypeOK, Labels, Txn
<1>2. \A a \in Accounts : balance'[a] \in Cents
  OBVIOUS
<1>3. txn[s] = NoTxn /\ Allowed(req[s]) /\ req[s] \in Requests
  BY DEF Sound, TxnSound, RequestSound
<1>4. txn'[s] = [NoTxn EXCEPT !.state = "open"]
  BY <1>3 DEF TypeOK, DbTypeOK, NoTxn
<1>5. pc'[s] \in {"readFrom", "readTo"}
      /\ (pc'[s] = "readFrom" => Debits(req[s]))
      /\ (pc'[s] = "readTo" => Credits(req[s]))
  BY <1>3, RowOfRequest DEF TypeOK, Debits, Credits
<1>6. Sound(s)'
  <2>1. /\ txn'[s].state = "open" /\ txn'[s].new = <<>>
        /\ txn'[s].wrote = [a \in Accounts |-> Unwritten]
    BY <1>4 DEF NoTxn
  <2>2. Written(s)' = [a \in Accounts |-> Unwritten]
    BY <1>5 DEF Written, WroteFrom, WroteTo
  <2>3. Locks(s)' = {}
    BY <2>1 DEF Locks
  <2> QED
    BY <1>3, <1>5, <2>1, <2>2, <2>3
    DEF Sound, RequestSound, ImageSound, TxnSound, ReplySound, InTxn, TypeOK
<1>7. ASSUME NEW t \in Servers \ {s} PROVE Sound(t)'
  BY <1>7, Untouched DEF TypeOK, DbTypeOK
<1> QED
  BY <1>1, <1>2, <1>6, <1>7

\* A balance that a process reads is in range, its own writes included.
LEMMA VisibleInRange ==
  ASSUME Inductive, NEW s \in Servers, NEW a \in Accounts
  PROVE  Visible(s, a) \in Cents
BY DEF Inductive, Sound, TxnSound, Visible, Locks

\* Reading the debited account keeps it: what is kept in memory is not
\* negative.
LEMMA ReadFromInductive ==
  ASSUME Inductive, NEW s \in Servers, ReadFrom(s)
  PROVE  Inductive'
<1> DEFINE q == req[s]
           cents == Visible(s, q.from)
<1> USE DEF Inductive, db
<1>1. At(s, "readFrom") /\ UNCHANGED db
  BY DEF ReadFrom
<1>2. /\ q \in Requests /\ Allowed(q) /\ Debits(q)
      /\ q.from \in Accounts /\ Value(q) \in 1..MaxCents
  BY <1>1, RowOfRequest, ValueInRange DEF At, Sound, RequestSound
<1>3. cents \in Cents
  BY <1>2, VisibleInRange
<1>4. \/ /\ Credits(q) /\ img' = [img EXCEPT ![s].from = cents]
         /\ GoTo(s, "readTo") /\ UNCHANGED entered
      \/ /\ ~Credits(q) /\ cents >= Value(q)
         /\ img' = [img EXCEPT ![s].from = cents - Value(q)]
         /\ GoTo(s, "updateFrom") /\ UNCHANGED entered
      \/ GiveUp(s, "rejected")
  BY DEF ReadFrom
<1>5. TypeOK'
  <2>1. LocalTypeOK
    BY DEF TypeOK, LocalTypeOK
  <2>2. CASE GiveUp(s, "rejected")
    BY <1>1, <2>1, <2>2, GiveUpTyped
    DEF TypeOK, DbTypeOK, LocalTypeOK, Replies, GiveUp
  <2>3. CASE ~GiveUp(s, "rejected")
    <3>1. img' \in [Servers -> Image] /\ UNCHANGED entered
      BY <1>2, <1>3, <1>4, <2>3, PostingAssumption DEF TypeOK, Image, Cents
    <3>2. \E label \in Labels : GoTo(s, label)
      BY <1>4, <2>3 DEF Labels
    <3> QED
      BY <1>1, <2>1, <3>1, <3>2, GoToTyped
      DEF TypeOK, DbTypeOK, LocalTypeOK
  <2> QED
    BY <2>2, <2>3
<1>6. Sound(s)'
  <2>1. CASE GiveUp(s, "rejected")
    BY <1>1, <2>1, GiveUpSound DEF At, InTxn
  <2>2. CASE ~GiveUp(s, "rejected")
    <3>1. pc'[s] = (IF Credits(q) THEN "readTo" ELSE "updateFrom")
          /\ img'[s].from \in Cents /\ img'[s].to = img[s].to
          /\ req' = req /\ link' = link /\ reply' = reply
          /\ entered' = entered
      BY <1>2, <1>3, <1>4, <2>2, PostingAssumption
      DEF TypeOK, Image, GoTo, Cents
    <3>2. Written(s)' = Written(s) /\ Locks(s)' = Locks(s)
      BY <1>1, <3>1 DEF At, Written, WroteFrom, WroteTo, Locks
    <3> QED
      BY <1>1, <1>2, <3>1, <3>2
      DEF At, Sound, RequestSound, ImageSound, TxnSound, ReplySound, InTxn
  <2> QED
    BY <2>1, <2>2
<1>7. ASSUME NEW t \in Servers \ {s} PROVE Sound(t)'
  BY <1>1, <1>4, <1>7, Untouched DEF TypeOK, GoTo, GiveUp
<1> QED
  BY <1>1, <1>5, <1>6, <1>7

\* Reading the credited account keeps it: the credit was checked for overflow.
LEMMA ReadToInductive ==
  ASSUME Inductive, NEW s \in Servers, ReadTo(s)
  PROVE  Inductive'
<1> DEFINE q == req[s]
           cents == Visible(s, q.to)
           debited == IF Debits(q) THEN img[s].from - Value(q) ELSE 0
<1> USE DEF Inductive, db
<1>1. At(s, "readTo") /\ UNCHANGED db
  BY DEF ReadTo
<1>2. /\ q \in Requests /\ Allowed(q) /\ Credits(q)
      /\ q.to \in Accounts /\ Value(q) \in 1..MaxCents
  BY <1>1, RowOfRequest, ValueInRange DEF At, Sound, RequestSound
<1>3. cents \in Cents /\ debited \in Int /\ debited <= MaxCents
  BY <1>2, VisibleInRange, PostingAssumption
  DEF Sound, ImageSound, Cents
<1>4. \/ /\ debited >= 0 /\ cents + Value(q) <= MaxCents
         /\ img' = [img EXCEPT ![s] = [from |-> debited,
                                       to |-> cents + Value(q)]]
         /\ GoTo(s, IF Debits(q) THEN "updateFrom" ELSE "updateTo")
         /\ UNCHANGED entered
      \/ GiveUp(s, "rejected")
  BY DEF ReadTo
<1>5. TypeOK'
  <2>1. LocalTypeOK
    BY DEF TypeOK, LocalTypeOK
  <2>2. CASE GiveUp(s, "rejected")
    BY <1>1, <2>1, <2>2, GiveUpTyped
    DEF TypeOK, DbTypeOK, LocalTypeOK, Replies, GiveUp
  <2>3. CASE ~GiveUp(s, "rejected")
    <3>1. img' \in [Servers -> Image] /\ UNCHANGED entered
      BY <1>2, <1>3, <1>4, <2>3, PostingAssumption DEF TypeOK, Image, Cents
    <3>2. \E label \in Labels : GoTo(s, label)
      BY <1>4, <2>3 DEF Labels
    <3> QED
      BY <1>1, <2>1, <3>1, <3>2, GoToTyped
      DEF TypeOK, DbTypeOK, LocalTypeOK
  <2> QED
    BY <2>2, <2>3
<1>6. Sound(s)'
  <2>1. CASE GiveUp(s, "rejected")
    BY <1>1, <2>1, GiveUpSound DEF At, InTxn
  <2>2. CASE ~GiveUp(s, "rejected")
    <3>1. pc'[s] = (IF Debits(q) THEN "updateFrom" ELSE "updateTo")
          /\ img'[s].from \in Cents /\ img'[s].to \in Cents
          /\ req' = req /\ link' = link /\ reply' = reply
          /\ entered' = entered
      BY <1>2, <1>3, <1>4, <2>2, PostingAssumption
      DEF TypeOK, GoTo, Cents
    <3>2. Written(s)' = Written(s) /\ Locks(s)' = Locks(s)
      BY <1>1, <3>1 DEF At, Written, WroteFrom, WroteTo, Locks
    <3> QED
      BY <1>1, <1>2, <3>1, <3>2
      DEF At, Sound, RequestSound, ImageSound, TxnSound, ReplySound, InTxn
  <2> QED
    BY <2>1, <2>2
<1>7. ASSUME NEW t \in Servers \ {s} PROVE Sound(t)'
  BY <1>1, <1>4, <1>7, Untouched DEF TypeOK, GoTo, GiveUp
<1> QED
  BY <1>1, <1>5, <1>6, <1>7

\* An UPDATE of a value in range, as its effect on the transaction.
LEMMA UpdateRowEffect ==
  ASSUME Inductive, NEW s \in Servers, NEW a \in Accounts, NEW cents \in Cents,
         UpdateRow(s, a, cents)
  PROVE  /\ DbTypeOK'
         /\ UNCHANGED <<balance, rows>>
         /\ txn'[s].state = "open" /\ txn'[s].new = txn[s].new
         /\ txn'[s].wrote = [txn[s].wrote EXCEPT ![a] = cents]
         /\ \A b \in Locks(s)' : txn'[s].wrote[b] \in Cents
         /\ \A t \in Servers \ {s} : txn'[t] = txn[t]
<1>1. txn \in [Sessions -> Txn] /\ s \in Sessions
  BY CTransactionsAssumption DEF Inductive, TypeOK, DbTypeOK
<1>2. cents \in Int
  BY PostingAssumption DEF Cents
<1>3. txn[s] \in Txn
  BY <1>1
<1>4. txn'[s] = [txn[s] EXCEPT !.wrote[a] = cents]
  BY <1>1 DEF UpdateRow
<1>5. /\ txn'[s].state = "open" /\ txn'[s].new = txn[s].new
      /\ txn'[s].wrote = [txn[s].wrote EXCEPT ![a] = cents]
  BY <1>3, <1>4 DEF UpdateRow, Txn
<1>6. txn'[s] \in Txn
  BY <1>2, <1>3, <1>4 DEF Txn
<1>7. DbTypeOK'
  BY <1>1, <1>6 DEF Inductive, TypeOK, DbTypeOK, UpdateRow
<1>8. \A b \in Locks(s)' : txn'[s].wrote[b] \in Cents
  BY <1>3, <1>5 DEF Inductive, Sound, TxnSound, Locks, Txn
<1> QED
  BY <1>1, <1>5, <1>7, <1>8, CTransactionsAssumption DEF UpdateRow

\* Writing the debited account keeps it.
LEMMA UpdateFromInductive ==
  ASSUME Inductive, NEW s \in Servers, UpdateFrom(s)
  PROVE  Inductive'
<1> DEFINE q == req[s]
<1> USE DEF Inductive
<1>1. At(s, "updateFrom") /\ UpdateRow(s, q.from, img[s].from)
      /\ GoTo(s, IF Credits(q) THEN "updateTo" ELSE "insert")
      /\ UNCHANGED <<img, entered>>
  BY DEF UpdateFrom
<1>2. /\ q \in Requests /\ Allowed(q) /\ Debits(q) /\ q.from \in Accounts
      /\ img[s].from \in Cents
  BY <1>1, RowOfRequest DEF At, Sound, RequestSound, ImageSound
<1>3. /\ DbTypeOK' /\ UNCHANGED <<balance, rows>>
      /\ txn'[s].state = "open" /\ txn'[s].new = txn[s].new
      /\ txn'[s].wrote = [txn[s].wrote EXCEPT ![q.from] = img[s].from]
      /\ \A b \in Locks(s)' : txn'[s].wrote[b] \in Cents
      /\ \A t \in Servers \ {s} : txn'[t] = txn[t]
  BY <1>1, <1>2, UpdateRowEffect
<1>4. TypeOK'
  <2>1. LocalTypeOK'
    BY <1>1, GoToTyped DEF TypeOK, LocalTypeOK, Labels
  <2> QED
    BY <1>1, <1>3, <2>1 DEF TypeOK, LocalTypeOK
<1>5. Sound(s)'
  <2>1. pc'[s] = (IF Credits(q) THEN "updateTo" ELSE "insert")
        /\ req' = req /\ link' = link /\ reply' = reply
    BY <1>1 DEF GoTo, TypeOK
  <2>2. txn[s].wrote = [a \in Accounts |-> Unwritten] /\ txn[s].new = <<>>
    BY <1>1 DEF At, Sound, TxnSound, InTxn, Written, WroteFrom, WroteTo
  <2>3. txn'[s].wrote = Written(s)'
    BY <1>1, <1>2, <1>3, <2>1, <2>2 DEF Written, WroteFrom, WroteTo
  <2> QED
    BY <1>1, <1>2, <1>3, <2>1, <2>2, <2>3
    DEF At, Sound, RequestSound, ImageSound, TxnSound, ReplySound, InTxn
<1>6. ASSUME NEW t \in Servers \ {s} PROVE Sound(t)'
  BY <1>1, <1>3, <1>6, Untouched DEF TypeOK, GoTo
<1> QED
  BY <1>3, <1>4, <1>5, <1>6

\* Writing the credited account keeps it; it is not the debited one.
LEMMA UpdateToInductive ==
  ASSUME Inductive, NEW s \in Servers, UpdateTo(s)
  PROVE  Inductive'
<1> DEFINE q == req[s]
<1> USE DEF Inductive
<1>1. At(s, "updateTo") /\ UpdateRow(s, q.to, img[s].to) /\ GoTo(s, "insert")
      /\ UNCHANGED <<img, entered>>
  BY DEF UpdateTo
<1>2. /\ q \in Requests /\ Allowed(q) /\ Credits(q) /\ q.to \in Accounts
      /\ q.from # q.to /\ img[s].to \in Cents
  BY <1>1, RowOfRequest DEF At, Sound, RequestSound, ImageSound
<1>3. /\ DbTypeOK' /\ UNCHANGED <<balance, rows>>
      /\ txn'[s].state = "open" /\ txn'[s].new = txn[s].new
      /\ txn'[s].wrote = [txn[s].wrote EXCEPT ![q.to] = img[s].to]
      /\ \A b \in Locks(s)' : txn'[s].wrote[b] \in Cents
      /\ \A t \in Servers \ {s} : txn'[t] = txn[t]
  BY <1>1, <1>2, UpdateRowEffect
<1>4. TypeOK'
  <2>1. LocalTypeOK'
    BY <1>1, GoToTyped DEF TypeOK, LocalTypeOK, Labels
  <2> QED
    BY <1>1, <1>3, <2>1 DEF TypeOK, LocalTypeOK
<1>5. Sound(s)'
  <2>1. pc'[s] = "insert" /\ req' = req /\ link' = link /\ reply' = reply
    BY <1>1 DEF GoTo, TypeOK
  <2>2. txn[s].wrote = Written(s) /\ txn[s].new = <<>>
    BY <1>1 DEF At, Sound, TxnSound, InTxn
  <2>3. txn'[s].wrote = Written(s)'
    BY <1>1, <1>2, <1>3, <2>1, <2>2 DEF At, Written, WroteFrom, WroteTo
  <2> QED
    BY <1>1, <1>2, <1>3, <2>1, <2>2, <2>3
    DEF At, Sound, RequestSound, ImageSound, TxnSound, ReplySound, InTxn
<1>6. ASSUME NEW t \in Servers \ {s} PROVE Sound(t)'
  BY <1>1, <1>3, <1>6, Untouched DEF TypeOK, GoTo
<1> QED
  BY <1>3, <1>4, <1>5, <1>6

\* Inserting the row keeps it: the row is the request's and the only one.
LEMMA InsertInductive ==
  ASSUME Inductive, NEW s \in Servers, Insert(s)
  PROVE  Inductive'
<1> DEFINE q == req[s]
<1> USE DEF Inductive
<1>1. At(s, "insert") /\ InsertRow(s, RowOf(q)) /\ GoTo(s, "commit")
      /\ UNCHANGED <<img, entered>>
  BY DEF Insert
<1>2. q \in Requests /\ Allowed(q) /\ RowOf(q) \in Row
  BY <1>1, RowOfRequest DEF At, Sound, RequestSound
<1>3. txn \in [Sessions -> Txn] /\ s \in Sessions
  BY CTransactionsAssumption DEF TypeOK, DbTypeOK
<1>4. txn[s].new = <<>> /\ txn[s].wrote = Written(s) /\ txn[s].state = "open"
  BY <1>1 DEF At, Sound, TxnSound, InTxn
<1>5. txn'[s] = [txn[s] EXCEPT !.new = Append(txn[s].new, RowOf(q))]
  BY <1>1, <1>3 DEF InsertRow
<1>6. /\ txn'[s].new = <<RowOf(q)>> /\ txn'[s].wrote = txn[s].wrote
      /\ txn'[s].state = "open"
  BY <1>3, <1>4, <1>5 DEF Txn
<1>7. TypeOK'
  <2>1. LocalTypeOK'
    BY <1>1, GoToTyped DEF TypeOK, LocalTypeOK, Labels
  <2>2. txn'[s] \in Txn
    <3>1. Append(txn[s].new, RowOf(q)) \in Seq(Row)
      BY <1>2, <1>4
    <3> QED
      BY <1>3, <1>5, <3>1 DEF Txn
  <2>3. DbTypeOK'
    BY <1>1, <1>3, <2>2 DEF TypeOK, DbTypeOK, InsertRow
  <2> QED
    BY <1>1, <2>1, <2>3 DEF TypeOK, LocalTypeOK
<1>8. Sound(s)'
  <2>1. pc'[s] = "commit" /\ req' = req /\ link' = link /\ reply' = reply
    BY <1>1 DEF GoTo, TypeOK
  <2>2. Written(s)' = Written(s) /\ Locks(s)' = Locks(s)
    BY <1>1, <1>6, <2>1 DEF At, Written, WroteFrom, WroteTo, Locks
  <2>3. RowOf(q)' = RowOf(q)
    BY <2>1 DEF RowOf, Value, InUnits
  <2> QED
    BY <1>1, <1>2, <1>4, <1>6, <2>1, <2>2, <2>3
    DEF At, Sound, RequestSound, ImageSound, TxnSound, ReplySound, InTxn
<1>9. ASSUME NEW t \in Servers \ {s} PROVE Sound(t)'
  BY <1>1, <1>3, <1>9, CTransactionsAssumption, Untouched
  DEF TypeOK, GoTo, InsertRow
<1> QED
  BY <1>1, <1>7, <1>8, <1>9 DEF InsertRow

\* The end of a transaction, by COMMIT or otherwise.
LEMMA EndOfTxn ==
  ASSUME Inductive, NEW s \in Servers, RollbackTxn(s) \/ ApplyTxn(s)
  PROVE  /\ DbTypeOK'
         /\ txn'[s] = NoTxn
         /\ \A a \in Accounts : balance'[a] \in Cents
         /\ \A t \in Servers \ {s} : txn'[t] = txn[t]
<1>1. txn \in [Sessions -> Txn] /\ Servers \subseteq Sessions
  BY CTransactionsAssumption DEF Inductive, TypeOK, DbTypeOK
<1>2. txn' = [txn EXCEPT ![s] = NoTxn]
  BY DEF RollbackTxn, ApplyTxn
<1>3. txn' \in [Sessions -> Txn]
  BY <1>1, <1>2, NoTxnIsEmpty
<1>4. CASE RollbackTxn(s)
  BY <1>1, <1>2, <1>3, <1>4
  DEF RollbackTxn, Inductive, TypeOK, DbTypeOK
<1>5. CASE ApplyTxn(s)
  <2>1. \A a \in Accounts : balance'[a] \in Cents
    BY <1>5, VisibleInRange DEF ApplyTxn
  <2>2. balance' \in [Accounts -> Int]
    BY <1>5, <2>1, PostingAssumption DEF ApplyTxn, Cents
  <2>3. txn[s].new \in Seq(Row) /\ rows \in Seq(Row)
    BY <1>1 DEF Inductive, TypeOK, DbTypeOK, Txn
  <2>4. rows' \in Seq(Row)
    BY <1>5, <2>3 DEF ApplyTxn
  <2> QED
    BY <1>1, <1>2, <1>3, <2>1, <2>2, <2>4 DEF DbTypeOK
<1> QED
  BY <1>4, <1>5

\* COMMIT keeps it, and its 2xx answer is for a row that is in the books.
LEMMA CommitInductive ==
  ASSUME Inductive, NEW s \in Servers, Commit(s)
  PROVE  Inductive'
<1> USE DEF Inductive
<1>1. At(s, "commit") /\ CommitTxn(s) /\ Answer(s, "ok")
      /\ entered' = [entered EXCEPT ![s] = Enters(s)]
  BY DEF Commit
<1>2. RollbackTxn(s) \/ ApplyTxn(s)
  BY <1>1 DEF CommitTxn
<1>3. /\ DbTypeOK' /\ txn'[s] = NoTxn
      /\ \A a \in Accounts : balance'[a] \in Cents
      /\ \A t \in Servers \ {s} : txn'[t] = txn[t]
  BY <1>2, EndOfTxn
<1>4. Enters(s) /\ entered'[s]
  BY <1>1 DEF At, Sound, TxnSound, InTxn, Enters, TypeOK
<1>5. TypeOK'
  <2>1. LocalTypeOK'
    BY <1>1, AnswerTyped DEF TypeOK, LocalTypeOK, Replies
  <2>2. entered' \in [Servers -> BOOLEAN]
    BY <1>1, <1>4 DEF TypeOK
  <2> QED
    BY <1>3, <2>1, <2>2 DEF TypeOK, LocalTypeOK
<1>6. Sound(s)'
  BY <1>1, <1>3, <1>4, AnswerSound DEF Replies
<1>7. ASSUME NEW t \in Servers \ {s} PROVE Sound(t)'
  BY <1>1, <1>3, <1>7, Untouched DEF TypeOK, Answer
<1> QED
  BY <1>3, <1>5, <1>6, <1>7

\* ROLLBACK keeps it and leaves nothing open.
LEMMA RollbackInductive ==
  ASSUME Inductive, NEW s \in Servers, Rollback(s)
  PROVE  Inductive'
<1> USE DEF Inductive
<1>1. At(s, "rollback") /\ RollbackTxn(s) /\ Answer(s, reply[s])
      /\ UNCHANGED entered
  BY DEF Rollback
<1>2. /\ DbTypeOK' /\ txn'[s] = NoTxn
      /\ \A a \in Accounts : balance'[a] \in Cents
      /\ \A t \in Servers \ {s} : txn'[t] = txn[t]
  BY <1>1, EndOfTxn
<1>3. /\ reply[s] \in Replies /\ reply[s] # "ok"
      /\ reply[s] = "rejected" => ~entered[s]
  BY <1>1 DEF At, Sound, ReplySound, TypeOK
<1>4. TypeOK'
  <2>1. LocalTypeOK'
    BY <1>1, <1>3, AnswerTyped DEF TypeOK, LocalTypeOK
  <2> QED
    BY <1>1, <1>2, <2>1 DEF TypeOK, LocalTypeOK
<1>5. Sound(s)'
  BY <1>1, <1>2, <1>3, AnswerSound
<1>6. ASSUME NEW t \in Servers \ {s} PROVE Sound(t)'
  BY <1>1, <1>2, <1>6, Untouched DEF TypeOK, Answer
<1> QED
  BY <1>2, <1>4, <1>5, <1>6

\* An answer without a connection keeps it: the lost session has no
\* transaction.
LEMMA UnreachableInductive ==
  ASSUME Inductive, NEW s \in Servers, Unreachable(s)
  PROVE  Inductive'
<1> DEFINE answer == IF pc[s] = "rollback" THEN reply[s] ELSE "failed"
<1> USE DEF Inductive
<1>1. link[s] = "down" /\ Answer(s, answer) /\ UNCHANGED db
      /\ UNCHANGED entered
  BY DEF Unreachable
<1>2. /\ answer \in Replies
      /\ answer = "ok" => entered[s]
      /\ answer = "rejected" => ~entered[s]
  BY DEF Sound, ReplySound, TypeOK, Replies
<1>3. txn'[s] = NoTxn
  BY <1>1 DEF Sound, TxnSound, db
<1>4. TypeOK'
  <2>1. LocalTypeOK'
    BY <1>1, <1>2, AnswerTyped DEF TypeOK, LocalTypeOK, Replies
  <2> QED
    BY <1>1, <2>1 DEF TypeOK, DbTypeOK, LocalTypeOK, db
<1>5. Sound(s)'
  BY <1>1, <1>2, <1>3, AnswerSound DEF Replies
<1>6. ASSUME NEW t \in Servers \ {s} PROVE Sound(t)'
  BY <1>1, <1>6, Untouched DEF TypeOK, Answer, db
<1> QED
  BY <1>1, <1>4, <1>5, <1>6 DEF db

\* A statement that fails keeps it: the process goes to ROLLBACK.
LEMMA StatementFailsInductive ==
  ASSUME Inductive, NEW s \in Servers, StatementFails(s)
  PROVE  Inductive'
<1> USE DEF Inductive
<1>1. link[s] = "up" /\ pc[s] \in InTxn /\ FailStatement(s)
      /\ GiveUp(s, "failed")
  BY DEF StatementFails
<1>2. txn \in [Sessions -> Txn] /\ s \in Sessions
  BY CTransactionsAssumption DEF TypeOK, DbTypeOK
<1>3. txn'[s] = [txn[s] EXCEPT !.state = "failed"]
  BY <1>1, <1>2 DEF FailStatement
<1>4. txn'[s] \in Txn /\ txn'[s].wrote = txn[s].wrote
  BY <1>2, <1>3 DEF Txn
<1>5. DbTypeOK'
  BY <1>1, <1>2, <1>4 DEF TypeOK, DbTypeOK, FailStatement
<1>6. TypeOK'
  <2>1. LocalTypeOK' /\ UNCHANGED entered
    BY <1>1, GiveUpTyped DEF TypeOK, LocalTypeOK, Replies, GiveUp
  <2> QED
    BY <1>5, <2>1 DEF TypeOK, LocalTypeOK
<1>7. Sound(s)'
  BY <1>1, <1>4, GiveUpSound
<1>8. ASSUME NEW t \in Servers \ {s} PROVE Sound(t)'
  BY <1>1, <1>2, <1>8, CTransactionsAssumption, Untouched
  DEF TypeOK, GiveUp, FailStatement
<1> QED
  BY <1>1, <1>6, <1>7, <1>8 DEF FailStatement

\* A read before BEGIN that fails keeps it.
LEMMA CheckFailsInductive ==
  ASSUME Inductive, NEW s \in Servers, CheckFails(s)
  PROVE  Inductive'
<1> USE DEF Inductive
<1>1. At(s, "check") /\ Answer(s, "failed") /\ UNCHANGED db
      /\ UNCHANGED entered
  BY DEF CheckFails
<1>2. TypeOK'
  <2>1. LocalTypeOK'
    BY <1>1, AnswerTyped DEF TypeOK, LocalTypeOK, Replies
  <2> QED
    BY <1>1, <2>1 DEF TypeOK, DbTypeOK, LocalTypeOK, db
<1>3. txn'[s] = NoTxn
  BY <1>1 DEF At, Sound, TxnSound, db
<1>4. Sound(s)'
  BY <1>1, <1>3, AnswerSound DEF Replies
<1>5. ASSUME NEW t \in Servers \ {s} PROVE Sound(t)'
  BY <1>1, <1>5, Untouched DEF TypeOK, Answer, db
<1> QED
  BY <1>1, <1>2, <1>4, <1>5 DEF db

\* Losing the connection keeps it: the server rolls the session back.
LEMMA LinkLostInductive ==
  ASSUME Inductive, NEW s \in Servers, LinkLost(s)
  PROVE  Inductive'
<1> USE DEF Inductive
<1>1. /\ link' = [link EXCEPT ![s] = "down"] /\ RollbackTxn(s)
      /\ UNCHANGED <<pc, req, img, reply, entered>>
  BY DEF LinkLost
<1>2. /\ DbTypeOK' /\ txn'[s] = NoTxn
      /\ \A a \in Accounts : balance'[a] \in Cents
      /\ \A t \in Servers \ {s} : txn'[t] = txn[t]
  BY <1>1, EndOfTxn
<1>3. TypeOK'
  BY <1>1, <1>2 DEF TypeOK
<1>4. Sound(s)'
  <2>1. Locks(s)' = {} /\ link'[s] = "down"
    BY <1>1, <1>2, NoTxnIsEmpty DEF Locks, TypeOK
  <2> QED
    BY <1>1, <1>2, <2>1
    DEF Sound, RequestSound, ImageSound, TxnSound, ReplySound
<1>5. ASSUME NEW t \in Servers \ {s} PROVE Sound(t)'
  BY <1>1, <1>2, <1>5, Untouched DEF TypeOK
<1> QED
  BY <1>2, <1>3, <1>4, <1>5

\* A COMMIT whose result is lost keeps it: the answer will be a 5xx.
LEMMA CommitUnseenInductive ==
  ASSUME Inductive, NEW s \in Servers, CommitUnseen(s)
  PROVE  Inductive'
<1> USE DEF Inductive
<1>1. /\ At(s, "commit") /\ ApplyTxn(s)
      /\ entered' = [entered EXCEPT ![s] = Enters(s)]
      /\ link' = [link EXCEPT ![s] = "down"]
      /\ pc' = [pc EXCEPT ![s] = "rollback"]
      /\ reply' = [reply EXCEPT ![s] = "failed"]
      /\ UNCHANGED <<req, img>>
  BY DEF CommitUnseen
<1>2. /\ DbTypeOK' /\ txn'[s] = NoTxn
      /\ \A a \in Accounts : balance'[a] \in Cents
      /\ \A t \in Servers \ {s} : txn'[t] = txn[t]
  BY <1>1, EndOfTxn
<1>3. TypeOK'
  BY <1>1, <1>2 DEF TypeOK, Labels, Replies, Enters
<1>4. Sound(s)'
  <2>1. /\ Locks(s)' = {} /\ link'[s] = "down" /\ pc'[s] = "rollback"
        /\ reply'[s] = "failed"
    BY <1>1, <1>2, NoTxnIsEmpty DEF Locks, TypeOK
  <2> QED
    BY <1>1, <1>2, <2>1
    DEF At, Sound, RequestSound, ImageSound, TxnSound, ReplySound
<1>5. ASSUME NEW t \in Servers \ {s} PROVE Sound(t)'
  BY <1>1, <1>2, <1>5, Untouched DEF TypeOK
<1> QED
  BY <1>2, <1>3, <1>4, <1>5

\* Killing and restarting the process keeps it.
LEMMA RestartInductive ==
  ASSUME Inductive, NEW s \in Servers, Restart(s)
  PROVE  Inductive'
<1> USE DEF Inductive
<1>1. /\ pc' = [pc EXCEPT ![s] = "idle"]
      /\ req' = [req EXCEPT ![s] = NoRequest]
      /\ img' = [img EXCEPT ![s] = NoImage]
      /\ reply' = [reply EXCEPT ![s] = "none"]
      /\ entered' = [entered EXCEPT ![s] = FALSE]
      /\ link' = [link EXCEPT ![s] = "up"]
      /\ RollbackTxn(s) \/ ApplyTxn(s)
  BY DEF Restart
<1>2. /\ DbTypeOK' /\ txn'[s] = NoTxn
      /\ \A a \in Accounts : balance'[a] \in Cents
      /\ \A t \in Servers \ {s} : txn'[t] = txn[t]
  BY <1>1, EndOfTxn
<1>3. TypeOK'
  BY <1>1, <1>2 DEF TypeOK, Labels, Replies, NoImage, Image
<1>4. Sound(s)'
  <2>1. /\ Locks(s)' = {} /\ pc'[s] = "idle" /\ reply'[s] = "none"
        /\ img'[s] = NoImage /\ ~entered'[s]
    BY <1>1, <1>2, NoTxnIsEmpty DEF Locks, TypeOK
  <2> QED
    BY <1>2, <2>1, PostingAssumption
    DEF Sound, RequestSound, ImageSound, TxnSound, ReplySound, InTxn,
        NoImage, Cents
<1>5. ASSUME NEW t \in Servers \ {s} PROVE Sound(t)'
  BY <1>1, <1>2, <1>5, Untouched DEF TypeOK
<1> QED
  BY <1>2, <1>3, <1>4, <1>5

-----------------------------------------------------------------------------
\* Doing nothing.
LEMMA StutterInductive ==
  ASSUME Inductive, UNCHANGED vars
  PROVE  Inductive'
<1> USE DEF Inductive, vars
<1>1. TypeOK'
  BY DEF TypeOK, DbTypeOK
<1>2. ASSUME NEW t \in Servers PROVE Sound(t)'
  BY Untouched
<1> QED
  BY <1>1, <1>2

\* Every step keeps the invariant, action by action.
LEMMA NextInductive ==
  ASSUME Inductive, [Next]_vars
  PROVE  Inductive'
<1>1. CASE UNCHANGED vars
  BY <1>1, StutterInductive
<1>2. ASSUME NEW s \in Servers, Accept(s) \/ Serve(s) \/ Fault(s)
      PROVE  Inductive'
  <2>1. CASE Accept(s)
    BY <2>1, AcceptInductive
  <2>2. CASE Check(s)
    BY <2>2, CheckInductive
  <2>3. CASE Begin(s)
    BY <2>3, BeginInductive
  <2>4. CASE ReadFrom(s)
    BY <2>4, ReadFromInductive
  <2>5. CASE ReadTo(s)
    BY <2>5, ReadToInductive
  <2>6. CASE UpdateFrom(s)
    BY <2>6, UpdateFromInductive
  <2>7. CASE UpdateTo(s)
    BY <2>7, UpdateToInductive
  <2>8. CASE Insert(s)
    BY <2>8, InsertInductive
  <2>9. CASE Commit(s)
    BY <2>9, CommitInductive
  <2>10. CASE Rollback(s)
    BY <2>10, RollbackInductive
  <2>11. CASE Unreachable(s)
    BY <2>11, UnreachableInductive
  <2>12. CASE StatementFails(s) \/ DeadlockAbort(s)
    BY <2>12, StatementFailsInductive DEF DeadlockAbort
  <2>13. CASE CheckFails(s)
    BY <2>13, CheckFailsInductive
  <2>14. CASE LinkLost(s)
    BY <2>14, LinkLostInductive
  <2>15. CASE CommitUnseen(s)
    BY <2>15, CommitUnseenInductive
  <2>16. CASE Restart(s)
    BY <2>16, RestartInductive
  <2> QED
    BY <1>2, <2>1, <2>2, <2>3, <2>4, <2>5, <2>6, <2>7, <2>8, <2>9, <2>10,
       <2>11, <2>12, <2>13, <2>14, <2>15, <2>16 DEF Serve, Fault
<1> QED
  BY <1>1, <1>2 DEF Next

\* The inductive invariant holds: each process, wherever its request is, has
\* passed the checks it should have, holds balances in range, and has in its
\* transaction exactly what its statements so far wrote.
THEOREM InductiveHolds == Spec => []Inductive
<1>1. Init => Inductive
  BY InitInductive
<1>2. Inductive /\ [Next]_vars => Inductive'
  BY NextInductive
<1> QED
  BY <1>1, <1>2, PTL DEF Spec

-----------------------------------------------------------------------------
\* The safety properties, for any number of processes behind the balancer.

\* Every variable keeps to its type; in particular every row in the books is a
\* movement of a positive, representable amount.
THEOREM TypeCorrect == Spec => []TypeOK
<1>1. Inductive => TypeOK
  BY DEF Inductive
<1> QED
  BY <1>1, InductiveHolds, PTL

\* The CHECK (balance_cents >= 0) of the table never fires, even for processes
\* that overwrite each other's balances.
THEOREM NoOverdraftHolds == Spec => []NoOverdraft
<1>1. Inductive => NoOverdraft
  BY DEF Inductive, NoOverdraft, Sound, TxnSound
<1> QED
  BY <1>1, InductiveHolds, PTL

\* Every path out of record_transaction ends its database transaction.
THEOREM SessionCleanHolds == Spec => []SessionClean
<1>1. Inductive => SessionClean
  BY DEF Inductive, SessionClean, Sound, TxnSound
<1> QED
  BY <1>1, InductiveHolds, PTL

\* 2xx answers are for requests in the books, 4xx answers for those that are
\* not.
THEOREM AnswerHonestHolds == Spec => []AnswerHonest
<1>1. Inductive => AnswerHonest
  BY DEF Inductive, AnswerHonest, Sound, ReplySound
<1> QED
  BY <1>1, InductiveHolds, PTL

-----------------------------------------------------------------------------
\* What a step that ends a transaction with COMMIT does to the tables.
LEMMA ApplyEffect ==
  ASSUME Inductive, NEW s \in Servers, At(s, "commit"), ApplyTxn(s)
  PROVE  /\ RowOf(req[s]) \in Row
         /\ rows' = Append(rows, RowOf(req[s]))
         /\ balance' = [a \in Accounts |-> IF Written(s)[a] = Unwritten
                                           THEN balance[a]
                                           ELSE Written(s)[a]]
         /\ Locks(s) = Sides(RowOf(req[s]))
         /\ txn'[s] = NoTxn
<1> DEFINE q == req[s]
<1>1. q \in Requests /\ Allowed(q) /\ RowOf(q) \in Row /\ q.from # q.to
      /\ q.from \in Accounts /\ q.to \in Accounts
  BY RowOfRequest DEF Inductive, At, Sound, RequestSound
<1>2. txn[s].new = <<RowOf(q)>> /\ txn[s].wrote = Written(s)
  BY DEF Inductive, At, Sound, TxnSound
<1>3. rows \in Seq(Row) /\ rows' = rows \o <<RowOf(q)>>
  BY <1>2 DEF Inductive, TypeOK, DbTypeOK, ApplyTxn
<1>4. rows' = Append(rows, RowOf(q))
  BY <1>1, <1>3
<1>5. img[s].from # Unwritten /\ img[s].to # Unwritten
  BY PostgresAssumption, PostingAssumption
  DEF Inductive, Sound, ImageSound, Cents
<1>6. Locks(s) = Sides(RowOf(q))
  BY <1>1, <1>2, <1>5
  DEF At, Locks, Sides, Written, WroteFrom, WroteTo, Debits, Credits, RowOf
<1>7. txn'[s] = NoTxn
  BY EndOfTxn
<1> QED
  BY <1>1, <1>2, <1>4, <1>6, <1>7 DEF ApplyTxn, Visible

\* The tables change by such a step only.
LEMMA OnlyCommitsWrite ==
  ASSUME Inductive, [Next]_vars, UNCHANGED <<balance, rows>> => FALSE
  PROVE  \E s \in Servers : At(s, "commit") /\ ApplyTxn(s)
<1>1. PICK s \in Servers : Accept(s) \/ Serve(s) \/ Fault(s)
  BY DEF Next, vars
<1>2. ~UNCHANGED db
  BY DEF db
<1>3. ~RollbackTxn(s)
  BY DEF RollbackTxn
<1>4. ~Accept(s) /\ ~Check(s) /\ ~ReadFrom(s) /\ ~ReadTo(s)
      /\ ~Unreachable(s) /\ ~CheckFails(s)
  BY <1>2 DEF Accept, Check, ReadFrom, ReadTo, Unreachable, CheckFails
<1>5. ~Begin(s) /\ ~UpdateFrom(s) /\ ~UpdateTo(s) /\ ~Insert(s)
      /\ ~StatementFails(s) /\ ~DeadlockAbort(s)
  BY DEF Begin, BeginTxn, UpdateFrom, UpdateTo, UpdateRow, Insert, InsertRow,
         StatementFails, DeadlockAbort, FailStatement
<1>6. ~Rollback(s) /\ ~LinkLost(s)
  BY <1>3 DEF Rollback, LinkLost
<1> QED
  BY <1>1, <1>3, <1>4, <1>5, <1>6
  DEF Serve, Fault, Commit, CommitTxn, CommitUnseen, Restart

\* The step the property CommitsTogether asks for.
LEMMA StepTogether ==
  ASSUME Inductive, [Next]_vars, UNCHANGED <<balance, rows>> => FALSE
  PROVE  \E s \in Servers, r \in Row :
           /\ rows' = Append(rows, r)
           /\ Locks(s) = Sides(r) /\ txn'[s] = NoTxn
           /\ \A a \in Accounts \ Sides(r) : balance'[a] = balance[a]
<1>1. PICK s \in Servers : At(s, "commit") /\ ApplyTxn(s)
  BY OnlyCommitsWrite
<1> DEFINE r == RowOf(req[s])
<1>2. /\ r \in Row /\ rows' = Append(rows, r)
      /\ Locks(s) = Sides(r) /\ txn'[s] = NoTxn
  BY <1>1, ApplyEffect
<1>3. ASSUME NEW a \in Accounts \ Sides(r) PROVE balance'[a] = balance[a]
  BY <1>1, <1>2 DEF ApplyTxn, Visible, Locks
<1> QED
  BY <1>2, <1>3

\* Balances and the row become visible together, whoever else is at work.
THEOREM CommitsTogetherHolds == Spec => CommitsTogether
<1>1. Inductive /\ [Next]_vars =>
        (balance' # balance \/ rows' # rows =>
           \E s \in Servers, r \in Row :
             /\ rows' = Append(rows, r)
             /\ Locks(s) = Sides(r) /\ txn'[s] = NoTxn
             /\ \A a \in Accounts \ Sides(r) : balance'[a] = balance[a])
  BY StepTogether
<1> QED
  BY <1>1, InductiveHolds, PTL DEF Spec, CommitsTogether

-----------------------------------------------------------------------------
\* One process.  Nobody writes between its reads and its COMMIT, so what it
\* computed from the balances it read is still what the movement makes of them.
OneProcess == \A p, q \in Servers : p = q

Fresh(s) ==
  /\ pc[s] = "readTo" /\ Debits(req[s]) =>
       img[s].from = balance[req[s].from]
  /\ pc[s] \in {"updateFrom", "updateTo", "insert", "commit"} =>
       /\ Debits(req[s]) =>
            img[s].from = balance[req[s].from] - Value(req[s])
       /\ Credits(req[s]) => img[s].to = balance[req[s].to] + Value(req[s])

\* No process starts between its reads and its COMMIT.
LEMMA FreshInit == Init => \A s \in Servers : Fresh(s)
BY DEF Init, Fresh

\* Steps after which the process is not between its reads and its COMMIT.
LEMMA FreshOutside ==
  ASSUME NEW s \in Servers,
         pc'[s] \in {"idle", "check", "begin", "readFrom", "rollback"}
  PROVE  Fresh(s)'
BY DEF Fresh

\* Alone, a process keeps the balances it has read equal to the committed
\* ones.
LEMMA FreshStep ==
  ASSUME OneProcess, Inductive, \A p \in Servers : Fresh(p), Next,
         NEW s \in Servers
  PROVE  Fresh(s)'
<1>1. Accept(s) \/ Serve(s) \/ Fault(s)
  BY DEF Next, OneProcess
<1>2. pc \in [Servers -> Labels] /\ img \in [Servers -> Image]
  BY DEF Inductive, TypeOK
<1>3. CASE \/ Accept(s) \/ Check(s) \/ Rollback(s) \/ Unreachable(s)
           \/ Commit(s) \/ (Fault(s) /\ ~LinkLost(s))
  BY <1>2, <1>3, FreshOutside
  DEF Accept, Check, Rollback, Unreachable, Commit, Answer, GoTo, GiveUp,
      Fault, StatementFails, CheckFails, DeadlockAbort, CommitUnseen, Restart
<1>4. CASE LinkLost(s)
  BY <1>4 DEF LinkLost, RollbackTxn, Fresh
<1>5. CASE Begin(s)
  <2>1. /\ pc' = [pc EXCEPT ![s] =
                    IF Debits(req[s]) THEN "readFrom" ELSE "readTo"]
        /\ req' = req
    BY <1>5 DEF Begin, GoTo
  <2> QED
    BY <1>2, <2>1 DEF Fresh, Debits
<1>6. CASE ReadFrom(s) \/ ReadTo(s)
  <2> DEFINE q == req[s]
  <2>1. /\ q \in Requests /\ Allowed(q) /\ q.from \in Accounts
        /\ q.to \in Accounts /\ Value(q) \in 1..MaxCents
        /\ UNCHANGED db /\ req' = req
    BY <1>6, RowOfRequest, ValueInRange
    DEF ReadFrom, ReadTo, At, Inductive, Sound, RequestSound, GoTo, GiveUp
  <2>2. Visible(s, q.from) = balance[q.from]
        /\ Visible(s, q.to) = balance[q.to]
    BY <1>6, <2>1
    DEF ReadFrom, ReadTo, At, Inductive, Sound, TxnSound, InTxn, Written,
        WroteFrom, WroteTo, Visible
  <2>3. CASE ReadFrom(s)
    BY <1>2, <2>1, <2>2, <2>3
    DEF ReadFrom, At, GoTo, GiveUp, Fresh, Image, db, Inductive, Sound,
        RequestSound
  <2>4. CASE ReadTo(s)
    BY <1>2, <2>1, <2>2, <2>4
    DEF ReadTo, At, GoTo, GiveUp, Fresh, Image, db
  <2> QED
    BY <1>6, <2>3, <2>4
<1>7. CASE UpdateFrom(s) \/ UpdateTo(s) \/ Insert(s)
  BY <1>2, <1>7
  DEF UpdateFrom, UpdateTo, Insert, UpdateRow, InsertRow, At, GoTo, Fresh
<1> QED
  BY <1>1, <1>3, <1>4, <1>5, <1>6, <1>7 DEF Serve, Fault

\* The commit of a fresh process posts its movement.
LEMMA CommitPosts ==
  ASSUME Inductive, NEW s \in Servers, Fresh(s), At(s, "commit"), ApplyTxn(s)
  PROVE  Books!Record(RowOf(req[s]))
<1> DEFINE q == req[s]
           r == RowOf(q)
<1>1. q \in Requests /\ Allowed(q) /\ q.from # q.to /\ q.from \in Accounts
      /\ q.to \in Accounts /\ q.kind \in Kinds /\ Value(q) \in 1..MaxCents
  BY RowOfRequest, ValueInRange DEF Inductive, At, Sound, RequestSound
<1>2. /\ rows' = Append(rows, r)
      /\ balance' = [a \in Accounts |-> IF Written(s)[a] = Unwritten
                                        THEN balance[a]
                                        ELSE Written(s)[a]]
  BY ApplyEffect
<1>3. img[s].from \in Cents /\ img[s].to \in Cents /\ Unwritten \notin Cents
  BY PostgresAssumption, PostingAssumption
  DEF Inductive, Sound, ImageSound, Cents
<1>4. /\ Debits(r) = Debits(q) /\ Credits(r) = Credits(q)
      /\ r.from = q.from /\ r.to = q.to /\ r.value = Value(q)
  BY DEF RowOf, Debits, Credits
<1>5. /\ Debits(q) => img[s].from = balance[q.from] - Value(q)
      /\ Credits(q) => img[s].to = balance[q.to] + Value(q)
  BY DEF At, Fresh
<1>6. ASSUME NEW a \in Accounts
      PROVE  balance'[a] = PostedTo(balance[a], r, a)
  BY <1>1, <1>2, <1>3, <1>4, <1>5
  DEF At, Written, WroteFrom, WroteTo, PostedTo
<1>7. balance' = Posted(balance, r)
  BY <1>2, <1>6 DEF Posted
<1>8. Fits(balance, r)
  BY <1>1, <1>3, <1>4, <1>5, PostingAssumption
  DEF Fits, Cents, Inductive
<1> QED
  BY <1>1, <1>2, <1>4, <1>7, <1>8
  DEF Books!Record, Books!Posted, Books!PostedTo, Books!Fits, Books!Debits,
      Books!Credits, Posted, PostedTo, Fits, Debits, Credits

\* The ledger's vocabulary is that of this module.
LEMMA SameWords ==
  /\ Books!Row = Row
  /\ \A rs, a : Books!NetOf(rs, a) = NetOf(rs, a)
  /\ \A bals, r : Books!Posted(bals, r) = Posted(bals, r)
<1>1. Books!Row = Row
  BY DEF Books!Row, Row, Books!Kinds, Kinds, Books!BankMeets, BankMeets
<1>2. \A rs, a : Books!NetOf(rs, a) = NetOf(rs, a)
  BY DEF Books!NetOf, NetOf, Books!Names, Names, Books!Delta, Delta
<1>3. \A bals, r : Books!Posted(bals, r) = Posted(bals, r)
  BY DEF Books!Posted, Posted, Books!PostedTo, PostedTo, Books!Debits, Debits,
         Books!Credits, Credits
<1> QED
  BY <1>1, <1>2, <1>3

\* Every step of the only process is a step of the ledger, or none.
LEMMA StepRefines ==
  ASSUME Inductive, \A p \in Servers : Fresh(p), [Next]_vars
  PROVE  [Books!Next]_(Books!vars)
<1>1. CASE UNCHANGED <<balance, rows>>
  BY <1>1 DEF Books!vars
<1>2. CASE ~UNCHANGED <<balance, rows>>
  <2>1. PICK s \in Servers : At(s, "commit") /\ ApplyTxn(s)
    BY <1>2, OnlyCommitsWrite
  <2>2. Books!Record(RowOf(req[s])) /\ RowOf(req[s]) \in Books!Row
    BY <2>1, CommitPosts, ApplyEffect, SameWords
  <2> QED
    BY <2>2 DEF Books!Next
<1> QED
  BY <1>1, <1>2

\* A single process implements the ledger: each of its commits is one movement,
\* posted to the balances as they are and entered in the books, at once.  With
\* two processes this fails: both may read a balance before either writes it.
THEOREM OneProcessImplementsLedger ==
  ASSUME OneProcess
  PROVE  Spec => LedgerSpec
<1>1. Init => Books!Init /\ Inductive /\ \A p \in Servers : Fresh(p)
  BY InitInductive, FreshInit DEF Init, DbInit, Books!Init
<1>2. Inductive /\ (\A p \in Servers : Fresh(p)) /\ [Next]_vars =>
        Inductive' /\ (\A p \in Servers : Fresh(p))'
  <2> SUFFICES ASSUME Inductive, \A p \in Servers : Fresh(p), [Next]_vars
               PROVE  Inductive' /\ \A p \in Servers : Fresh(p)'
    OBVIOUS
  <2>1. CASE UNCHANGED vars
    BY <2>1, NextInductive DEF vars, Fresh
  <2>2. CASE Next
    BY <2>2, NextInductive, FreshStep, OneProcess
  <2> QED
    BY <2>1, <2>2
<1>3. Inductive /\ (\A p \in Servers : Fresh(p)) /\ [Next]_vars =>
        [Books!Next]_(Books!vars)
  BY StepRefines
<1> QED
  BY <1>1, <1>2, <1>3, PTL DEF Spec, LedgerSpec, Books!Spec

-----------------------------------------------------------------------------
\* The ledger itself: whatever is recorded, the books explain the balances.
LedgerInv ==
  /\ balance \in [Accounts -> Int] /\ rows \in Seq(Row)
  /\ \A a \in Accounts \ {Bank} : balance[a] = Opening[a] + NetOf(rows, a)

\* An empty ledger explains the balances it opens with.
LEMMA LedgerOpens == Books!Init => LedgerInv
<1> SUFFICES ASSUME Books!Init PROVE LedgerInv
  OBVIOUS
<1>1. balance = Opening /\ rows = <<>>
  BY DEF Books!Init
<1>2. \A a \in Accounts : Opening[a] \in Int
  BY PostingAssumption
<1> QED
  BY <1>1, <1>2, NetOfNone, PostingAssumption DEF LedgerInv

\* A movement keeps them explained.
LEMMA LedgerRecords ==
  ASSUME LedgerInv, NEW r \in Row, Books!Record(r)
  PROVE  LedgerInv'
<1>1. /\ r.from # r.to
      /\ balance' = [a \in Accounts |-> PostedTo(balance[a], r, a)]
      /\ rows' = Append(rows, r)
  BY SameWords DEF Books!Record, Posted
<1>2. rows' \in Seq(Row)
  BY <1>1 DEF LedgerInv
<1>3. ASSUME NEW a \in Accounts PROVE balance'[a] \in Int
  <2>1. r.value \in Int /\ balance[a] \in Int
    BY PostingAssumption DEF Row, LedgerInv
  <2> QED
    BY <1>1, <2>1 DEF PostedTo
<1>4. ASSUME NEW a \in Accounts \ {Bank}
      PROVE  balance'[a] = Opening[a] + NetOf(rows', a)
  <2>1. /\ rows \in Seq(Row) /\ balance[a] \in Int
        /\ balance[a] = Opening[a] + NetOf(rows, a)
    BY DEF LedgerInv
  <2>2. PostedTo(balance[a], r, a) = Opening[a] + NetOf(Append(rows, r), a)
    BY <1>1, <2>1, PostingKeepsExplained
  <2> QED
    BY <1>1, <2>2
<1> QED
  BY <1>1, <1>2, <1>3, <1>4 DEF LedgerInv

\* The books of the ledger explain every balance but the bank's.
THEOREM LedgerReconciles == LedgerSpec => []Reconciled
<1>1. LedgerInv /\ [Books!Next]_(Books!vars) => LedgerInv'
  <2> SUFFICES ASSUME LedgerInv, [Books!Next]_(Books!vars) PROVE LedgerInv'
    OBVIOUS
  <2>1. CASE UNCHANGED Books!vars
    BY <2>1 DEF Books!vars, LedgerInv
  <2>2. CASE Books!Next
    BY <2>2, SameWords, LedgerRecords DEF Books!Next
  <2> QED
    BY <2>1, <2>2
<1>2. LedgerInv => Reconciled
  BY SameWords DEF LedgerInv, Reconciled, Books!Reconciled
<1> QED
  BY <1>1, <1>2, LedgerOpens, PTL DEF LedgerSpec, Books!Spec

\* So do those of a C backend of one process: a statement may compute its
\* opening balance backwards from the balance of today.
THEOREM OneProcessReconciled ==
  ASSUME OneProcess
  PROVE  Spec => []Reconciled
BY OneProcessImplementsLedger, LedgerReconciles, PTL
=============================================================================
