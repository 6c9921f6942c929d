------------------------- MODULE RustTransactionsProof -------------------------
(****************************************************************************)
(* What holds of RustTransactions for every set of accounts, slots and      *)
(* requests and every size of the pool.  The invariant is Inductive of that *)
(* module: what each slot's task holds in memory, tied to what its          *)
(* transaction has written and to who has written since it read.            *)
(****************************************************************************)
EXTENDS RustTransactions, PostingProof, FiniteSetTheorems, TLAPS

(***************************************************************************)
(* Data.                                                                   *)
(***************************************************************************)

\* A positive number of units is a positive number of cents.
LEMMA UnitsPositive ==
  ASSUME NEW n \in Int, n > 0, NEW c \in Nat \ {0}
  PROVE  n * c \in Int /\ n * c > 0
BY Z3

\* The value of a request that passed the checks fits in a row.
LEMMA ValueInRange ==
  ASSUME NEW q \in Requests, Allowed(q)
  PROVE  Value(q) \in 1..MaxCents
<1>1. q \in Request /\ q.amount \in -MaxCents..MaxCents
  BY RequestsAssumption DEF Request
<1>2. MaxCents \in Nat /\ CentsPerUnit \in Nat \ {0}
  BY PostingAssumption, RequestsAssumption
<1>3. q.amount > 0 /\ (InUnits(q) => Value(q) <= MaxCents)
  BY DEF Allowed, AmountValid
<1>4. CASE InUnits(q)
  BY <1>1, <1>2, <1>3, <1>4, UnitsPositive DEF Value
<1>5. CASE ~InUnits(q)
  BY <1>1, <1>2, <1>3, <1>5 DEF Value
<1> QED
  BY <1>4, <1>5

\* Such a request names two different accounts, and its row is a Row.
LEMMA RowOfRequest ==
  ASSUME NEW q \in Requests, Allowed(q)
  PROVE  /\ RowOf(q) \in Row
         /\ q.from \in Accounts /\ q.to \in Accounts /\ q.from # q.to
         /\ q.kind \in Kinds
         /\ Debits(q) \/ Credits(q)
<1>1. q \in Request
  BY RequestsAssumption
<1>2. q.from # q.to
  BY DEF Allowed
<1> QED
  BY <1>1, <1>2, ValueInRange
  DEF RowOf, Row, Request, BankMeets, Debits, Credits, Kinds

\* The row says of the movement what the request says.
LEMMA RowSays ==
  ASSUME NEW q
  PROVE  /\ Debits(RowOf(q)) = Debits(q) /\ Credits(RowOf(q)) = Credits(q)
         /\ RowOf(q).from = q.from /\ RowOf(q).to = q.to
         /\ RowOf(q).value = Value(q)
BY DEF RowOf, Debits, Credits

LEMMA NoTxnIsEmpty ==
  /\ NoTxn \in Txn /\ NoTxn.state = "none" /\ NoTxn.new = <<>>
  /\ \A a \in Accounts : NoTxn.wrote[a] = Unwritten
BY DEF NoTxn, Txn

\* A session without a transaction holds no lock.
LEMMA NoTxnNoLocks ==
  ASSUME NEW s, txn[s] = NoTxn
  PROVE  Locks(s) = {}
BY NoTxnIsEmpty DEF Locks

LEMMA SlotIsSession == \A i \in Slots : i \in Sessions
BY RustTransactionsAssumption

-----------------------------------------------------------------------------
\* The pool.

Connected == {c \in Sessions : txn[c] # NoTxn}

LEMMA ConnectedFinite ==
  IsFiniteSet(Connected) /\ Cardinality(Connected) \in Nat
<1>1. IsFiniteSet(Sessions) /\ Connected \in SUBSET Sessions
  BY RustTransactionsAssumption DEF Connected
<1>2. IsFiniteSet(Connected)
  BY <1>1, FS_Subset
<1> QED
  BY <1>2, FS_CardinalityType

\* A step that opens no transaction leaves the pool within its size.
LEMMA PoolKept ==
  ASSUME Cardinality(Connected) <= PoolSize,
         \A c \in Sessions : txn'[c] # NoTxn => txn[c] # NoTxn
  PROVE  Cardinality(Connected)' <= PoolSize
<1>1. Connected' \in SUBSET Connected
  BY DEF Connected
<1>2. /\ Cardinality(Connected') <= Cardinality(Connected)
      /\ IsFiniteSet(Connected')
  BY <1>1, ConnectedFinite, FS_Subset
<1>3. Cardinality(Connected') \in Nat
  BY <1>2, FS_CardinalityType
<1> QED
  BY <1>2, <1>3, ConnectedFinite, RustTransactionsAssumption

\* Nor does one that opens a single transaction when a connection is free.
LEMMA PoolTakes ==
  ASSUME ConnectionFree, NEW s \in Sessions,
         \A c \in Sessions \ {s} : txn'[c] # NoTxn => txn[c] # NoTxn
  PROVE  Cardinality(Connected)' <= PoolSize
<1>1. Cardinality(Connected) < PoolSize
  BY DEF ConnectionFree, Connected
<1>2. IsFiniteSet(Connected \cup {s})
      /\ Cardinality(Connected \cup {s}) <= Cardinality(Connected) + 1
  BY ConnectedFinite, FS_AddElement
<1>3. Connected' \in SUBSET (Connected \cup {s})
  BY DEF Connected
<1>4. Cardinality(Connected') <= Cardinality(Connected \cup {s})
      /\ IsFiniteSet(Connected')
  BY <1>2, <1>3, FS_Subset
<1>5. /\ Cardinality(Connected') \in Nat
      /\ Cardinality(Connected \cup {s}) \in Nat
  BY <1>2, <1>4, FS_CardinalityType
<1> QED
  BY <1>1, <1>2, <1>4, <1>5, ConnectedFinite, RustTransactionsAssumption

-----------------------------------------------------------------------------
\* The parts of the invariant.

LocalTypeOK ==
  /\ pc \in [Slots -> Labels]
  /\ req \in [Slots -> Requests \cup {NoRequest}]
  /\ img \in [Slots -> Image]
  /\ reply \in [Slots -> {"none", "ok", "rejected", "failed"}]
  /\ entered \in [Slots -> BOOLEAN]
  /\ current \in [Slots -> SUBSET Accounts]
  /\ raced \subseteq Accounts

LEMMA TypeParts == TypeOK <=> DbTypeOK /\ LocalTypeOK
BY DEF TypeOK, LocalTypeOK

LEMMA InductiveParts ==
  Inductive <=>
    /\ DbTypeOK /\ LocalTypeOK
    /\ \A a \in Accounts : balance[a] \in Cents
    /\ \A i \in Slots : Sound(i)
    /\ Cardinality(Connected) <= PoolSize
    /\ UnracedReconciled
BY TypeParts DEF Inductive, Connected

LEMMA InductiveNext ==
  ASSUME DbTypeOK', LocalTypeOK', \A a \in Accounts : balance'[a] \in Cents,
         \A i \in Slots : Sound(i)', Cardinality(Connected)' <= PoolSize,
         UnracedReconciled'
  PROVE  Inductive'
BY DEF Inductive, TypeOK, LocalTypeOK, Connected

\* A slot none of whose variables changes stays sound while nothing is
\* committed.
LEMMA Untouched ==
  ASSUME NEW j \in Slots, Sound(j), balance' = balance,
         pc'[j] = pc[j], req'[j] = req[j], img'[j] = img[j],
         reply'[j] = reply[j], entered'[j] = entered[j],
         current'[j] = current[j], txn'[j] = txn[j]
  PROVE  Sound(j)'
<1>1. Locks(j)' = Locks(j)
  BY DEF Locks
<1>2. Written(j)' = Written(j)
  BY DEF Written, WroteFrom, WroteTo
<1> QED
  BY <1>1, <1>2
  DEF Sound, RequestSound, ImageSound, TxnSound, ReplySound, Fresh

\* The books are not touched by a step that commits nothing.
LEMMA BooksUntouched ==
  ASSUME UnracedReconciled, UNCHANGED <<balance, rows, raced>>
  PROVE  UnracedReconciled'
BY DEF UnracedReconciled

\* A slot whose handler is gone and whose transaction is over is sound if its
\* answer is an honest one.
LEMMA LeftSound ==
  ASSUME LocalTypeOK, NEW i \in Slots, NEW answer,
         Leave(i, "idle", answer), txn'[i] = NoTxn,
         answer = "ok" => entered'[i], answer = "rejected" => ~entered'[i]
  PROVE  Sound(i)'
<1>1. pc'[i] = "idle" /\ img'[i] = NoImage /\ reply'[i] = answer
  BY DEF Leave, LocalTypeOK
<1>2. Locks(i)' = {}
  BY NoTxnIsEmpty DEF Locks
<1> QED
  BY <1>1, <1>2, PostingAssumption
  DEF Sound, RequestSound, ImageSound, TxnSound, ReplySound, Fresh, InTxn,
      Reading, NoImage, Cents

\* Leaving keeps the local variables typed.
LEMMA LeaveTyped ==
  ASSUME LocalTypeOK, NEW i \in Slots,
         NEW answer \in {"none", "ok", "rejected", "failed"},
         NEW label \in Labels, Leave(i, label, answer),
         entered' \in [Slots -> BOOLEAN],
         current' \in [Slots -> SUBSET Accounts], raced' \subseteq Accounts
  PROVE  LocalTypeOK'
<1>1. NoImage \in Image
  BY DEF NoImage, Image
<1> QED
  BY <1>1 DEF LocalTypeOK, Leave

\* So does going on.
LEMMA GoToTyped ==
  ASSUME LocalTypeOK, NEW i \in Slots, NEW label \in Labels, GoTo(i, label),
         img' \in [Slots -> Image], current' \in [Slots -> SUBSET Accounts],
         raced' \subseteq Accounts
  PROVE  LocalTypeOK'
BY DEF LocalTypeOK, GoTo

-----------------------------------------------------------------------------
LEMMA OpeningExplained ==
  ASSUME balance = Opening, rows = <<>>
  PROVE  UnracedReconciled
<1> SUFFICES ASSUME NEW a \in Accounts
             PROVE  balance[a] = Opening[a] + NetOf(rows, a)
  BY DEF UnracedReconciled
<1>1. Opening[a] \in Int
  BY PostingAssumption
<1>2. NetOf(rows, a) = 0
  BY NetOfNone
<1> QED
  BY <1>1, <1>2

\* The first state satisfies the invariant.
LEMMA InitInductive == Init => Inductive
<1> SUFFICES ASSUME Init PROVE Inductive
  OBVIOUS
<1> USE PostingAssumption, RequestsAssumption, RustTransactionsAssumption,
        NoTxnIsEmpty
<1>1. DbTypeOK /\ LocalTypeOK
  BY DEF Init, DbInit, DbTypeOK, LocalTypeOK, Cents, NoImage, Image, Labels
<1>2. \A a \in Accounts : balance[a] \in Cents
  BY DEF Init, DbInit, Cents
<1>3. ASSUME NEW i \in Slots PROVE Sound(i)
  <2>1. pc[i] = "idle" /\ txn[i] = NoTxn /\ img[i] = NoImage
        /\ reply[i] = "none"
    BY DEF Init, DbInit
  <2>2. Locks(i) = {}
    BY <2>1, NoTxnNoLocks
  <2> QED
    BY <2>1, <2>2
    DEF Sound, RequestSound, ImageSound, TxnSound, ReplySound, Fresh, InTxn,
        Reading, NoImage, Cents
<1>4. Cardinality(Connected) <= PoolSize
  <2>1. Connected = {}
    BY DEF Connected, Init, DbInit
  <2> QED
    BY <2>1, FS_EmptySet
<1>5. UnracedReconciled
  BY OpeningExplained DEF Init, DbInit
<1> QED
  BY <1>1, <1>2, <1>3, <1>4, <1>5, InductiveParts

\* Taking a request keeps it.
LEMMA AcceptInductive ==
  ASSUME Inductive, NEW i \in Slots, Accept(i)
  PROVE  Inductive'
<1> USE InductiveParts DEF Accept, db
<1>1. LocalTypeOK'
  BY DEF LocalTypeOK, Labels, Reading, InTxn
<1>2. DbTypeOK'
  BY DEF DbTypeOK
<1>3. Sound(i)'
  <2>1. /\ pc[i] = "idle" /\ pc'[i] = "check" /\ req'[i] \in Requests
        /\ reply'[i] = "none" /\ entered'[i] = FALSE /\ img'[i] = img[i]
        /\ txn'[i] = NoTxn /\ Locks(i)' = {}
    BY NoTxnNoLocks DEF LocalTypeOK, Sound, TxnSound, Locks
  <2> QED
    BY <2>1
    DEF Sound, RequestSound, ImageSound, TxnSound, ReplySound, Fresh, InTxn,
        Reading
<1>4. ASSUME NEW j \in Slots \ {i} PROVE Sound(j)'
  BY <1>4, Untouched DEF LocalTypeOK
<1>5. Cardinality(Connected)' <= PoolSize
  BY PoolKept
<1>6. UnracedReconciled'
  BY BooksUntouched
<1> QED
  BY <1>1, <1>2, <1>3, <1>4, <1>5, <1>6, InductiveNext

\* The ways to leave a request before its transaction keep it.
LEMMA LeaveInductive ==
  ASSUME Inductive, NEW i \in Slots, NEW answer \in {"none", "rejected", "failed"},
         pc[i] \in Reading \cup {"begin"}, Leave(i, "idle", answer),
         current' \in [Slots -> SUBSET Accounts],
         \A j \in Slots \ {i} : current'[j] = current[j],
         UNCHANGED <<db, entered, raced>>
  PROVE  Inductive'
<1> USE InductiveParts DEF db
<1>1. LocalTypeOK'
  BY LeaveTyped DEF Labels, LocalTypeOK
<1>2. DbTypeOK'
  BY DEF DbTypeOK
<1>3. txn'[i] = NoTxn /\ ~entered[i] /\ ~entered'[i]
  BY DEF Sound, TxnSound, ReplySound, Reading
<1>4. Sound(i)'
  BY <1>3, LeftSound
<1>5. ASSUME NEW j \in Slots \ {i} PROVE Sound(j)'
  BY <1>5, Untouched DEF LocalTypeOK, Leave
<1>6. Cardinality(Connected)' <= PoolSize
  BY PoolKept
<1>7. UnracedReconciled'
  BY BooksUntouched
<1> QED
  BY <1>1, <1>2, <1>4, <1>5, <1>6, <1>7, InductiveNext

\* The checks keep it; what passes is Allowed.
LEMMA CheckInductive ==
  ASSUME Inductive, NEW i \in Slots, Check(i)
  PROVE  Inductive'
<1> USE InductiveParts DEF Check
<1>1. CASE ~Allowed(req[i])
  BY <1>1, LeaveInductive DEF Refuse, Reading, db, LocalTypeOK
<1>2. CASE Allowed(req[i])
  <2> DEFINE label == IF Debits(req[i]) THEN "readFrom" ELSE "readTo"
  <2>1. /\ GoTo(i, label) /\ pc[i] = "check"
        /\ UNCHANGED <<balance, rows, txn, img, current, raced>>
    BY <1>2 DEF Refuse, Leave, db
  <2>2. LocalTypeOK'
    BY <2>1, GoToTyped DEF Labels, Reading, LocalTypeOK
  <2>3. DbTypeOK'
    BY <2>1 DEF DbTypeOK
  <2>4. Sound(i)'
    <3>1. req[i] \in Requests /\ txn[i] = NoTxn
      BY <2>1 DEF Sound, RequestSound, TxnSound, Reading
    <3>2. Debits(req[i]) \/ Credits(req[i])
      BY <1>2, <3>1, RowOfRequest
    <3>3. /\ pc'[i] = label /\ req'[i] = req[i] /\ img'[i] = img[i]
          /\ reply'[i] = reply[i] /\ entered'[i] = entered[i]
          /\ txn'[i] = NoTxn /\ Locks(i)' = {} /\ Locks(i) = {}
      BY <2>1, <3>1, NoTxnNoLocks DEF GoTo, LocalTypeOK, Locks
    <3> QED
      BY <1>2, <2>1, <3>1, <3>2, <3>3
      DEF Sound, RequestSound, ImageSound, TxnSound, ReplySound, Fresh, InTxn,
          Reading
  <2>5. ASSUME NEW j \in Slots \ {i} PROVE Sound(j)'
    BY <2>1, <2>5, Untouched DEF LocalTypeOK, GoTo
  <2>6. Cardinality(Connected)' <= PoolSize
    BY <2>1, PoolKept
  <2>7. UnracedReconciled'
    BY <2>1, BooksUntouched
  <2> QED
    BY <2>1, <2>2, <2>3, <2>4, <2>5, <2>6, <2>7, InductiveNext
<1> QED
  BY <1>1, <1>2

-----------------------------------------------------------------------------
\* A step of slot i that commits nothing and opens no transaction keeps the
\* invariant if it keeps the types and the slot itself sound.
Apart(i) ==
  \A j \in Slots \ {i} :
    /\ pc'[j] = pc[j] /\ req'[j] = req[j] /\ img'[j] = img[j]
    /\ reply'[j] = reply[j] /\ entered'[j] = entered[j]
    /\ current'[j] = current[j] /\ txn'[j] = txn[j]

LEMMA QuietStep ==
  ASSUME Inductive, NEW i \in Slots, LocalTypeOK', DbTypeOK', Sound(i)',
         UNCHANGED <<balance, rows, raced>>, Apart(i),
         \A c \in Sessions : txn'[c] # NoTxn => txn[c] # NoTxn
  PROVE  Inductive'
<1> USE InductiveParts
<1>1. ASSUME NEW j \in Slots \ {i} PROVE Sound(j)'
  BY <1>1, Untouched DEF Apart
<1>2. Cardinality(Connected)' <= PoolSize
  BY PoolKept
<1>3. UnracedReconciled'
  BY BooksUntouched
<1> QED
  BY <1>1, <1>2, <1>3, InductiveNext

\* Reading the debited account keeps it: what is kept in memory is the balance
\* as committed, less the movement, and not negative.
LEMMA ReadFromInductive ==
  ASSUME Inductive, NEW i \in Slots, ReadFrom(i)
  PROVE  Inductive'
<1> DEFINE q == req[i]
           cents == balance[q.from]
           kept == IF Credits(q) THEN cents ELSE cents - Value(q)
<1> USE InductiveParts
<1>1. pc[i] = "readFrom" /\ UNCHANGED <<balance, rows, txn, entered>>
      /\ UNCHANGED db
  BY DEF ReadFrom, Refuse, GoTo, db
<1>2. /\ q \in Requests /\ Allowed(q) /\ Debits(q)
      /\ q.from \in Accounts /\ q.from # q.to /\ Value(q) \in 1..MaxCents
      /\ txn[i] = NoTxn
  BY <1>1, RowOfRequest, ValueInRange
  DEF Sound, RequestSound, TxnSound, Reading
<1>3. CASE kept < 0
  <2>1. Refuse(i) /\ Forgets(i)
    BY <1>1, <1>2, <1>3, PostingAssumption DEF ReadFrom, Cents
  <2> QED
    BY <1>1, <2>1, LeaveInductive DEF Refuse, Forgets, Reading, LocalTypeOK
<1>4. CASE kept >= 0
  <2>1. /\ img' = [img EXCEPT ![i].from = kept]
        /\ GoTo(i, IF Credits(q) THEN "readTo" ELSE "begin")
        /\ current' = [current EXCEPT ![i] = @ \cup {q.from}]
        /\ raced' = raced
    BY <1>4 DEF ReadFrom, Reads
  <2>2. cents \in Cents /\ kept \in Cents
    BY <1>2, <1>4, PostingAssumption DEF Cents
  <2>3. LocalTypeOK'
    <3>1. img' \in [Slots -> Image]
      BY <2>1, <2>2, PostingAssumption DEF LocalTypeOK, Image, Cents
    <3>2. current' \in [Slots -> SUBSET Accounts]
      BY <1>2, <2>1 DEF LocalTypeOK
    <3> QED
      BY <2>1, <3>1, <3>2, GoToTyped DEF LocalTypeOK, Labels, Reading
  <2>4. DbTypeOK'
    BY <1>1 DEF DbTypeOK
  <2>5. Apart(i)
    BY <1>1, <2>1 DEF Apart, GoTo, LocalTypeOK
  <2>6. Sound(i)'
    <3>1. /\ pc'[i] = (IF Credits(q) THEN "readTo" ELSE "begin")
          /\ img'[i].from = kept /\ img'[i].to = img[i].to
          /\ req'[i] = q /\ reply'[i] = reply[i] /\ entered'[i] = entered[i]
          /\ txn'[i] = NoTxn /\ Locks(i)' = {} /\ Locks(i) = {}
      BY <1>1, <1>2, <2>1, NoTxnNoLocks DEF GoTo, LocalTypeOK, Image, Locks
    <3>2. RequestSound(i)' /\ ImageSound(i)'
      BY <1>2, <2>2, <3>1 DEF Sound, RequestSound, ImageSound
    <3>3. TxnSound(i)' /\ ReplySound(i)'
      BY <1>1, <3>1 DEF Sound, TxnSound, ReplySound, InTxn, Reading
    <3>4. Fresh(i)'
      BY <1>1, <1>2, <3>1 DEF Fresh, InTxn
    <3> QED
      BY <3>2, <3>3, <3>4 DEF Sound
  <2> QED
    BY <1>1, <2>1, <2>3, <2>4, <2>5, <2>6, QuietStep
<1> QED
  BY <1>2, <1>3, <1>4, PostingAssumption DEF Cents

\* So does reading the credited account: the credit was checked for overflow.
LEMMA ReadToInductive ==
  ASSUME Inductive, NEW i \in Slots, ReadTo(i)
  PROVE  Inductive'
<1> DEFINE q == req[i]
           cents == balance[q.to]
           debited == IF Debits(q) THEN img[i].from - Value(q) ELSE 0
<1> USE InductiveParts
<1>1. pc[i] = "readTo" /\ UNCHANGED <<balance, rows, txn, entered>>
      /\ UNCHANGED db
  BY DEF ReadTo, Refuse, GoTo, db
<1>2. /\ q \in Requests /\ Allowed(q) /\ Credits(q)
      /\ q.to \in Accounts /\ q.from # q.to /\ Value(q) \in 1..MaxCents
      /\ txn[i] = NoTxn
  BY <1>1, RowOfRequest, ValueInRange
  DEF Sound, RequestSound, TxnSound, Reading
<1>3. cents \in Cents /\ debited \in Int /\ debited <= MaxCents
  BY <1>2, PostingAssumption DEF Sound, ImageSound, Cents
<1>4. CASE ~(debited >= 0 /\ cents + Value(q) <= MaxCents)
  <2>1. Refuse(i) /\ Forgets(i)
    BY <1>4 DEF ReadTo
  <2> QED
    BY <1>1, <2>1, LeaveInductive DEF Refuse, Forgets, Reading, LocalTypeOK
<1>5. CASE debited >= 0 /\ cents + Value(q) <= MaxCents
  <2>1. /\ img' = [img EXCEPT ![i] = [from |-> debited,
                                     to |-> cents + Value(q)]]
        /\ GoTo(i, "begin")
        /\ current' = [current EXCEPT ![i] = @ \cup {q.to}]
        /\ raced' = raced
    BY <1>5 DEF ReadTo, Reads
  <2>2. debited \in Cents /\ cents + Value(q) \in Cents
    BY <1>2, <1>3, <1>5, PostingAssumption DEF Cents
  <2>3. LocalTypeOK'
    <3>1. img' \in [Slots -> Image]
      BY <2>1, <2>2, PostingAssumption DEF LocalTypeOK, Image, Cents
    <3>2. current' \in [Slots -> SUBSET Accounts]
      BY <1>2, <2>1 DEF LocalTypeOK
    <3> QED
      BY <2>1, <3>1, <3>2, GoToTyped DEF LocalTypeOK, Labels
  <2>4. DbTypeOK'
    BY <1>1 DEF DbTypeOK
  <2>5. Apart(i)
    BY <1>1, <2>1 DEF Apart, GoTo, LocalTypeOK
  <2>6. Sound(i)'
    <3>1. /\ pc'[i] = "begin"
          /\ img'[i].from = debited /\ img'[i].to = cents + Value(q)
          /\ req'[i] = q /\ reply'[i] = reply[i] /\ entered'[i] = entered[i]
          /\ current'[i] = current[i] \cup {q.to}
          /\ txn'[i] = NoTxn /\ Locks(i)' = {} /\ Locks(i) = {}
      BY <1>1, <1>2, <2>1, NoTxnNoLocks DEF GoTo, LocalTypeOK, Locks
    <3>2. RequestSound(i)' /\ ImageSound(i)'
      BY <1>2, <2>2, <3>1 DEF Sound, RequestSound, ImageSound
    <3>3. TxnSound(i)' /\ ReplySound(i)'
      BY <1>1, <3>1 DEF Sound, TxnSound, ReplySound, InTxn, Reading
    <3>4. Debits(q) /\ q.from \in current[i] => img[i].from = balance[q.from]
      BY <1>1 DEF Sound, Fresh
    <3>5. Fresh(i)'
      BY <1>1, <1>2, <3>1, <3>4 DEF Fresh, InTxn
    <3> QED
      BY <3>2, <3>3, <3>5 DEF Sound
  <2> QED
    BY <1>1, <2>1, <2>3, <2>4, <2>5, <2>6, QuietStep
<1> QED
  BY <1>4, <1>5

\* BEGIN keeps it: a connection was free, and the session had no transaction.
LEMMA BeginInductive ==
  ASSUME Inductive, NEW i \in Slots, Begin(i)
  PROVE  Inductive'
<1> DEFINE q == req[i]
           label == IF Debits(q) THEN "updateFrom" ELSE "updateTo"
<1> USE InductiveParts, SlotIsSession
<1>1. /\ pc[i] = "begin" /\ ConnectionFree /\ GoTo(i, label)
      /\ UNCHANGED <<balance, rows, img, current, raced>>
      /\ txn' = [txn EXCEPT ![i].state = IF @ = "none" THEN "open" ELSE @]
  BY DEF Begin, BeginTxn
<1>2. /\ q \in Requests /\ Allowed(q) /\ txn[i] = NoTxn
      /\ Debits(q) \/ Credits(q)
  BY <1>1, RowOfRequest DEF Sound, RequestSound, TxnSound
<1>3. LocalTypeOK'
  BY <1>1, GoToTyped DEF Labels, InTxn, LocalTypeOK
<1>4. /\ txn'[i] = [NoTxn EXCEPT !.state = "open"]
      /\ \A c \in Sessions \ {i} : txn'[c] = txn[c]
  BY <1>1, <1>2, NoTxnIsEmpty DEF DbTypeOK
<1>5. DbTypeOK'
  BY <1>1, <1>2, <1>4, NoTxnIsEmpty DEF DbTypeOK, Txn
<1>6. Sound(i)'
  <2>1. /\ txn'[i].state = "open" /\ txn'[i].new = <<>>
        /\ txn'[i].wrote = [a \in Accounts |-> Unwritten]
    BY <1>4 DEF NoTxn
  <2>2. Locks(i)' = {}
    BY <2>1 DEF Locks
  <2>3. /\ pc'[i] = label /\ req'[i] = q /\ img'[i] = img[i]
        /\ reply'[i] = reply[i] /\ entered'[i] = entered[i]
        /\ current'[i] = current[i]
    BY <1>1 DEF GoTo, LocalTypeOK
  <2>4. RequestSound(i)' /\ ImageSound(i)' /\ ReplySound(i)'
    BY <1>1, <1>2, <2>3
    DEF Sound, RequestSound, ImageSound, ReplySound
  <2>5. Written(i)' = {}
    BY <2>3 DEF Written, WroteFrom, WroteTo
  <2>6. TxnSound(i)'
    BY <2>1, <2>2, <2>3, <2>5 DEF TxnSound, Reading
  <2>7. Fresh(i)'
    BY <1>1, <2>2, <2>3 DEF Sound, Fresh, InTxn
  <2> QED
    BY <2>4, <2>6, <2>7 DEF Sound
<1>7. ASSUME NEW j \in Slots \ {i} PROVE Sound(j)'
  BY <1>1, <1>4, <1>7, Untouched DEF GoTo, LocalTypeOK
<1>8. Cardinality(Connected)' <= PoolSize
  BY <1>1, <1>4, PoolTakes
<1>9. UnracedReconciled'
  BY <1>1, BooksUntouched
<1> QED
  BY <1>1, <1>3, <1>5, <1>6, <1>7, <1>8, <1>9, InductiveNext

-----------------------------------------------------------------------------
\* An UPDATE, as its effect on the transaction.
LEMMA UpdateEffect ==
  ASSUME DbTypeOK, NEW i \in Slots, NEW a \in Accounts, NEW cents \in Cents,
         \A b \in Locks(i) : txn[i].wrote[b] \in Cents,
         UpdateRow(i, a, cents)
  PROVE  /\ DbTypeOK' /\ UNCHANGED <<balance, rows>>
         /\ txn[i].state = "open" /\ txn'[i].state = "open"
         /\ txn'[i].new = txn[i].new
         /\ txn'[i].wrote = [txn[i].wrote EXCEPT ![a] = cents]
         /\ Locks(i)' = Locks(i) \cup {a}
         /\ \A b \in Locks(i)' : txn'[i].wrote[b] \in Cents
         /\ \A c \in Sessions \ {i} : txn'[c] = txn[c]
<1>1. txn \in [Sessions -> Txn] /\ i \in Sessions /\ txn[i] \in Txn
  BY SlotIsSession DEF DbTypeOK
<1>2. cents \in Int /\ cents # Unwritten
  BY PostingAssumption, PostgresAssumption DEF Cents
<1>3. txn'[i] = [txn[i] EXCEPT !.wrote[a] = cents]
      /\ \A c \in Sessions \ {i} : txn'[c] = txn[c]
  BY <1>1 DEF UpdateRow
<1>4. /\ txn[i].state = "open"
      /\ txn'[i].state = "open" /\ txn'[i].new = txn[i].new
      /\ txn'[i].wrote = [txn[i].wrote EXCEPT ![a] = cents]
  BY <1>1, <1>3 DEF UpdateRow, Txn
<1>5. txn'[i] \in Txn
  <2>1. txn[i].wrote \in [Accounts -> Int \cup {Unwritten}]
    BY <1>1 DEF Txn
  <2>2. [txn[i].wrote EXCEPT ![a] = cents]
          \in [Accounts -> Int \cup {Unwritten}]
    BY <1>2, <2>1
  <2>3. txn'[i] = [txn[i] EXCEPT !.wrote = [txn[i].wrote EXCEPT ![a] = cents]]
    BY <1>3
  <2> QED
    BY <1>1, <2>2, <2>3 DEF Txn
<1>6. DbTypeOK'
  BY <1>1, <1>5 DEF DbTypeOK, UpdateRow
<1>7. Locks(i)' = Locks(i) \cup {a}
  BY <1>1, <1>2, <1>4 DEF Locks, Txn
<1>8. \A b \in Locks(i)' : txn'[i].wrote[b] \in Cents
  BY <1>1, <1>4, <1>7 DEF Locks, Txn
<1> QED
  BY <1>3, <1>4, <1>6, <1>7, <1>8 DEF UpdateRow

\* A session with an open transaction has one.
LEMMA OpenIsConnected ==
  ASSUME NEW s, txn[s].state # "none"
  PROVE  txn[s] # NoTxn
BY NoTxnIsEmpty

\* Writing the debited account keeps the invariant.
LEMMA UpdateFromInductive ==
  ASSUME Inductive, NEW i \in Slots, UpdateFrom(i)
  PROVE  Inductive'
<1> DEFINE q == req[i]
           label == IF Credits(q) THEN "updateTo" ELSE "insert"
<1> USE InductiveParts
<1>1. /\ pc[i] = "updateFrom" /\ UpdateRow(i, q.from, img[i].from)
      /\ GoTo(i, label) /\ UNCHANGED <<img, current, raced>>
  BY DEF UpdateFrom
<1>2. /\ q \in Requests /\ Allowed(q) /\ Debits(q)
      /\ q.from \in Accounts /\ q.from # q.to
      /\ img[i].from \in Cents
      /\ \A b \in Locks(i) : txn[i].wrote[b] \in Cents
      /\ Locks(i) = {} /\ txn[i].new = <<>>
  BY <1>1, RowOfRequest
  DEF Sound, RequestSound, ImageSound, TxnSound, InTxn, Written, WroteFrom,
      WroteTo
<1>3. /\ DbTypeOK' /\ UNCHANGED <<balance, rows>>
      /\ txn[i].state = "open" /\ txn'[i].state = "open"
      /\ txn'[i].new = <<>>
      /\ txn'[i].wrote = [txn[i].wrote EXCEPT ![q.from] = img[i].from]
      /\ Locks(i)' = {q.from}
      /\ \A b \in Locks(i)' : txn'[i].wrote[b] \in Cents
      /\ \A c \in Sessions \ {i} : txn'[c] = txn[c]
  BY <1>1, <1>2, UpdateEffect
<1>4. LocalTypeOK'
  BY <1>1, GoToTyped DEF Labels, InTxn, LocalTypeOK
<1>5. Apart(i)
  BY <1>1, <1>3, SlotIsSession DEF Apart, GoTo, LocalTypeOK
<1>6. Sound(i)'
  <2>1. /\ pc'[i] = label /\ req'[i] = q /\ img'[i] = img[i]
        /\ reply'[i] = reply[i] /\ entered'[i] = entered[i]
        /\ current'[i] = current[i]
    BY <1>1 DEF GoTo, LocalTypeOK
  <2>2. txn'[i].wrote[q.from] = img[i].from
    BY <1>2, <1>3, SlotIsSession DEF DbTypeOK, Txn
  <2>3. RequestSound(i)' /\ ImageSound(i)' /\ ReplySound(i)'
    BY <1>1, <1>2, <2>1
    DEF Sound, RequestSound, ImageSound, ReplySound
  <2>4. TxnSound(i)'
    BY <1>2, <1>3, <2>1
    DEF TxnSound, Written, WroteFrom, WroteTo, InTxn, Reading
  <2>5. Fresh(i)'
    BY <1>1, <1>2, <1>3, <2>1, <2>2, RowSays
    DEF Sound, Fresh, InTxn, PostedTo
  <2> QED
    BY <2>3, <2>4, <2>5 DEF Sound
<1>7. \A c \in Sessions : txn'[c] # NoTxn => txn[c] # NoTxn
  BY <1>3, OpenIsConnected
<1> QED
  BY <1>1, <1>3, <1>4, <1>5, <1>6, <1>7, QuietStep

\* So does writing the credited account.
LEMMA UpdateToInductive ==
  ASSUME Inductive, NEW i \in Slots, UpdateTo(i)
  PROVE  Inductive'
<1> DEFINE q == req[i]
<1> USE InductiveParts
<1>1. /\ pc[i] = "updateTo" /\ UpdateRow(i, q.to, img[i].to)
      /\ GoTo(i, "insert") /\ UNCHANGED <<img, current, raced>>
  BY DEF UpdateTo
<1>2. /\ q \in Requests /\ Allowed(q) /\ Credits(q)
      /\ q.to \in Accounts /\ q.from \in Accounts /\ q.from # q.to
      /\ img[i].to \in Cents
      /\ \A b \in Locks(i) : txn[i].wrote[b] \in Cents
      /\ Locks(i) = Written(i) /\ txn[i].new = <<>>
  BY <1>1, RowOfRequest
  DEF Sound, RequestSound, ImageSound, TxnSound, InTxn
<1>3. /\ DbTypeOK' /\ UNCHANGED <<balance, rows>>
      /\ txn[i].state = "open" /\ txn'[i].state = "open"
      /\ txn'[i].new = <<>>
      /\ txn'[i].wrote = [txn[i].wrote EXCEPT ![q.to] = img[i].to]
      /\ Locks(i)' = Locks(i) \cup {q.to}
      /\ \A b \in Locks(i)' : txn'[i].wrote[b] \in Cents
      /\ \A c \in Sessions \ {i} : txn'[c] = txn[c]
  BY <1>1, <1>2, UpdateEffect
<1>4. LocalTypeOK'
  BY <1>1, GoToTyped DEF Labels, InTxn, LocalTypeOK
<1>5. Apart(i)
  BY <1>1, <1>3, SlotIsSession DEF Apart, GoTo, LocalTypeOK
<1>6. Sound(i)'
  <2>1. /\ pc'[i] = "insert" /\ req'[i] = q /\ img'[i] = img[i]
        /\ reply'[i] = reply[i] /\ entered'[i] = entered[i]
        /\ current'[i] = current[i]
    BY <1>1 DEF GoTo, LocalTypeOK
  <2>2. /\ txn'[i].wrote[q.to] = img[i].to
        /\ \A b \in Locks(i) \ {q.to} : txn'[i].wrote[b] = txn[i].wrote[b]
    BY <1>2, <1>3, SlotIsSession DEF DbTypeOK, Txn, Locks
  <2>3. RequestSound(i)' /\ ImageSound(i)' /\ ReplySound(i)'
    BY <1>1, <1>2, <2>1
    DEF Sound, RequestSound, ImageSound, ReplySound
  <2>4. TxnSound(i)'
    <3>1. Locks(i)' = Written(i)'
      BY <1>1, <1>2, <1>3, <2>1 DEF Written, WroteFrom, WroteTo
    <3> QED
      BY <1>3, <2>1, <3>1 DEF TxnSound, InTxn, Reading
  <2>5. Fresh(i)'
    <3>1. \A a \in Locks(i) \cap current[i] :
            txn[i].wrote[a] = PostedTo(balance[a], RowOf(q), a)
      BY <1>1 DEF Sound, Fresh, InTxn
    <3>2. q.to \in current[i] => img[i].to = balance[q.to] + Value(q)
      BY <1>1, <1>2 DEF Sound, Fresh, InTxn
    <3>3. PostedTo(balance[q.to], RowOf(q), q.to) = balance[q.to] + Value(q)
      BY <1>2, RowSays DEF PostedTo
    <3>4. \A a \in Locks(i)' \cap current[i] :
            txn'[i].wrote[a] = PostedTo(balance[a], RowOf(q), a)
      BY <1>3, <2>2, <3>1, <3>2, <3>3
    <3> QED
      BY <1>1, <1>3, <2>1, <3>4 DEF Sound, Fresh, InTxn
  <2> QED
    BY <2>3, <2>4, <2>5 DEF Sound
<1>7. \A c \in Sessions : txn'[c] # NoTxn => txn[c] # NoTxn
  BY <1>3, OpenIsConnected
<1> QED
  BY <1>1, <1>3, <1>4, <1>5, <1>6, <1>7, QuietStep

\* So does the INSERT: it enters the row of the request, once.
LEMMA InsertInductive ==
  ASSUME Inductive, NEW i \in Slots, Insert(i)
  PROVE  Inductive'
<1> DEFINE q == req[i]
<1> USE InductiveParts
<1>1. /\ pc[i] = "insert" /\ GoTo(i, "commit")
      /\ UNCHANGED <<balance, rows, img, current, raced>>
      /\ txn[i].state = "open"
      /\ txn' = [txn EXCEPT ![i].new = Append(@, RowOf(q))]
  BY DEF Insert, InsertRow
<1>2. /\ q \in Requests /\ Allowed(q) /\ RowOf(q) \in Row
      /\ Locks(i) = Written(i) /\ txn[i].new = <<>>
  BY <1>1, RowOfRequest
  DEF Sound, RequestSound, TxnSound, InTxn
<1>3. txn \in [Sessions -> Txn] /\ i \in Sessions /\ txn[i] \in Txn
  BY SlotIsSession DEF DbTypeOK
<1>4. /\ txn'[i] = [txn[i] EXCEPT !.new = <<RowOf(q)>>]
      /\ \A c \in Sessions \ {i} : txn'[c] = txn[c]
  BY <1>1, <1>2, <1>3
<1>5. /\ txn'[i].new = <<RowOf(q)>> /\ txn'[i].wrote = txn[i].wrote
      /\ txn'[i].state = "open"
  BY <1>1, <1>3, <1>4 DEF Txn
<1>6. DbTypeOK'
  <2>1. <<RowOf(q)>> \in Seq(Row)
    BY <1>2
  <2>2. txn'[i] \in Txn
    BY <1>3, <1>4, <2>1 DEF Txn
  <2> QED
    BY <1>1, <1>3, <2>2 DEF DbTypeOK
<1>7. LocalTypeOK'
  BY <1>1, GoToTyped DEF Labels, InTxn, LocalTypeOK
<1>8. Apart(i)
  BY <1>1, <1>4, SlotIsSession DEF Apart, GoTo, LocalTypeOK
<1>9. Sound(i)'
  <2>1. /\ pc'[i] = "commit" /\ req'[i] = q /\ img'[i] = img[i]
        /\ reply'[i] = reply[i] /\ entered'[i] = entered[i]
        /\ current'[i] = current[i]
    BY <1>1 DEF GoTo, LocalTypeOK
  <2>2. Locks(i)' = Locks(i)
    BY <1>5 DEF Locks
  <2>3. RequestSound(i)' /\ ImageSound(i)' /\ ReplySound(i)'
    BY <1>1, <1>2, <2>1
    DEF Sound, RequestSound, ImageSound, ReplySound
  <2>4. Written(i)' = Written(i)
    BY <1>1, <2>1 DEF Written, WroteFrom, WroteTo
  <2>5. TxnSound(i)'
    BY <1>2, <1>5, <2>1, <2>2, <2>4 DEF Sound, TxnSound, InTxn, Reading
  <2>6. Fresh(i)'
    BY <1>1, <1>5, <2>1, <2>2 DEF Sound, Fresh, InTxn
  <2> QED
    BY <2>3, <2>5, <2>6 DEF Sound
<1>10. \A c \in Sessions : txn'[c] # NoTxn => txn[c] # NoTxn
  BY <1>1, <1>4, OpenIsConnected
<1> QED
  BY <1>1, <1>6, <1>7, <1>8, <1>9, <1>10, QuietStep

-----------------------------------------------------------------------------
\* What a COMMIT that takes effect does, whether or not the task still waits
\* for it.
LEMMA CommitEffect ==
  ASSUME Inductive, NEW i \in Slots, pc[i] \in {"commit", "landing"}, Enter(i)
  PROVE  /\ RowOf(req[i]) \in Row /\ RowOf(req[i]).from # RowOf(req[i]).to
         /\ rows' = Append(rows, RowOf(req[i]))
         /\ Locks(i) = Sides(RowOf(req[i]))
         /\ \A a \in Locks(i) :
              balance'[a] = txn[i].wrote[a] /\ balance'[a] \in Cents
         /\ \A a \in Accounts \ Locks(i) : balance'[a] = balance[a]
         /\ balance' \in [Accounts -> Cents]
         /\ txn'[i] = NoTxn /\ \A c \in Sessions \ {i} : txn'[c] = txn[c]
         /\ txn' \in [Sessions -> Txn]
         /\ entered' = [entered EXCEPT ![i] = TRUE]
<1> DEFINE q == req[i]
<1> USE InductiveParts
<1>1. /\ q \in Requests /\ Allowed(q)
      /\ txn[i].new = <<RowOf(q)>> /\ Locks(i) = Written(i)
      /\ \A a \in Locks(i) : txn[i].wrote[a] \in Cents
  BY DEF Sound, RequestSound, TxnSound, InTxn
<1>2. RowOf(q) \in Row /\ RowOf(q).from # RowOf(q).to
  BY <1>1, RowOfRequest, RowSays
<1>3. Locks(i) = Sides(RowOf(q))
  BY <1>1, RowSays DEF Sides, Written, WroteFrom, WroteTo
<1>4. /\ balance' = [a \in Accounts |-> Visible(i, a)]
      /\ rows' = rows \o <<RowOf(q)>>
      /\ txn' = [txn EXCEPT ![i] = NoTxn]
      /\ entered' = [entered EXCEPT ![i] = TRUE]
  BY <1>1 DEF Enter, ApplyTxn
<1>5. rows' = Append(rows, RowOf(q))
  BY <1>2, <1>4 DEF DbTypeOK
<1>6. \A a \in Locks(i) :
        balance'[a] = txn[i].wrote[a] /\ balance'[a] \in Cents
  BY <1>1, <1>4 DEF Visible, Locks
<1>7. \A a \in Accounts \ Locks(i) : balance'[a] = balance[a]
  BY <1>4 DEF Visible, Locks
<1>8. balance' \in [Accounts -> Cents]
  BY <1>4, <1>6, <1>7
<1>9. /\ txn'[i] = NoTxn /\ \A c \in Sessions \ {i} : txn'[c] = txn[c]
      /\ txn' \in [Sessions -> Txn]
  BY <1>4, SlotIsSession, NoTxnIsEmpty DEF DbTypeOK
<1> QED
  BY <1>2, <1>3, <1>4, <1>5, <1>6, <1>7, <1>8, <1>9

\* A slot stays sound when another one commits: what it read of the accounts
\* that one wrote no longer counts as current.
LEMMA OthersCommit ==
  ASSUME NEW j \in Slots, Sound(j), NEW W,
         pc'[j] = pc[j], req'[j] = req[j], img'[j] = img[j],
         reply'[j] = reply[j], entered'[j] = entered[j], txn'[j] = txn[j],
         current[j] \subseteq Accounts, current'[j] = current[j] \ W,
         \A a \in Accounts \ W : balance'[a] = balance[a]
  PROVE  Sound(j)'
<1>1. Locks(j)' = Locks(j)
  BY DEF Locks
<1>2. Written(j)' = Written(j)
  BY DEF Written, WroteFrom, WroteTo
<1>3. RequestSound(j)' /\ ImageSound(j)' /\ ReplySound(j)' /\ TxnSound(j)'
  BY <1>1, <1>2
  DEF Sound, RequestSound, ImageSound, TxnSound, ReplySound
<1>4. \A a \in current'[j] : a \in current[j] /\ balance'[a] = balance[a]
  OBVIOUS
<1>5. Fresh(j)'
  BY <1>1, <1>4 DEF Sound, Fresh
<1> QED
  BY <1>3, <1>5 DEF Sound

\* The commit keeps the invariant: an account is written from what was read of
\* it, unless somebody else has written it since, and then it is raced.
LEMMA EnterInductive ==
  ASSUME Inductive, NEW i \in Slots, pc[i] \in {"commit", "landing"}, Enter(i),
         NEW answer \in {"ok", "none", "failed"}, Leave(i, "idle", answer)
  PROVE  Inductive'
<1> DEFINE r == RowOf(req[i])
<1> USE InductiveParts
<1>1. /\ r \in Row /\ r.from # r.to /\ rows' = Append(rows, r)
      /\ Locks(i) = Sides(r)
      /\ \A a \in Locks(i) :
           balance'[a] = txn[i].wrote[a] /\ balance'[a] \in Cents
      /\ \A a \in Accounts \ Locks(i) : balance'[a] = balance[a]
      /\ balance' \in [Accounts -> Cents]
      /\ txn'[i] = NoTxn /\ \A c \in Sessions \ {i} : txn'[c] = txn[c]
      /\ txn' \in [Sessions -> Txn]
      /\ entered' = [entered EXCEPT ![i] = TRUE]
  BY CommitEffect
<1>2. /\ raced' = raced \cup (Locks(i) \ current[i])
      /\ current' = [j \in Slots |->
                       IF j = i THEN {} ELSE current[j] \ Locks(i)]
  BY DEF Enter
<1>3. DbTypeOK'
  <2>1. rows' \in Seq(Row)
    BY <1>1 DEF DbTypeOK
  <2> QED
    BY <1>1, <2>1, PostingAssumption DEF DbTypeOK, Cents
<1>4. LocalTypeOK'
  <2>1. entered' \in [Slots -> BOOLEAN]
    BY <1>1 DEF LocalTypeOK
  <2>2. current' \in [Slots -> SUBSET Accounts] /\ raced' \subseteq Accounts
    BY <1>2 DEF LocalTypeOK, Locks
  <2> QED
    BY <2>1, <2>2, LeaveTyped DEF Labels
<1>5. Sound(i)'
  BY <1>1, LeftSound DEF LocalTypeOK
<1>6. ASSUME NEW j \in Slots \ {i} PROVE Sound(j)'
  <2>1. /\ pc'[j] = pc[j] /\ req'[j] = req[j] /\ img'[j] = img[j]
        /\ reply'[j] = reply[j]
    BY DEF Leave, LocalTypeOK
  <2>2. entered'[j] = entered[j] /\ txn'[j] = txn[j]
    BY <1>1, SlotIsSession DEF LocalTypeOK
  <2>3. current[j] \subseteq Accounts /\ current'[j] = current[j] \ Locks(i)
    BY <1>2 DEF LocalTypeOK
  <2> QED
    BY <1>1, <2>1, <2>2, <2>3, OthersCommit
<1>7. Cardinality(Connected)' <= PoolSize
  BY <1>1, PoolKept
<1>8. UnracedReconciled'
  <2> SUFFICES ASSUME NEW a \in Accounts, a \notin raced', a # Bank
               PROVE  balance'[a] = Opening[a] + NetOf(rows', a)
    BY DEF UnracedReconciled
  <2>1. balance[a] \in Int /\ balance[a] = Opening[a] + NetOf(rows, a)
    BY <1>2 DEF UnracedReconciled, DbTypeOK
  <2>2. PostedTo(balance[a], r, a) = Opening[a] + NetOf(Append(rows, r), a)
    BY <1>1, <2>1, PostingKeepsExplained DEF DbTypeOK
  <2>3. balance'[a] = PostedTo(balance[a], r, a)
    <3>1. CASE a \in Locks(i)
      <4>1. a \in current[i]
        BY <1>2, <3>1
      <4> QED
        BY <1>1, <3>1, <4>1 DEF Sound, Fresh, InTxn
    <3>2. CASE a \notin Locks(i)
      BY <1>1, <3>2 DEF Sides, PostedTo
    <3> QED
      BY <3>1, <3>2
  <2> QED
    BY <1>1, <2>2, <2>3
<1> QED
  BY <1>1, <1>3, <1>4, <1>5, <1>6, <1>7, <1>8, InductiveNext

-----------------------------------------------------------------------------
\* A session that rolls back keeps the database typed.
LEMMA RollbackTyped ==
  ASSUME DbTypeOK, NEW s \in Sessions, RollbackTxn(s)
  PROVE  /\ DbTypeOK' /\ UNCHANGED <<balance, rows>> /\ txn'[s] = NoTxn
         /\ \A c \in Sessions \ {s} : txn'[c] = txn[c]
         /\ \A c \in Sessions : txn'[c] # NoTxn => txn[c] # NoTxn
BY NoTxnIsEmpty DEF RollbackTxn, DbTypeOK

\* The ROLLBACK of a connection that was left behind keeps the invariant.
LEMMA RecycleInductive ==
  ASSUME Inductive, NEW i \in Slots, Recycle(i)
  PROVE  Inductive'
<1> USE InductiveParts, SlotIsSession
<1>1. /\ pc[i] = "recycle" /\ GoTo(i, "idle")
      /\ current' = [current EXCEPT ![i] = {}]
      /\ UNCHANGED <<img, raced>>
  BY DEF Recycle, Forgets
<1>2. /\ DbTypeOK' /\ UNCHANGED <<balance, rows>> /\ txn'[i] = NoTxn
      /\ \A c \in Sessions \ {i} : txn'[c] = txn[c]
      /\ \A c \in Sessions : txn'[c] # NoTxn => txn[c] # NoTxn
  BY RollbackTyped DEF Recycle
<1>3. LocalTypeOK'
  BY <1>1, GoToTyped DEF Labels, LocalTypeOK
<1>4. Apart(i)
  BY <1>1, <1>2 DEF Apart, GoTo, LocalTypeOK
<1>5. Sound(i)'
  <2>1. /\ pc'[i] = "idle" /\ img'[i] = img[i] /\ reply'[i] = reply[i]
        /\ Locks(i)' = {}
    BY <1>1, <1>2, NoTxnIsEmpty DEF GoTo, LocalTypeOK, Locks
  <2> QED
    BY <1>1, <1>2, <2>1
    DEF Sound, RequestSound, ImageSound, TxnSound, ReplySound, Fresh, InTxn,
        Reading
<1> QED
  BY <1>1, <1>2, <1>3, <1>4, <1>5, QuietStep

\* So does losing a connection inside the transaction.
LEMMA SessionLostInductive ==
  ASSUME Inductive, NEW i \in Slots, SessionLost(i)
  PROVE  Inductive'
<1> USE InductiveParts, SlotIsSession
<1>1. /\ Leave(i, "idle", "failed")
      /\ current' = [current EXCEPT ![i] = {}]
      /\ UNCHANGED <<entered, raced>>
  BY DEF SessionLost, Forgets
<1>2. /\ DbTypeOK' /\ UNCHANGED <<balance, rows>> /\ txn'[i] = NoTxn
      /\ \A c \in Sessions \ {i} : txn'[c] = txn[c]
      /\ \A c \in Sessions : txn'[c] # NoTxn => txn[c] # NoTxn
  BY RollbackTyped DEF SessionLost
<1>3. LocalTypeOK'
  BY <1>1, LeaveTyped DEF Labels, LocalTypeOK
<1>4. Apart(i)
  BY <1>1, <1>2 DEF Apart, Leave, LocalTypeOK
<1>5. Sound(i)'
  BY <1>1, <1>2, LeftSound
<1> QED
  BY <1>1, <1>2, <1>3, <1>4, <1>5, QuietStep

\* A task that leaves its transaction to be rolled back keeps it.
LEMMA LeftToRecycle ==
  ASSUME Inductive, NEW i \in Slots, pc[i] \in InTxn,
         NEW answer \in {"none", "failed"}, Leave(i, "recycle", answer),
         UNCHANGED <<balance, rows, entered, current, raced>>,
         DbTypeOK', txn'[i].state # "none", txn'[i].wrote = txn[i].wrote,
         \A c \in Sessions \ {i} : txn'[c] = txn[c]
  PROVE  Inductive'
<1> USE InductiveParts, SlotIsSession
<1>1. LocalTypeOK'
  BY LeaveTyped DEF Labels, LocalTypeOK
<1>2. Apart(i)
  BY DEF Apart, Leave, LocalTypeOK
<1>3. Sound(i)'
  <2>1. /\ pc'[i] = "recycle" /\ img'[i] = NoImage /\ reply'[i] = answer
        /\ Locks(i)' = Locks(i)
    BY DEF Leave, LocalTypeOK, Locks
  <2>2. ~entered'[i] /\ \A a \in Locks(i) : txn[i].wrote[a] \in Cents
    BY DEF Sound, ReplySound, TxnSound, InTxn
  <2> QED
    BY <2>1, <2>2, PostingAssumption
    DEF Sound, RequestSound, ImageSound, TxnSound, ReplySound, Fresh, InTxn,
        Reading, NoImage, Cents
<1>4. txn[i] # NoTxn
  BY OpenIsConnected DEF Sound, TxnSound
<1>5. \A c \in Sessions : txn'[c] # NoTxn => txn[c] # NoTxn
  BY <1>4
<1> QED
  BY <1>1, <1>2, <1>3, <1>5, QuietStep

\* A statement the server refuses, to break a deadlock or for another reason,
\* leaves the transaction to be rolled back.
LEMMA StatementFailsInductive ==
  ASSUME Inductive, NEW i \in Slots, StatementFails(i)
  PROVE  Inductive'
<1> USE InductiveParts, SlotIsSession
<1>1. /\ pc[i] \in InTxn /\ Leave(i, "recycle", "failed")
      /\ UNCHANGED <<balance, rows, entered, current, raced>>
      /\ txn' = [txn EXCEPT ![i].state = "failed"]
  BY DEF StatementFails, FailStatement
<1>2. txn \in [Sessions -> Txn] /\ txn[i] \in Txn
  BY DEF DbTypeOK
<1>3. /\ txn'[i] = [txn[i] EXCEPT !.state = "failed"]
      /\ \A c \in Sessions \ {i} : txn'[c] = txn[c]
  BY <1>1, <1>2
<1>4. /\ txn'[i].state = "failed" /\ txn'[i].wrote = txn[i].wrote
      /\ txn'[i] \in Txn
  BY <1>2, <1>3 DEF Txn
<1>5. DbTypeOK'
  BY <1>1, <1>2, <1>4 DEF DbTypeOK
<1> QED
  BY <1>1, <1>3, <1>4, <1>5, LeftToRecycle

\* A client that goes away before the transaction, inside it, or while its
\* COMMIT is under way leaves the invariant as it is.
LEMMA DroppedInductive ==
  ASSUME Inductive, NEW i \in Slots, Dropped(i)
  PROVE  Inductive'
<1> USE InductiveParts, SlotIsSession
<1>1. /\ UNCHANGED <<balance, rows, txn, entered>> /\ UNCHANGED db
      /\ IF txn[i] = NoTxn THEN Forgets(i) ELSE UNCHANGED <<current, raced>>
  BY DEF Dropped, db
<1>2. CASE pc[i] \in Reading \cup {"begin"} /\ Leave(i, "idle", "none")
  <2>1. Forgets(i)
    BY <1>1, <1>2 DEF Sound, TxnSound
  <2> QED
    BY <1>1, <1>2, <2>1, LeaveInductive DEF Forgets, LocalTypeOK
<1>3. ASSUME pc[i] \in InTxn
      PROVE  txn[i].state # "none" /\ UNCHANGED <<current, raced>>
  BY <1>1, <1>3, OpenIsConnected DEF Sound, TxnSound
<1>4. CASE pc[i] \in InTxn /\ Leave(i, "recycle", "none")
  <2>1. DbTypeOK'
    BY <1>1 DEF DbTypeOK
  <2> QED
    BY <1>1, <1>3, <1>4, <2>1, LeftToRecycle
<1>5. CASE pc[i] = "commit" /\ Leave(i, "landing", "none")
  <2>1. UNCHANGED <<current, raced>>
    BY <1>3, <1>5 DEF InTxn
  <2>2. DbTypeOK'
    BY <1>1 DEF DbTypeOK
  <2>3. LocalTypeOK'
    BY <1>1, <1>5, <2>1, LeaveTyped DEF Labels, LocalTypeOK
  <2>4. Apart(i)
    BY <1>1, <1>5, <2>1 DEF Apart, Leave, LocalTypeOK
  <2>5. Sound(i)'
    <3>1. /\ pc'[i] = "landing" /\ req'[i] = req[i] /\ img'[i] = NoImage
          /\ reply'[i] = "none" /\ Locks(i)' = Locks(i)
      BY <1>1, <1>5 DEF Leave, LocalTypeOK, Locks
    <3>2. Written(i)' = Written(i)
      BY <1>5, <3>1 DEF Written, WroteFrom, WroteTo
    <3>3. RequestSound(i)' /\ ImageSound(i)' /\ ReplySound(i)'
      BY <1>1, <1>5, <3>1, PostingAssumption
      DEF Sound, RequestSound, ImageSound, ReplySound, NoImage, Cents
    <3>4. TxnSound(i)'
      BY <1>1, <1>5, <3>1, <3>2 DEF Sound, TxnSound, InTxn, Reading
    <3>5. Fresh(i)'
      BY <1>1, <1>5, <2>1, <3>1 DEF Sound, Fresh, InTxn
    <3> QED
      BY <3>3, <3>4, <3>5 DEF Sound
  <2> QED
    BY <1>1, <2>1, <2>2, <2>3, <2>4, <2>5, QuietStep
<1> QED
  BY <1>2, <1>4, <1>5 DEF Dropped

\* The routes that only read borrow a free connection and give it back.
LEMMA ReadersInductive ==
  ASSUME Inductive, NEW c \in Readers, Borrow(c) \/ GiveBack(c)
  PROVE  Inductive'
<1> USE InductiveParts
<1>1. /\ UNCHANGED <<balance, rows, pc, req, img, reply, entered, current>>
      /\ UNCHANGED raced /\ c \in Sessions /\ c \notin Slots
  BY DEF Borrow, GiveBack, BeginTxn, RollbackTxn, Readers
<1>2. /\ \A s \in Sessions \ {c} : txn'[s] = txn[s]
      /\ DbTypeOK'
  <2>1. CASE GiveBack(c)
    BY <1>1, <2>1, RollbackTyped DEF GiveBack
  <2>2. CASE Borrow(c)
    <3>1. txn' = [txn EXCEPT ![c].state = "open"]
      BY <1>1, <2>2, NoTxnIsEmpty DEF Borrow, BeginTxn, DbTypeOK
    <3>2. [NoTxn EXCEPT !.state = "open"] \in Txn
      BY NoTxnIsEmpty DEF Txn
    <3> QED
      BY <1>1, <2>2, <3>1, <3>2 DEF Borrow, DbTypeOK
  <2> QED
    BY <2>1, <2>2
<1>3. LocalTypeOK'
  BY <1>1 DEF LocalTypeOK
<1>4. ASSUME NEW j \in Slots PROVE Sound(j)'
  BY <1>1, <1>2, SlotIsSession, Untouched
<1>5. Cardinality(Connected)' <= PoolSize
  <2>1. CASE Borrow(c)
    BY <1>1, <1>2, <2>1, PoolTakes DEF Borrow
  <2>2. CASE GiveBack(c)
    BY <1>1, <2>2, RollbackTyped, PoolKept DEF GiveBack
  <2> QED
    BY <2>1, <2>2
<1>6. UnracedReconciled'
  BY <1>1, BooksUntouched
<1> QED
  BY <1>1, <1>2, <1>3, <1>4, <1>5, <1>6, InductiveNext

\* A restart forgets everything but what was committed.
LEMMA RestartInductive ==
  ASSUME Inductive, Restart
  PROVE  Inductive'
<1> USE InductiveParts DEF Restart
<1>1. DbTypeOK'
  BY NoTxnIsEmpty DEF DbTypeOK
<1>2. LocalTypeOK'
  BY DEF LocalTypeOK, Labels, NoImage, Image
<1>3. ASSUME NEW i \in Slots PROVE Sound(i)'
  <2>1. /\ pc'[i] = "idle" /\ txn'[i] = NoTxn /\ img'[i] = NoImage
        /\ reply'[i] = "none" /\ entered'[i] = FALSE
    BY SlotIsSession
  <2>2. Locks(i)' = {}
    BY <2>1, NoTxnIsEmpty DEF Locks
  <2> QED
    BY <2>1, <2>2, PostingAssumption
    DEF Sound, RequestSound, ImageSound, TxnSound, ReplySound, Fresh, InTxn,
        Reading, NoImage, Cents
<1>4. Cardinality(Connected)' <= PoolSize
  BY PoolKept
<1>5. UnracedReconciled'
  BY BooksUntouched
<1> QED
  BY <1>1, <1>2, <1>3, <1>4, <1>5, InductiveNext

LEMMA StutterInductive ==
  ASSUME Inductive, UNCHANGED vars
  PROVE  Inductive'
<1> USE InductiveParts DEF vars
<1>1. DbTypeOK' /\ LocalTypeOK'
  BY DEF DbTypeOK, LocalTypeOK
<1>2. ASSUME NEW i \in Slots PROVE Sound(i)'
  BY <1>2, Untouched
<1>3. Cardinality(Connected)' <= PoolSize
  BY PoolKept
<1>4. UnracedReconciled'
  BY BooksUntouched
<1> QED
  BY <1>1, <1>2, <1>3, <1>4, InductiveNext

\* Every step keeps the invariant, action by action.
LEMMA NextInductive ==
  ASSUME Inductive, [Next]_vars
  PROVE  Inductive'
<1>1. CASE UNCHANGED vars
  BY <1>1, StutterInductive
<1>2. CASE Restart
  BY <1>2, RestartInductive
<1>3. CASE \E c \in Readers : Borrow(c) \/ GiveBack(c)
  BY <1>3, ReadersInductive
<1>4. ASSUME NEW i \in Slots, Accept(i) \/ Serve(i) \/ Fault(i)
      PROVE  Inductive'
  <2>1. CASE Accept(i)
    BY <2>1, AcceptInductive
  <2>2. CASE Check(i)
    BY <2>2, CheckInductive
  <2>3. CASE ReadFrom(i)
    BY <2>3, ReadFromInductive
  <2>4. CASE ReadTo(i)
    BY <2>4, ReadToInductive
  <2>5. CASE Begin(i)
    BY <2>5, BeginInductive
  <2>6. CASE UpdateFrom(i)
    BY <2>6, UpdateFromInductive
  <2>7. CASE UpdateTo(i)
    BY <2>7, UpdateToInductive
  <2>8. CASE Insert(i)
    BY <2>8, InsertInductive
  <2>9. CASE Commit(i)
    BY <2>9, EnterInductive DEF Commit
  <2>10. CASE Recycle(i)
    BY <2>10, RecycleInductive
  <2>11. CASE Land(i)
    <3>1. pc[i] = "landing" /\ Enter(i) /\ Leave(i, "idle", reply[i])
      BY <2>11 DEF Land
    <3>2. reply[i] \in {"ok", "none", "failed"}
      BY <3>1 DEF Inductive, Sound, ReplySound
    <3> QED
      BY <3>1, <3>2, EnterInductive
  <2>12. CASE ReadFails(i)
    <3>1. /\ pc[i] \in Reading \cup {"begin"} /\ Leave(i, "idle", "failed")
          /\ current' = [current EXCEPT ![i] = {}]
          /\ UNCHANGED <<db, entered, raced>>
      BY <2>12 DEF ReadFails, Forgets
    <3>2. current \in [Slots -> SUBSET Accounts]
      BY DEF Inductive, TypeOK
    <3> QED
      BY <3>1, <3>2, LeaveInductive
  <2>13. CASE StatementFails(i) \/ DeadlockAbort(i)
    BY <2>13, StatementFailsInductive DEF DeadlockAbort
  <2>14. CASE SessionLost(i)
    BY <2>14, SessionLostInductive
  <2>15. CASE CommitUnseen(i)
    BY <2>15, EnterInductive DEF CommitUnseen
  <2>16. CASE Dropped(i)
    BY <2>16, DroppedInductive
  <2> QED
    BY <1>4, <2>1, <2>2, <2>3, <2>4, <2>5, <2>6, <2>7, <2>8, <2>9, <2>10,
       <2>11, <2>12, <2>13, <2>14, <2>15, <2>16 DEF Serve, Fault
<1> QED
  BY <1>1, <1>2, <1>3, <1>4 DEF Next

\* The inductive invariant holds of every pool and every number of tasks.
THEOREM InductiveHolds == Spec => []Inductive
<1>1. Init => Inductive
  BY InitInductive
<1>2. Inductive /\ [Next]_vars => Inductive'
  BY NextInductive
<1> QED
  BY <1>1, <1>2, PTL DEF Spec

-----------------------------------------------------------------------------
\* The safety properties.

\* Every variable keeps to its type; in particular every row in the books is a
\* movement of a positive, representable amount.
THEOREM TypeCorrect == Spec => []TypeOK
<1>1. Inductive => TypeOK
  BY DEF Inductive
<1> QED
  BY <1>1, InductiveHolds, PTL

\* Account::debit and Account::credit keep every balance from 0 to i64::MAX,
\* stored or about to be, even for tasks that overwrite each other's balances.
THEOREM NoOverdraftHolds == Spec => []NoOverdraft
<1>1. Inductive => NoOverdraft
  BY DEF Inductive, NoOverdraft, Sound, TxnSound
<1> QED
  BY <1>1, InductiveHolds, PTL

\* The pool is never overdrawn, and a transaction without a task is one that
\* waits for its ROLLBACK or has its COMMIT under way.
THEOREM PoolSoundHolds == Spec => []PoolSound
<1>1. ASSUME Inductive, NEW i \in Slots
      PROVE  (txn[i] # NoTxn) = (pc[i] \in InTxn \cup {"recycle", "landing"})
  <2>1. pc[i] \in Labels /\ TxnSound(i)
    BY <1>1 DEF Inductive, TypeOK, Sound
  <2> QED
    BY <2>1, OpenIsConnected DEF TxnSound, Labels
<1>2. Inductive => PoolSound
  BY <1>1 DEF Inductive, PoolSound
<1> QED
  BY <1>2, InductiveHolds, PTL

\* 2xx answers are for requests in the books, 4xx answers for those that are
\* not and will not be, whoever drops a handler at whichever await.
THEOREM AnswerHonestHolds == Spec => []AnswerHonest
<1>1. Inductive => AnswerHonest
  BY DEF Inductive, AnswerHonest, Sound, ReplySound
<1> QED
  BY <1>1, InductiveHolds, PTL

\* The books explain every balance that no request has written from a stale
\* read, for every number of requests in flight.
THEOREM UnracedReconciledHolds == Spec => []UnracedReconciled
<1>1. Inductive => UnracedReconciled
  BY DEF Inductive
<1> QED
  BY <1>1, InductiveHolds, PTL

-----------------------------------------------------------------------------
\* The tables change by a COMMIT only, one the task waits for or not.
LEMMA OnlyCommitsWrite ==
  ASSUME [Next]_vars, UNCHANGED <<balance, rows>> => FALSE
  PROVE  \E i \in Slots : pc[i] \in {"commit", "landing"} /\ Enter(i)
<1>1. ~Restart /\ ~\E c \in Readers : Borrow(c) \/ GiveBack(c)
  BY DEF Restart, Borrow, GiveBack, BeginTxn, RollbackTxn
<1>2. PICK i \in Slots : Accept(i) \/ Serve(i) \/ Fault(i)
  BY <1>1 DEF Next, vars
<1>3. ~UNCHANGED db
  BY DEF db
<1>4. ~Accept(i) /\ ~Check(i) /\ ~ReadFrom(i) /\ ~ReadTo(i)
      /\ ~ReadFails(i) /\ ~Dropped(i)
  BY <1>3 DEF Accept, Check, ReadFrom, ReadTo, ReadFails, Dropped
<1>5. ~Begin(i) /\ ~UpdateFrom(i) /\ ~UpdateTo(i) /\ ~Insert(i)
      /\ ~StatementFails(i) /\ ~DeadlockAbort(i)
  BY DEF Begin, BeginTxn, UpdateFrom, UpdateTo, UpdateRow, Insert, InsertRow,
         StatementFails, DeadlockAbort, FailStatement
<1>6. ~Recycle(i) /\ ~SessionLost(i)
  BY DEF Recycle, SessionLost, RollbackTxn
<1> QED
  BY <1>2, <1>4, <1>5, <1>6 DEF Serve, Fault, Commit, Land, CommitUnseen

\* The step the property CommitsTogether asks for.
LEMMA StepTogether ==
  ASSUME Inductive, [Next]_vars, UNCHANGED <<balance, rows>> => FALSE
  PROVE  \E i \in Slots, r \in Row :
           /\ rows' = Append(rows, r)
           /\ Locks(i) = Sides(r) /\ txn'[i] = NoTxn
           /\ \A a \in Accounts \ Sides(r) : balance'[a] = balance[a]
<1>1. PICK i \in Slots : pc[i] \in {"commit", "landing"} /\ Enter(i)
  BY OnlyCommitsWrite
<1> DEFINE r == RowOf(req[i])
<1>2. /\ r \in Row /\ rows' = Append(rows, r)
      /\ Locks(i) = Sides(r) /\ txn'[i] = NoTxn
      /\ \A a \in Accounts \ Locks(i) : balance'[a] = balance[a]
  BY <1>1, CommitEffect
<1> QED
  BY <1>2

\* Balances and the row become visible together: sqlx's transaction makes one
\* step of record_atomic, also when nobody waits for its COMMIT any more.
THEOREM CommitsTogetherHolds == Spec => CommitsTogether
<1>1. Inductive /\ [Next]_vars =>
        (balance' # balance \/ rows' # rows =>
           \E i \in Slots, r \in Row :
             /\ rows' = Append(rows, r)
             /\ Locks(i) = Sides(r) /\ txn'[i] = NoTxn
             /\ \A a \in Accounts \ Sides(r) : balance'[a] = balance[a])
  BY StepTogether
<1> QED
  BY <1>1, InductiveHolds, PTL DEF Spec, CommitsTogether

-----------------------------------------------------------------------------
\* One request at a time.  Nobody writes between its reads and its COMMIT, so
\* no balance is ever overwritten from a stale read.
OneSlot == \A i, j \in Slots : i = j

HasRead(i) ==
  LET q == req[i]
  IN /\ pc[i] \in {"readTo", "begin"} \cup InTxn \cup {"landing"} =>
          (Debits(q) => q.from \in current[i])
     /\ pc[i] \in {"begin"} \cup InTxn \cup {"landing"} =>
          (Credits(q) => q.to \in current[i])

Unraced == raced = {} /\ \A i \in Slots : HasRead(i)

\* What a single task writes, it has read, and it is still as read.
LEMMA UnracedStep ==
  ASSUME OneSlot, Inductive, Unraced, [Next]_vars
  PROVE  Unraced'
<1>1. CASE UNCHANGED vars
  BY <1>1 DEF vars, Unraced, HasRead
<1>2. CASE Restart
  BY <1>2 DEF Restart, Unraced, HasRead, InTxn
<1>3. CASE \E c \in Readers : Borrow(c) \/ GiveBack(c)
  BY <1>3 DEF Borrow, GiveBack, Unraced, HasRead
<1>4. ASSUME NEW i \in Slots, Accept(i) \/ Serve(i) \/ Fault(i)
      PROVE  Unraced'
  <2> SUFFICES raced' = {} /\ HasRead(i)'
    BY DEF OneSlot, Unraced
  <2>1. raced = {} /\ HasRead(i) /\ LocalTypeOK /\ Sound(i)
    BY InductiveParts DEF Unraced
  <2>2. CASE Accept(i)
    BY <2>1, <2>2 DEF Accept, HasRead, InTxn, LocalTypeOK
  <2>3. CASE Check(i)
    BY <2>1, <2>3
    DEF Check, Refuse, Leave, GoTo, HasRead, InTxn, LocalTypeOK, Sound,
        RequestSound
  <2>4. CASE ReadFrom(i)
    BY <2>1, <2>4
    DEF ReadFrom, Refuse, Leave, Forgets, Reads, GoTo, HasRead, InTxn,
        LocalTypeOK
  <2>5. CASE ReadTo(i)
    BY <2>1, <2>5
    DEF ReadTo, Refuse, Leave, Forgets, Reads, GoTo, HasRead, InTxn,
        LocalTypeOK
  <2>6. CASE Begin(i) \/ UpdateFrom(i) \/ UpdateTo(i) \/ Insert(i)
    BY <2>1, <2>6
    DEF Begin, UpdateFrom, UpdateTo, Insert, GoTo, HasRead, InTxn, LocalTypeOK
  <2>7. CASE Commit(i) \/ Land(i) \/ CommitUnseen(i)
    <3>1. pc[i] \in {"commit", "landing"} /\ Enter(i) /\ pc'[i] = "idle"
      BY <2>1, <2>7 DEF Commit, Land, CommitUnseen, Leave, LocalTypeOK
    <3>2. Locks(i) \subseteq current[i]
      BY <2>1, <3>1, CommitEffect, RowSays DEF HasRead, InTxn, Sides
    <3> QED
      BY <2>1, <3>1, <3>2 DEF Enter, HasRead, InTxn
  <2>8. CASE Recycle(i) \/ ReadFails(i) \/ SessionLost(i)
             \/ StatementFails(i) \/ DeadlockAbort(i)
    BY <2>1, <2>8
    DEF Recycle, ReadFails, SessionLost, StatementFails, DeadlockAbort, Leave,
        Forgets, GoTo, HasRead, InTxn, LocalTypeOK
  <2>9. CASE Dropped(i)
    <3>1. raced' = {}
      BY <2>1, <2>9 DEF Dropped, Forgets
    <3>2. CASE pc'[i] \in {"idle", "recycle"}
      BY <3>1, <3>2 DEF HasRead, InTxn
    <3>3. CASE pc[i] = "commit" /\ Leave(i, "landing", "none")
      <4>1. UNCHANGED current
        BY <2>1, <2>9, <3>3, OpenIsConnected
        DEF Dropped, Sound, TxnSound, InTxn
      <4> QED
        BY <2>1, <3>1, <3>3, <4>1 DEF Leave, HasRead, InTxn, LocalTypeOK
    <3> QED
      BY <2>1, <2>9, <3>2, <3>3 DEF Dropped, Leave, LocalTypeOK
  <2> QED
    BY <1>4, <2>2, <2>3, <2>4, <2>5, <2>6, <2>7, <2>8, <2>9 DEF Serve, Fault
<1> QED
  BY <1>1, <1>2, <1>3, <1>4 DEF Next

\* The ledger's vocabulary is that of this module.
LEMMA SameWords ==
  /\ Books!Row = Row
  /\ \A rs, a : Books!NetOf(rs, a) = NetOf(rs, a)
  /\ \A bals, r : Books!Posted(bals, r) = Posted(bals, r)
  /\ \A bals, r : Books!Fits(bals, r) = Fits(bals, r)
<1>1. Books!Row = Row
  BY DEF Books!Row, Row, Books!Kinds, Kinds, Books!BankMeets, BankMeets
<1>2. \A rs, a : Books!NetOf(rs, a) = NetOf(rs, a)
  BY DEF Books!NetOf, NetOf, Books!Names, Names, Books!Delta, Delta
<1>3. \A bals, r : Books!Posted(bals, r) = Posted(bals, r)
  BY DEF Books!Posted, Posted, Books!PostedTo, PostedTo, Books!Debits, Debits,
         Books!Credits, Credits
<1>4. \A bals, r : Books!Fits(bals, r) = Fits(bals, r)
  BY DEF Books!Fits, Fits, Books!Debits, Debits, Books!Credits, Credits
<1> QED
  BY <1>1, <1>2, <1>3, <1>4

\* Its COMMIT posts one movement that the money is there for.
LEMMA CommitPosts ==
  ASSUME Inductive, Unraced, NEW i \in Slots, pc[i] \in {"commit", "landing"},
         Enter(i)
  PROVE  \E r \in Row : Books!Record(r)
<1> DEFINE r == RowOf(req[i])
<1> USE InductiveParts
<1>1. /\ r \in Row /\ r.from # r.to /\ rows' = Append(rows, r)
      /\ Locks(i) = Sides(r)
      /\ \A a \in Locks(i) :
           balance'[a] = txn[i].wrote[a] /\ balance'[a] \in Cents
      /\ \A a \in Accounts \ Locks(i) : balance'[a] = balance[a]
      /\ balance' \in [Accounts -> Cents]
  BY CommitEffect
<1>2. Locks(i) \subseteq current[i]
  BY <1>1, RowSays DEF Unraced, HasRead, InTxn, Sides
<1>3. \A a \in Locks(i) : balance'[a] = PostedTo(balance[a], r, a)
  BY <1>1, <1>2 DEF Sound, Fresh, InTxn
<1>4. \A a \in Accounts \ Sides(r) : PostedTo(balance[a], r, a) = balance[a]
  BY DEF Sides, PostedTo
<1>5. \A a \in Accounts : balance'[a] = PostedTo(balance[a], r, a)
  BY <1>1, <1>3, <1>4
<1>6. balance' = Posted(balance, r)
  BY <1>1, <1>5 DEF Posted
<1>7. Fits(balance, r)
  <2>1. r.from \in Accounts /\ r.to \in Accounts /\ r.value \in Int
    BY <1>1, PostingAssumption DEF Row
  <2>2. Debits(r) => balance[r.from] - r.value \in Cents
    BY <1>1, <1>5, <2>1 DEF PostedTo
  <2>3. Credits(r) => balance[r.to] + r.value \in Cents
    BY <1>1, <1>5, <2>1 DEF PostedTo
  <2> QED
    BY <2>1, <2>2, <2>3, PostingAssumption DEF Fits, Cents, DbTypeOK
<1> QED
  BY <1>1, <1>6, <1>7, SameWords DEF Books!Record

\* One request at a time implements the ledger: every step posts and enters one
\* movement, both at once and only if the money is there, or changes neither.
THEOREM OneSlotImplementsLedger ==
  ASSUME OneSlot
  PROVE  Spec => Books!Spec
<1>1. Init => Books!Init
  BY DEF Init, DbInit, Books!Init
<1>2. ASSUME Inductive, Unraced, [Next]_vars
      PROVE  [Books!Next]_(Books!vars)
  <2>1. CASE UNCHANGED <<balance, rows>>
    BY <2>1 DEF Books!vars
  <2>2. CASE ~UNCHANGED <<balance, rows>>
    <3>1. PICK i \in Slots : pc[i] \in {"commit", "landing"} /\ Enter(i)
      BY <1>2, <2>2, OnlyCommitsWrite
    <3>2. PICK r \in Row : Books!Record(r)
      BY <1>2, <3>1, CommitPosts
    <3> QED
      BY <3>2, SameWords DEF Books!Next
  <2> QED
    BY <2>1, <2>2
<1>3. Init => Unraced
  BY DEF Init, Unraced, HasRead, InTxn
<1>4. Inductive /\ Unraced /\ [Next]_vars => Unraced'
  BY UnracedStep
<1> QED
  BY <1>1, <1>2, <1>3, <1>4, InductiveHolds, PTL DEF Spec, Books!Spec

\* With one request in flight at a time the books explain every balance but
\* the bank's, whatever fails, restarts or goes away: only overlap loses money.
THEOREM OneSlotReconciled ==
  ASSUME OneSlot
  PROVE  Spec => []Reconciled
<1>1. Init => Unraced
  BY DEF Init, Unraced, HasRead, InTxn
<1>2. Inductive /\ Unraced /\ [Next]_vars => Unraced'
  BY UnracedStep
<1>3. Inductive /\ Unraced => Reconciled
  BY SameWords
  DEF Inductive, Unraced, UnracedReconciled, Reconciled, Books!Reconciled
<1> QED
  BY <1>1, <1>2, <1>3, InductiveHolds, PTL DEF Spec
=============================================================================
