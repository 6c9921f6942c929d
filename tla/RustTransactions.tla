--------------------------- MODULE RustTransactions ---------------------------
(****************************************************************************)
(* POST /transactions/{deposit,withdrawal,send,transfer,payment} of the     *)
(* Rust backend: axum handlers, each a tokio task, over one sqlx pool.      *)
(* record_transaction reads the accounts and computes their new balances on *)
(* connections it borrows for one SELECT each; only record_atomic, the      *)
(* UPDATEs and the INSERT, runs in a database transaction.                  *)
(*                                                                          *)
(* A task ends early when a statement fails, or when its client goes away   *)
(* and hyper drops the handler's future at an await.  Either way the sqlx   *)
(* Transaction guard is dropped: the ROLLBACK is queued on the connection   *)
(* and runs when the pool takes it back, after the handler has answered.    *)
(* A slot stands for a task, then for the connection it leaves behind.      *)
(****************************************************************************)
EXTENDS Postgres, Requests, FiniteSets

CONSTANTS
  Slots,          \* requests served, or cleaned up after, at once
  PoolSize,       \* 5: connections the pool opens at most
  MaxRows         \* bound: no request is accepted once this many rows exist

ASSUME RustTransactionsAssumption ==
  /\ Slots \subseteq Sessions /\ IsFiniteSet(Sessions)
  /\ PoolSize \in Nat \ {0} /\ MaxRows \in Nat

VARIABLES
  pc,             \* the next await of the task
  req,            \* the request it is serving
  img,            \* the balances of the Account values it holds
  reply,          \* its last answer
  entered,        \* history: the row of its last request is in the books
  current,        \* history: accounts it read, unchanged since
  raced           \* history: accounts overwritten from a stale balance

vars == <<balance, rows, txn, pc, req, img, reply, entered, current, raced>>

Reading == {"check", "readFrom", "readTo"}
InTxn == {"updateFrom", "updateTo", "insert", "commit"}

\* In "recycle" and "landing" the handler is gone and its connection is not
\* back in the pool: a ROLLBACK is queued on it, or a COMMIT is under way.
Labels == {"idle", "begin", "recycle", "landing"} \cup Reading \cup InTxn

TypeOK ==
  /\ DbTypeOK
  /\ pc \in [Slots -> Labels]
  /\ req \in [Slots -> Requests \cup {NoRequest}]
  /\ img \in [Slots -> Image]
  /\ reply \in [Slots -> {"none", "ok", "rejected", "failed"}]
  /\ entered \in [Slots -> BOOLEAN]
  /\ current \in [Slots -> SUBSET Accounts]
  /\ raced \subseteq Accounts

Init ==
  /\ DbInit
  /\ pc = [i \in Slots |-> "idle"]
  /\ req = [i \in Slots |-> NoRequest]
  /\ img = [i \in Slots |-> NoImage]
  /\ reply = [i \in Slots |-> "none"]
  /\ entered = [i \in Slots |-> FALSE]
  /\ current = [i \in Slots |-> {}]
  /\ raced = {}

-----------------------------------------------------------------------------
\* The checks before record_transaction.

OwnsAccounts(q) ==
  /\ q.kind # "Deposit" => Owner[q.from] = q.user
  /\ q.kind \in {"Deposit", "Transfer"} => Owner[q.to] = q.user

SendTargetValid(q) ==
  /\ q.to \in Regular
  /\ Currency[q.from] = Currency[q.to]
  /\ Owner[q.to] \in Affiliates[q.user]

TransferValid(q) ==
  /\ Owner[q.from] = Owner[q.to]
  /\ Currency[q.from] = Currency[q.to]

\* Mutant: an amount need not be positive.
AmountOnlyBounded(q) == InUnits(q) => Value(q) <= MaxCents

\* checked_mul(100) refuses what does not fit in an i64.
AmountValid(q) ==
  /\ q.amount > 0
  /\ InUnits(q) => Value(q) <= MaxCents

Allowed(q) ==
  /\ OwnsAccounts(q)
  /\ q.kind = "Send" => SendTargetValid(q)
  /\ q.kind = "Transfer" => TransferValid(q)
  /\ AmountValid(q)
  /\ q.from # q.to

-----------------------------------------------------------------------------
\* Ways the task goes on.

\* The pool is a fair semaphore over its connections.
ConnectionFree == Cardinality({c \in Sessions : txn[c] # NoTxn}) < PoolSize

GoTo(i, label) ==
  /\ pc' = [pc EXCEPT ![i] = label]
  /\ UNCHANGED <<req, reply, entered>>

\* The handler's future is gone: it has answered, or nobody waits for one.
Leave(i, label, answer) ==
  /\ pc' = [pc EXCEPT ![i] = label]
  /\ img' = [img EXCEPT ![i] = NoImage]
  /\ req' = [req EXCEPT ![i] = IF label = "landing" THEN @ ELSE NoRequest]
  /\ reply' = [reply EXCEPT ![i] = answer]

Refuse(i) == Leave(i, "idle", "rejected") /\ UNCHANGED entered

Reads(i, a) == current' = [current EXCEPT ![i] = @ \cup {a}]

Forgets(i) == current' = [current EXCEPT ![i] = {}] /\ UNCHANGED raced

\* COMMIT takes effect.  What the others have read of the accounts it writes
\* is stale from now on, and so may be what it writes itself.
Enter(i) ==
  /\ ApplyTxn(i)
  /\ entered' = [entered EXCEPT ![i] = txn[i].new = <<RowOf(req[i])>>]
  /\ raced' = raced \cup (Locks(i) \ current[i])
  /\ current' = [j \in Slots |-> IF j = i THEN {} ELSE current[j] \ Locks(i)]

-----------------------------------------------------------------------------
\* The request handler, await by await.

Accept(i) ==
  /\ pc[i] = "idle"
  /\ Len(rows) < MaxRows
  /\ \E q \in Requests : req' = [req EXCEPT ![i] = q]
  /\ pc' = [pc EXCEPT ![i] = "check"]
  /\ reply' = [reply EXCEPT ![i] = "none"]
  /\ entered' = [entered EXCEPT ![i] = FALSE]
  /\ UNCHANGED <<db, img, current, raced>>

Check(i) ==
  /\ pc[i] = "check"
  /\ ConnectionFree
  /\ \/ /\ Allowed(req[i])
        /\ GoTo(i, IF Debits(req[i]) THEN "readFrom" ELSE "readTo")
        /\ UNCHANGED img
     \/ ~Allowed(req[i]) /\ Refuse(i)
  /\ UNCHANGED <<db, current, raced>>

\* The debited account; a withdrawal or payment checks the funds at once.
ReadFrom(i) ==
  /\ pc[i] = "readFrom"
  /\ ConnectionFree
  /\ LET q == req[i]
         cents == balance[q.from]
         kept == IF Credits(q) THEN cents ELSE cents - Value(q)
     IN IF kept >= 0
        THEN /\ img' = [img EXCEPT ![i].from = kept]
             /\ GoTo(i, IF Credits(q) THEN "readTo" ELSE "begin")
             /\ Reads(i, q.from) /\ UNCHANGED raced
        ELSE Refuse(i) /\ Forgets(i)
  /\ UNCHANGED db

\* Mutant: the funds are checked for withdrawals and payments only.
ReadToUnchecked(i) ==
  /\ pc[i] = "readTo"
  /\ ConnectionFree
  /\ LET q == req[i]
         debited == IF Debits(q) THEN img[i].from - Value(q) ELSE 0
     IN /\ img' = [img EXCEPT ![i] = [from |-> debited,
                                      to |-> balance[q.to] + Value(q)]]
        /\ GoTo(i, "begin")
        /\ Reads(i, q.to) /\ UNCHANGED raced
  /\ UNCHANGED db

\* The credited account; Account::credit refuses to overflow its balance.
ReadTo(i) ==
  /\ pc[i] = "readTo"
  /\ ConnectionFree
  /\ LET q == req[i]
         cents == balance[q.to]
         debited == IF Debits(q) THEN img[i].from - Value(q) ELSE 0
     IN IF debited >= 0 /\ cents + Value(q) <= MaxCents
        THEN /\ img' = [img EXCEPT ![i] = [from |-> debited,
                                           to |-> cents + Value(q)]]
             /\ GoTo(i, "begin")
             /\ Reads(i, q.to) /\ UNCHANGED raced
        ELSE Refuse(i) /\ Forgets(i)
  /\ UNCHANGED db

\* Mutant: the transaction is begun whatever the pool says.
BeginUnpooled(i) ==
  /\ pc[i] = "begin"
  /\ BeginTxn(i)
  /\ GoTo(i, IF Debits(req[i]) THEN "updateFrom" ELSE "updateTo")
  /\ UNCHANGED <<img, current, raced>>

\* record_atomic borrows a connection for as long as its transaction lasts.
Begin(i) ==
  /\ pc[i] = "begin"
  /\ ConnectionFree
  /\ BeginTxn(i)
  /\ GoTo(i, IF Debits(req[i]) THEN "updateFrom" ELSE "updateTo")
  /\ UNCHANGED <<img, current, raced>>

UpdateFrom(i) ==
  /\ pc[i] = "updateFrom"
  /\ UpdateRow(i, req[i].from, img[i].from)
  /\ GoTo(i, IF Credits(req[i]) THEN "updateTo" ELSE "insert")
  /\ UNCHANGED <<img, current, raced>>

\* Mutant: only the first of updated_accounts is written.
UpdateToForgotten(i) ==
  /\ pc[i] = "updateTo"
  /\ GoTo(i, "insert")
  /\ UNCHANGED <<db, img, current, raced>>

UpdateTo(i) ==
  /\ pc[i] = "updateTo"
  /\ UpdateRow(i, req[i].to, img[i].to)
  /\ GoTo(i, "insert")
  /\ UNCHANGED <<img, current, raced>>

Insert(i) ==
  /\ pc[i] = "insert"
  /\ InsertRow(i, RowOf(req[i]))
  /\ GoTo(i, "commit")
  /\ UNCHANGED <<img, current, raced>>

Commit(i) ==
  /\ pc[i] = "commit"
  /\ Enter(i)
  /\ Leave(i, "idle", "ok")

-----------------------------------------------------------------------------
\* What goes on behind a handler that is gone.

\* Mutant: a dropped transaction goes back to the pool as it is.
RecycleAsIs(i) ==
  /\ pc[i] = "recycle"
  /\ GoTo(i, "idle")
  /\ Forgets(i)
  /\ UNCHANGED <<db, img>>

\* The pool takes the connection back and runs the queued ROLLBACK.
Recycle(i) ==
  /\ pc[i] = "recycle"
  /\ RollbackTxn(i)
  /\ GoTo(i, "idle")
  /\ Forgets(i)
  /\ UNCHANGED img

\* A COMMIT nobody waits for takes effect.
Land(i) ==
  /\ pc[i] = "landing"
  /\ Enter(i)
  /\ Leave(i, "idle", reply[i])

-----------------------------------------------------------------------------
\* The routes that only read share the pool: each SELECT is a transaction of
\* its own on a connection borrowed for it.

Readers == Sessions \ Slots

Borrow(c) ==
  /\ txn[c] = NoTxn /\ ConnectionFree
  /\ BeginTxn(c)
  /\ UNCHANGED <<pc, req, img, reply, entered, current, raced>>

GiveBack(c) ==
  /\ txn[c] # NoTxn
  /\ RollbackTxn(c)
  /\ UNCHANGED <<pc, req, img, reply, entered, current, raced>>

-----------------------------------------------------------------------------
\* What can go wrong.

\* A SELECT fails, or no connection comes free within the acquire timeout.
ReadFails(i) ==
  /\ pc[i] \in Reading \/ (pc[i] = "begin" /\ ~ConnectionFree)
  /\ Leave(i, "idle", "failed")
  /\ Forgets(i)
  /\ UNCHANGED <<db, entered>>

\* Mutant: an error inside record_atomic is answered as a refusal.
StatementRefused(i) ==
  /\ pc[i] \in InTxn \ {"commit"}
  /\ FailStatement(i)
  /\ Leave(i, "recycle", "rejected")
  /\ UNCHANGED <<entered, current, raced>>

\* The server refuses a statement of record_atomic.
StatementFails(i) ==
  /\ pc[i] \in InTxn \ {"commit"}
  /\ FailStatement(i)
  /\ Leave(i, "recycle", "failed")
  /\ UNCHANGED <<entered, current, raced>>

\* The connection breaks inside record_atomic; the pool replaces it.
SessionLost(i) ==
  /\ pc[i] \in InTxn
  /\ RollbackTxn(i)
  /\ Leave(i, "idle", "failed")
  /\ Forgets(i)
  /\ UNCHANGED entered

\* It breaks between COMMIT taking effect and its result coming back.
CommitUnseen(i) ==
  /\ pc[i] = "commit"
  /\ Enter(i)
  /\ Leave(i, "idle", "failed")

\* The client goes away; at "commit", before or after COMMIT was sent.
Dropped(i) ==
  /\ \/ pc[i] \in Reading \cup {"begin"} /\ Leave(i, "idle", "none")
     \/ pc[i] \in InTxn /\ Leave(i, "recycle", "none")
     \/ pc[i] = "commit" /\ Leave(i, "landing", "none")
  /\ IF txn[i] = NoTxn THEN Forgets(i) ELSE UNCHANGED <<current, raced>>
  /\ UNCHANGED <<db, entered>>

Target(i) == IF pc[i] = "updateFrom" THEN req[i].from ELSE req[i].to

WaitsFor(i, j) ==
  /\ pc[i] \in {"updateFrom", "updateTo"}
  /\ i # j /\ Target(i) \in Locks(j)

\* PostgreSQL breaks a cycle of waiting sessions by failing one of them.
Deadlocked(i) ==
  \E S \in SUBSET Slots : i \in S /\ \A p \in S : \E j \in S : WaitsFor(p, j)

DeadlockAbort(i) == Deadlocked(i) /\ StatementFails(i)

\* The process is killed and started again.
Restart ==
  /\ txn' = [c \in Sessions |-> NoTxn]
  /\ pc' = [i \in Slots |-> "idle"]
  /\ req' = [i \in Slots |-> NoRequest]
  /\ img' = [i \in Slots |-> NoImage]
  /\ reply' = [i \in Slots |-> "none"]
  /\ entered' = [i \in Slots |-> FALSE]
  /\ current' = [i \in Slots |-> {}]
  /\ UNCHANGED <<balance, rows, raced>>

Serve(i) ==
  \/ Check(i) \/ ReadFrom(i) \/ ReadTo(i) \/ Begin(i) \/ UpdateFrom(i)
  \/ UpdateTo(i) \/ Insert(i) \/ Commit(i) \/ Recycle(i) \/ Land(i)

Fault(i) ==
  \/ ReadFails(i) \/ StatementFails(i) \/ SessionLost(i) \/ CommitUnseen(i)
  \/ Dropped(i) \/ DeadlockAbort(i)

Next ==
  \/ Restart
  \/ \E c \in Readers : Borrow(c) \/ GiveBack(c)
  \/ \E i \in Slots : Accept(i) \/ Serve(i) \/ Fault(i)

Spec == Init /\ [][Next]_vars

\* Tasks are polled; the pool hands connections out in the order they were
\* asked for, and an UPDATE that waits for a row is queued for it, so neither
\* is overtaken for ever; a deadlock is detected after deadlock_timeout.
\* A SELECT ends.
Fairness ==
  /\ \A i \in Slots : SF_vars(Serve(i)) /\ WF_vars(DeadlockAbort(i))
  /\ \A c \in Readers : WF_vars(GiveBack(c))

FairSpec == Spec /\ Fairness

-----------------------------------------------------------------------------
\* Properties.

\* No balance is ever stored, or about to be stored, below zero or above
\* i64::MAX, whatever the requests racing on the account.
NoOverdraft ==
  /\ \A a \in Accounts : balance[a] \in Cents
  /\ \A i \in Slots : \A a \in Locks(i) : txn[i].wrote[a] \in Cents

\* The pool is never overdrawn, and a connection left behind by a handler that
\* is gone is the only one with a transaction and no task.
PoolSound ==
  /\ Cardinality({c \in Sessions : txn[c] # NoTxn}) <= PoolSize
  /\ \A i \in Slots :
       (txn[i] # NoTxn) = (pc[i] \in InTxn \cup {"recycle", "landing"})

\* What the client is told is what happened: a 2xx answer only for a request
\* that is in the books, a 4xx answer only for one that is not and will not be.
AnswerHonest ==
  \A i \in Slots :
    /\ reply[i] = "ok" => entered[i]
    /\ reply[i] = "rejected" => pc[i] = "idle" /\ ~entered[i]

\* The books explain the balance of every account no request has overwritten
\* from a stale read: overlap is the only way money is lost or made.
UnracedReconciled ==
  \A a \in Accounts \ (raced \cup {Bank}) :
    balance[a] = Opening[a] + NetOf(rows, a)

\* What makes these hold, of each slot.  A request past the checks passed them,
\* and is at a statement of its kind; the balances its task has in memory are
\* in range; and its transaction has written exactly what its statements so
\* far wrote, also when the task has left it behind to commit.
RequestSound(i) ==
  /\ pc[i] \notin {"idle", "recycle"} => req[i] \in Requests
  /\ pc[i] \notin {"idle", "recycle", "check"} => Allowed(req[i])
  /\ pc[i] \in {"readFrom", "updateFrom"} => Debits(req[i])
  /\ pc[i] \in {"readTo", "updateTo"} => Credits(req[i])

ImageSound(i) == img[i].from \in Cents /\ img[i].to \in Cents

WroteFrom(i) ==
  Debits(req[i]) /\ pc[i] \in {"updateTo", "insert", "commit", "landing"}

WroteTo(i) == Credits(req[i]) /\ pc[i] \in {"insert", "commit", "landing"}

Written(i) == {a \in Accounts : \/ WroteFrom(i) /\ a = req[i].from
                                \/ WroteTo(i) /\ a = req[i].to}

TxnSound(i) ==
  /\ pc[i] \in {"idle", "begin"} \cup Reading => txn[i] = NoTxn
  /\ pc[i] = "recycle" => txn[i].state # "none"
  /\ pc[i] \in InTxn \cup {"landing"} =>
       /\ txn[i].state = "open"
       /\ Locks(i) = Written(i)
       /\ txn[i].new = IF pc[i] \in {"commit", "landing"} THEN <<RowOf(req[i])>>
                       ELSE <<>>
  /\ \A a \in Locks(i) : txn[i].wrote[a] \in Cents

ReplySound(i) ==
  /\ pc[i] # "idle" => reply[i] \in {"none", "failed"} /\ ~entered[i]
  /\ reply[i] = "ok" => entered[i]
  /\ reply[i] = "rejected" => ~entered[i]

\* Of an account that nobody has written since the task read it, the task
\* holds, and its transaction writes, the balance with the movement posted.
Fresh(i) ==
  LET q == req[i]
  IN /\ pc[i] = "readTo" /\ Debits(q) /\ q.from \in current[i] =>
          img[i].from = balance[q.from]
     /\ pc[i] \in {"begin"} \cup InTxn =>
          /\ Debits(q) /\ q.from \in current[i] =>
               img[i].from = balance[q.from] - Value(q)
          /\ Credits(q) /\ q.to \in current[i] =>
               img[i].to = balance[q.to] + Value(q)
     /\ pc[i] \in InTxn \cup {"landing"} =>
          \A a \in Locks(i) \cap current[i] :
            txn[i].wrote[a] = PostedTo(balance[a], RowOf(q), a)

Sound(i) ==
  /\ RequestSound(i) /\ ImageSound(i) /\ TxnSound(i) /\ ReplySound(i)
  /\ Fresh(i)

Inductive ==
  /\ TypeOK
  /\ \A a \in Accounts : balance[a] \in Cents
  /\ \A i \in Slots : Sound(i)
  /\ Cardinality({c \in Sessions : txn[c] # NoTxn}) <= PoolSize
  /\ UnracedReconciled

\* Balances and the row commit together: a step that changes what is committed
\* ends one transaction, enters exactly one row, and writes the accounts that
\* row is posted to and no other.
CommitsTogether ==
  [][balance' # balance \/ rows' # rows =>
       \E i \in Slots, r \in Row :
         /\ rows' = Append(rows, r)
         /\ Locks(i) = Sides(r) /\ txn'[i] = NoTxn
         /\ \A a \in Accounts \ Sides(r) : balance'[a] = balance[a]]_vars

\* The books explain every balance but the bank's.
Books == INSTANCE Ledger WITH balance <- balance, rows <- rows
Reconciled == Books!Reconciled

\* Every request is answered or dropped, and every connection comes back.
Served == \A i \in Slots : pc[i] # "idle" ~> pc[i] = "idle"
=============================================================================
