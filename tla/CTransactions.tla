---------------------------- MODULE CTransactions ----------------------------
(****************************************************************************)
(* POST /transactions/{deposit,withdrawal,send,transfer,payment} of the C   *)
(* backend.  One process runs one libmicrohttpd thread                      *)
(* (MHD_USE_SELECT_INTERNALLY) over one libpq connection, so a process      *)
(* answers one request after another; several processes may share the       *)
(* database behind a load balancer.  Each SQL statement is a step, because  *)
(* another process, a failure or the loss of the connection can fall        *)
(* between any two of them.                                                 *)
(*                                                                          *)
(* Owner, type and currency of an account never change, and affiliates do   *)
(* not change here, so all that is checked before BEGIN is one step: when   *)
(* it is read makes no difference.                                          *)
(****************************************************************************)
EXTENDS Postgres, Requests

CONSTANTS
  Servers,        \* the C processes; each is its one session
  MaxRows         \* bound: no request is accepted once this many rows exist

ASSUME CTransactionsAssumption ==
  Servers \subseteq Sessions /\ MaxRows \in Nat

VARIABLES
  pc,             \* the statement the process is about to send
  req,            \* the request it is serving
  img,            \* the balances of the Account objects it has in memory
  link,           \* its connection; nothing re-opens one that is lost
  reply,          \* the ServiceError it has, or its last answer
  entered         \* history: the row of its last request is in the books

local == <<pc, req, img, link, reply, entered>>
vars == <<balance, rows, txn, pc, req, img, link, reply, entered>>

Labels == {"idle", "check", "begin", "readFrom", "readTo", "updateFrom",
           "updateTo", "insert", "commit", "rollback"}

\* 2xx, 4xx and 5xx; "none" while there is no answer.
Replies == {"none", "ok", "rejected", "failed"}

\* ensure_account_owned_by on each account the caller must own.
OwnsAccounts(q) ==
  /\ q.kind # "Deposit" => Owner[q.from] = q.user
  /\ q.kind \in {"Deposit", "Transfer"} => Owner[q.to] = q.user

\* affiliate_service_validate_send_target.
SendTargetValid(user, from, to) ==
  /\ to \in Regular
  /\ Currency[from] = Currency[to]
  /\ Owner[to] \in Affiliates[user]

\* Mutant: an amount need not be positive.
AmountOnlyBounded(q) == InUnits(q) => q.amount <= MaxCents \div CentsPerUnit

\* The amount checks of record_<kind>, record_transaction and
\* transaction_create; MaxCents \div CentsPerUnit is INT64_MAX / 100.
AmountValid(q) ==
  /\ q.amount > 0
  /\ InUnits(q) => q.amount <= MaxCents \div CentsPerUnit

Allowed(q) ==
  /\ OwnsAccounts(q)
  /\ q.kind = "Send" => SendTargetValid(q.user, q.from, q.to)
  /\ q.kind = "Transfer" => Currency[q.from] = Currency[q.to]
  /\ AmountValid(q)
  /\ q.from # q.to

TypeOK ==
  /\ DbTypeOK
  /\ pc \in [Servers -> Labels]
  /\ req \in [Servers -> Requests \cup {NoRequest}]
  /\ img \in [Servers -> Image]
  /\ link \in [Servers -> {"up", "down"}]
  /\ reply \in [Servers -> Replies]
  /\ entered \in [Servers -> BOOLEAN]

Init ==
  /\ DbInit
  /\ pc = [s \in Servers |-> "idle"]
  /\ req = [s \in Servers |-> NoRequest]
  /\ img = [s \in Servers |-> NoImage]
  /\ link = [s \in Servers |-> "up"]
  /\ reply = [s \in Servers |-> "none"]
  /\ entered = [s \in Servers |-> FALSE]

-----------------------------------------------------------------------------
\* Ways the process goes on.

At(s, label) == pc[s] = label /\ link[s] = "up"

GoTo(s, label) ==
  /\ pc' = [pc EXCEPT ![s] = label]
  /\ UNCHANGED <<req, link, reply>>

Answer(s, answer) ==
  /\ pc' = [pc EXCEPT ![s] = "idle"]
  /\ req' = [req EXCEPT ![s] = NoRequest]
  /\ img' = [img EXCEPT ![s] = NoImage]
  /\ reply' = [reply EXCEPT ![s] = answer]
  /\ UNCHANGED link

\* An error inside the transaction: free the accounts, go and roll back.
GiveUp(s, answer) ==
  /\ pc' = [pc EXCEPT ![s] = "rollback"]
  /\ img' = [img EXCEPT ![s] = NoImage]
  /\ reply' = [reply EXCEPT ![s] = answer]
  /\ UNCHANGED <<req, link, entered>>

-----------------------------------------------------------------------------
\* The request handler, statement by statement.

Accept(s) ==
  /\ pc[s] = "idle"
  /\ Len(rows) < MaxRows
  /\ \E q \in Requests : req' = [req EXCEPT ![s] = q]
  /\ pc' = [pc EXCEPT ![s] = "check"]
  /\ reply' = [reply EXCEPT ![s] = "none"]
  /\ entered' = [entered EXCEPT ![s] = FALSE]
  /\ UNCHANGED <<db, img, link>>

Check(s) ==
  /\ At(s, "check")
  /\ \/ Allowed(req[s]) /\ GoTo(s, "begin") /\ UNCHANGED img
     \/ ~Allowed(req[s]) /\ Answer(s, "rejected")
  /\ UNCHANGED <<db, entered>>

Begin(s) ==
  /\ At(s, "begin")
  /\ BeginTxn(s)
  /\ GoTo(s, IF Debits(req[s]) THEN "readFrom" ELSE "readTo")
  /\ UNCHANGED <<img, entered>>

\* Mutant: a withdrawal or payment is not checked against the funds.
ReadFromUnchecked(s) ==
  /\ At(s, "readFrom")
  /\ LET q == req[s]
         cents == Visible(s, q.from)
     IN /\ img' = [img EXCEPT ![s].from =
                     IF Credits(q) THEN cents ELSE cents - Value(q)]
        /\ GoTo(s, IF Credits(q) THEN "readTo" ELSE "updateFrom")
        /\ UNCHANGED entered
  /\ UNCHANGED db

\* The debited account; a withdrawal or payment checks the funds at once.
ReadFrom(s) ==
  /\ At(s, "readFrom")
  /\ LET q == req[s]
         cents == Visible(s, q.from)
     IN \/ /\ Credits(q)
           /\ img' = [img EXCEPT ![s].from = cents]
           /\ GoTo(s, "readTo") /\ UNCHANGED entered
        \/ /\ ~Credits(q) /\ cents >= Value(q)
           /\ img' = [img EXCEPT ![s].from = cents - Value(q)]
           /\ GoTo(s, "updateFrom") /\ UNCHANGED entered
        \/ /\ ~Credits(q) /\ cents < Value(q)
           /\ GiveUp(s, "rejected")
  /\ UNCHANGED db

\* The credited account; account_credit refuses to overflow its balance.
ReadTo(s) ==
  /\ At(s, "readTo")
  /\ LET q == req[s]
         cents == Visible(s, q.to)
         debited == IF Debits(q) THEN img[s].from - Value(q) ELSE 0
     IN IF debited >= 0 /\ cents + Value(q) <= MaxCents
        THEN /\ img' = [img EXCEPT ![s] = [from |-> debited,
                                           to |-> cents + Value(q)]]
             /\ GoTo(s, IF Debits(q) THEN "updateFrom" ELSE "updateTo")
             /\ UNCHANGED entered
        ELSE GiveUp(s, "rejected")
  /\ UNCHANGED db

UpdateFrom(s) ==
  /\ At(s, "updateFrom")
  /\ UpdateRow(s, req[s].from, img[s].from)
  /\ GoTo(s, IF Credits(req[s]) THEN "updateTo" ELSE "insert")
  /\ UNCHANGED <<img, entered>>

\* Mutant: the recipient's new balance is not written.
UpdateToForgotten(s) ==
  /\ At(s, "updateTo")
  /\ GoTo(s, "insert")
  /\ UNCHANGED <<db, img, entered>>

UpdateTo(s) ==
  /\ At(s, "updateTo")
  /\ UpdateRow(s, req[s].to, img[s].to)
  /\ GoTo(s, "insert")
  /\ UNCHANGED <<img, entered>>

Insert(s) ==
  /\ At(s, "insert")
  /\ InsertRow(s, RowOf(req[s]))
  /\ GoTo(s, "commit")
  /\ UNCHANGED <<img, entered>>

\* Whether the commit of s's transaction enters the row of its request.
Enters(s) == txn[s].state = "open" /\ txn[s].new = <<RowOf(req[s])>>

Commit(s) ==
  /\ At(s, "commit")
  /\ entered' = [entered EXCEPT ![s] = Enters(s)]
  /\ CommitTxn(s)
  /\ Answer(s, "ok")

\* Mutant: an error returns without a ROLLBACK.
RollbackForgotten(s) ==
  /\ At(s, "rollback")
  /\ Answer(s, reply[s])
  /\ UNCHANGED <<db, entered>>

Rollback(s) ==
  /\ At(s, "rollback")
  /\ RollbackTxn(s)
  /\ Answer(s, reply[s])
  /\ UNCHANGED entered

-----------------------------------------------------------------------------
\* What can go wrong.

InTxn == {"readFrom", "readTo", "updateFrom", "updateTo", "insert"}

\* Mutant: the error of a statement is not looked at.
StatementFailsUnseen(s) ==
  /\ link[s] = "up" /\ pc[s] \in InTxn
  /\ FailStatement(s)
  /\ GoTo(s, "commit")
  /\ UNCHANGED <<img, entered>>

\* The server refuses a statement of the transaction.
StatementFails(s) ==
  /\ link[s] = "up" /\ pc[s] \in InTxn
  /\ FailStatement(s)
  /\ GiveUp(s, "failed")

\* A read before BEGIN fails.
CheckFails(s) ==
  /\ At(s, "check")
  /\ Answer(s, "failed")
  /\ UNCHANGED <<db, entered>>

\* The account the next statement of s updates.
Target(s) == IF pc[s] = "updateFrom" THEN req[s].from ELSE req[s].to

WaitsFor(s, t) ==
  /\ pc[s] \in {"updateFrom", "updateTo"} /\ link[s] = "up"
  /\ t # s /\ Target(s) \in Locks(t)

\* PostgreSQL breaks a cycle of waiting sessions by failing one of them.
Deadlocked(s) ==
  \E S \in SUBSET Servers :
    s \in S /\ \A p \in S : \E t \in S : WaitsFor(p, t)

DeadlockAbort(s) == Deadlocked(s) /\ StatementFails(s)

\* The connection is lost and the server aborts the session.
LinkLost(s) ==
  /\ link[s] = "up"
  /\ link' = [link EXCEPT ![s] = "down"]
  /\ RollbackTxn(s)
  /\ UNCHANGED <<pc, req, img, reply, entered>>

\* The connection is lost after COMMIT took effect, before its result came.
CommitUnseen(s) ==
  /\ At(s, "commit")
  /\ entered' = [entered EXCEPT ![s] = Enters(s)]
  /\ ApplyTxn(s)
  /\ link' = [link EXCEPT ![s] = "down"]
  /\ pc' = [pc EXCEPT ![s] = "rollback"]
  /\ reply' = [reply EXCEPT ![s] = "failed"]
  /\ UNCHANGED <<req, img>>

\* Mutant: a ROLLBACK that fails is tried until it succeeds.
UnreachableRetries(s) ==
  /\ link[s] = "down" /\ pc[s] \notin {"idle", "rollback"}
  /\ Answer(s, "failed")
  /\ UNCHANGED <<db, entered>>

\* Without a connection every statement fails at once.  A failing ROLLBACK
\* never overwrites the error the request has already met.
Unreachable(s) ==
  /\ link[s] = "down" /\ pc[s] # "idle"
  /\ Answer(s, IF pc[s] = "rollback" THEN reply[s] ELSE "failed")
  /\ UNCHANGED <<db, entered>>

\* The process is killed and started again; its client is never answered.
Restart(s) ==
  /\ pc' = [pc EXCEPT ![s] = "idle"]
  /\ req' = [req EXCEPT ![s] = NoRequest]
  /\ img' = [img EXCEPT ![s] = NoImage]
  /\ reply' = [reply EXCEPT ![s] = "none"]
  /\ entered' = [entered EXCEPT ![s] = FALSE]
  /\ link' = [link EXCEPT ![s] = "up"]
  /\ \/ RollbackTxn(s)
     \/ At(s, "commit") /\ ApplyTxn(s)

Serve(s) ==
  \/ Check(s) \/ Begin(s) \/ ReadFrom(s) \/ ReadTo(s) \/ UpdateFrom(s)
  \/ UpdateTo(s) \/ Insert(s) \/ Commit(s) \/ Rollback(s) \/ Unreachable(s)

Fault(s) ==
  \/ StatementFails(s) \/ CheckFails(s) \/ DeadlockAbort(s)
  \/ LinkLost(s) \/ CommitUnseen(s) \/ Restart(s)

Next == \E s \in Servers : Accept(s) \/ Serve(s) \/ Fault(s)

Spec == Init /\ [][Next]_vars

\* The thread runs on.  An UPDATE that waits for a row is queued for it, so it
\* is not overtaken for ever; a deadlock is detected after deadlock_timeout.
Fairness == \A s \in Servers : SF_vars(Serve(s)) /\ WF_vars(DeadlockAbort(s))

FairSpec == Spec /\ Fairness

-----------------------------------------------------------------------------
\* Properties.

\* No balance is ever stored, or about to be stored, below zero or above
\* INT64_MAX: the CHECK constraint of the table never has to fire.
NoOverdraft ==
  /\ \A a \in Accounts : balance[a] \in Cents
  /\ \A s \in Servers : \A a \in Locks(s) : txn[s].wrote[a] \in Cents

\* Every path that leaves a request closes its transaction: a process that is
\* not inside record_transaction holds no row lock and no unfinished work that
\* the next request would commit with its own.
SessionClean ==
  \A s \in Servers :
    pc[s] \in {"idle", "check", "begin"} => txn[s] = NoTxn

\* What the client is told is what happened: a 2xx answer only for a request
\* that is in the books, a 4xx answer only for one that is not.  A 5xx answer
\* promises nothing.
AnswerHonest ==
  \A s \in Servers : pc[s] = "idle" =>
    /\ reply[s] = "ok" => entered[s]
    /\ reply[s] = "rejected" => ~entered[s]

\* What makes these hold, of each process.  A request past the checks passed
\* them, and is at a statement of its kind; the balances it has in memory are
\* in range; and its transaction has written exactly what its statements so
\* far wrote.
RequestSound(s) ==
  /\ pc[s] # "idle" => req[s] \in Requests
  /\ pc[s] \notin {"idle", "check"} => Allowed(req[s])
  /\ pc[s] \in {"readFrom", "updateFrom"} => Debits(req[s])
  /\ pc[s] \in {"readTo", "updateTo"} => Credits(req[s])

ImageSound(s) == img[s].from \in Cents /\ img[s].to \in Cents

WroteFrom(s) ==
  Debits(req[s]) /\ pc[s] \in {"updateTo", "insert", "commit"}

WroteTo(s) == Credits(req[s]) /\ pc[s] \in {"insert", "commit"}

Written(s) ==
  [a \in Accounts |->
     IF WroteFrom(s) /\ a = req[s].from THEN img[s].from
     ELSE IF WroteTo(s) /\ a = req[s].to THEN img[s].to
     ELSE Unwritten]

TxnSound(s) ==
  /\ pc[s] \in {"idle", "check", "begin"} \/ link[s] = "down" =>
       txn[s] = NoTxn
  /\ link[s] = "up" /\ pc[s] \in InTxn \cup {"commit"} =>
       /\ txn[s].state = "open"
       /\ txn[s].wrote = Written(s)
       /\ txn[s].new = IF pc[s] = "commit" THEN <<RowOf(req[s])>> ELSE <<>>
  /\ \A a \in Locks(s) : txn[s].wrote[a] \in Cents

ReplySound(s) ==
  /\ pc[s] \notin {"idle", "rollback"} => reply[s] = "none" /\ ~entered[s]
  /\ reply[s] = "ok" => entered[s] /\ pc[s] = "idle"
  /\ reply[s] = "rejected" => ~entered[s]

Sound(s) == RequestSound(s) /\ ImageSound(s) /\ TxnSound(s) /\ ReplySound(s)

Inductive ==
  /\ TypeOK
  /\ \A a \in Accounts : balance[a] \in Cents
  /\ \A s \in Servers : Sound(s)

\* Balances and the row commit together: a step that changes what is committed
\* ends one transaction, enters exactly one row, and writes the accounts that
\* row is posted to and no other.
CommitsTogether ==
  [][balance' # balance \/ rows' # rows =>
       \E s \in Servers, r \in Row :
         /\ rows' = Append(rows, r)
         /\ Locks(s) = Sides(r) /\ txn'[s] = NoTxn
         /\ \A a \in Accounts \ Sides(r) : balance'[a] = balance[a]]_vars

\* The ledger the process implements, if it is the only one.
Books == INSTANCE Ledger WITH balance <- balance, rows <- rows
LedgerSpec == Books!Spec
Reconciled == Books!Reconciled

\* Every request is answered, or its process is started again.
Answered == \A s \in Servers : pc[s] # "idle" ~> pc[s] = "idle"
=============================================================================
