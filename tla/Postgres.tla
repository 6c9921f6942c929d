------------------------------- MODULE Postgres -------------------------------
(****************************************************************************)
(* The part of PostgreSQL both backends rely on, as they use it: sessions   *)
(* that run BEGIN, UPDATE accounts ... WHERE id, INSERT INTO transactions,  *)
(* COMMIT and ROLLBACK at the default isolation level, READ COMMITTED.      *)
(* An UPDATE locks its row until the transaction ends and waits for a row   *)
(* another session has locked; a SELECT takes no lock and sees what has     *)
(* been committed, plus the session's own writes.                           *)
(*                                                                          *)
(* The foreign-key check of the INSERT takes a key-share lock on the two    *)
(* accounts, which does not conflict with the UPDATEs: they rewrite the key *)
(* columns with the values they already hold.                               *)
(*                                                                          *)
(* The operators are the parts of actions: a client module conjoins one of  *)
(* them with what its own code does at that statement.                      *)
(****************************************************************************)
EXTENDS Posting

CONSTANTS
  Sessions,       \* connections to the database
  Unwritten       \* in `wrote`: the transaction has not written the account

ASSUME PostgresAssumption == Unwritten \notin Int

VARIABLES
  balance,        \* accounts.balance_cents, as committed
  rows,           \* the transactions table, as committed, in commit order
  txn             \* the transaction each session has open

db == <<balance, rows, txn>>

NoTxn == [state |-> "none",
          wrote |-> [a \in Accounts |-> Unwritten],
          new   |-> <<>>]

\* An open transaction holds the row locks of the accounts it wrote.  One in
\* which a statement failed is "failed": it keeps its locks and ends by
\* ROLLBACK only.
Txn == [state : {"none", "open", "failed"},
        wrote : [Accounts -> Int \cup {Unwritten}],
        new   : Seq(Row)]

DbTypeOK ==
  /\ balance \in [Accounts -> Int]
  /\ rows \in Seq(Row)
  /\ txn \in [Sessions -> Txn]

DbInit ==
  /\ balance = Opening
  /\ rows = <<>>
  /\ txn = [s \in Sessions |-> NoTxn]

Locks(s) == {a \in Accounts : txn[s].wrote[a] # Unwritten}

LockFree(s, a) == \A t \in Sessions \ {s} : a \notin Locks(t)

\* What SELECT ... WHERE id = a returns to session s.
Visible(s, a) ==
  IF txn[s].wrote[a] = Unwritten THEN balance[a] ELSE txn[s].wrote[a]

\* BEGIN inside a transaction is only a warning.
BeginTxn(s) ==
  /\ txn' = [txn EXCEPT ![s].state = IF @ = "none" THEN "open" ELSE @]
  /\ UNCHANGED <<balance, rows>>

\* Mutant: the UPDATE runs outside any transaction and commits by itself.
UpdateRowAutocommit(s, a, cents) ==
  /\ LockFree(s, a)
  /\ balance' = [balance EXCEPT ![a] = cents]
  /\ UNCHANGED <<rows, txn>>

\* UPDATE accounts SET balance_cents = cents WHERE id = a: an absolute write.
UpdateRow(s, a, cents) ==
  /\ txn[s].state = "open"
  /\ LockFree(s, a)
  /\ txn' = [txn EXCEPT ![s].wrote[a] = cents]
  /\ UNCHANGED <<balance, rows>>

InsertRow(s, r) ==
  /\ txn[s].state = "open"
  /\ txn' = [txn EXCEPT ![s].new = Append(@, r)]
  /\ UNCHANGED <<balance, rows>>

\* ROLLBACK, and what the server does for a session that is gone.
RollbackTxn(s) ==
  /\ txn' = [txn EXCEPT ![s] = NoTxn]
  /\ UNCHANGED <<balance, rows>>

\* COMMIT of a transaction that has not failed.
ApplyTxn(s) ==
  /\ txn[s].state = "open"
  /\ balance' = [a \in Accounts |-> Visible(s, a)]
  /\ rows' = rows \o txn[s].new
  /\ txn' = [txn EXCEPT ![s] = NoTxn]

\* COMMIT; of a failed transaction it is a ROLLBACK that reports success.
CommitTxn(s) == ApplyTxn(s) \/ (txn[s].state # "open" /\ RollbackTxn(s))

FailStatement(s) ==
  /\ txn[s].state = "open"
  /\ txn' = [txn EXCEPT ![s].state = "failed"]
  /\ UNCHANGED <<balance, rows>>
=============================================================================
