-------------------------------- MODULE Ledger --------------------------------
(****************************************************************************)
(* What "record a transaction" promises, said without requests, sessions or *)
(* statements: one movement at a time is posted to the balances and entered *)
(* in the books, both at once, and only if the money is there.              *)
(****************************************************************************)
EXTENDS Posting

VARIABLES
  balance,        \* accounts.balance_cents
  rows            \* the transactions table, oldest row first

vars == <<balance, rows>>

Init ==
  /\ balance = Opening
  /\ rows = <<>>

\* One movement, entered and posted together.
Record(r) ==
  /\ r.from # r.to
  /\ Fits(balance, r)
  /\ balance' = Posted(balance, r)
  /\ rows' = Append(rows, r)

Next == \E r \in Row : Record(r)

Spec == Init /\ [][Next]_vars

\* The books explain the balances: for every account but the bank's own, the
\* balance is the opening balance plus the deltas of the rows that name it.
\* This is what lets a statement compute its opening balance backwards from
\* the balance of today.
Reconciled ==
  \A a \in Accounts \ {Bank} : balance[a] = Opening[a] + NetOf(rows, a)
=============================================================================
