------------------------------- MODULE Posting -------------------------------
(****************************************************************************)
(* The vocabulary every other module shares: what a row of the             *)
(* `transactions` table says, and how the two backends turn the five kinds  *)
(* of movement into changes of `accounts.balance_cents`.                    *)
(*                                                                          *)
(* Only the columns a property can tell apart are kept: the kind, the two   *)
(* accounts and the value.  Ids follow the order of commits.                *)
(****************************************************************************)
EXTENDS Integers, Sequences

CONSTANTS
  Accounts,       \* the rows of `accounts`; no operation deletes one
  Bank,           \* account 1, counterparty of deposits, withdrawals, payments
  Opening,        \* the balance of each account before the first row
  MaxCents        \* stands for INT64_MAX, the largest balance a row can hold

ASSUME PostingAssumption ==
  /\ Bank \in Accounts
  /\ MaxCents \in Nat \ {0}
  /\ Opening \in [Accounts -> 0..MaxCents]

Cents == 0..MaxCents

Kinds == {"Deposit", "Withdrawal", "Payment", "Send", "Transfer"}

\* The handlers fill in the bank's account for the kinds that take one id.
BankMeets(r) ==
  /\ r.kind = "Deposit" => r.from = Bank
  /\ r.kind \in {"Withdrawal", "Payment"} => r.to = Bank

Row ==
  {r \in [kind : Kinds, from : Accounts, to : Accounts, value : 1..MaxCents] :
     BankMeets(r)}

\* Which side of a movement is posted.  A deposit leaves the bank's account
\* alone, and so do a withdrawal and a payment.
Debits(r)  == r.kind # "Deposit"
Credits(r) == r.kind \in {"Deposit", "Send", "Transfer"}

\* The accounts a movement is posted to.
Sides(r) == {a \in Accounts : \/ a = r.from /\ Debits(r)
                              \/ a = r.to /\ Credits(r)}

\* The rows the statement of account a is made of, and the sign it gives each:
\* a row that names a as its recipient counts up, any other counts down.
Names(r, a) == a \in {r.from, r.to}
Delta(r, a) == IF r.to = a THEN r.value ELSE -r.value

\* The sum of the deltas of account a.
NetOf(rs, a) ==
  LET net[n \in 0..Len(rs)] ==
        IF n = 0 THEN 0
        ELSE net[n - 1] + (IF Names(rs[n], a) THEN Delta(rs[n], a) ELSE 0)
  IN net[Len(rs)]

\* The effect of one movement on one balance, and on all of them.
PostedTo(bal, r, a) ==
  IF Debits(r) /\ a = r.from THEN bal - r.value
  ELSE IF Credits(r) /\ a = r.to THEN bal + r.value
  ELSE bal

Posted(bals, r) == [a \in Accounts |-> PostedTo(bals[a], r, a)]

\* Both checks the services make before they post anything.
Fits(bals, r) ==
  /\ Debits(r)  => bals[r.from] >= r.value
  /\ Credits(r) => bals[r.to] + r.value <= MaxCents
=============================================================================
