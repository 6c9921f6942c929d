------------------------------- MODULE Requests -------------------------------
(****************************************************************************)
(* What a client may ask of POST /transactions/*, and the columns of users, *)
(* accounts and affiliates the services look at before they move money.     *)
(* Owner, currency and type of an account never change.                     *)
(****************************************************************************)
EXTENDS Posting

CONSTANTS
  Users,
  Owner,          \* accounts.user_id
  Currency,       \* accounts.currency
  Regular,        \* the accounts of type Regular
  Affiliates,     \* the users each user has saved an affiliate of
  CentsPerUnit,   \* 100: deposits, withdrawals and payments come in units
  Requests,       \* what clients send
  NoRequest

Request ==
  {q \in [kind : Kinds, user : Users, from : Accounts, to : Accounts,
          amount : -MaxCents..MaxCents] : BankMeets(q)}

ASSUME RequestsAssumption ==
  /\ Owner \in [Accounts -> Users]
  /\ DOMAIN Currency = Accounts
  /\ Regular \subseteq Accounts
  /\ Affiliates \in [Users -> SUBSET Users]
  /\ CentsPerUnit \in Nat \ {0}
  /\ Requests \subseteq Request
  /\ NoRequest \notin Request

InUnits(q) == q.kind \in {"Deposit", "Withdrawal", "Payment"}

Value(q) == IF InUnits(q) THEN q.amount * CentsPerUnit ELSE q.amount

\* The row record_transaction enters for q.
RowOf(q) ==
  [kind |-> q.kind, from |-> q.from, to |-> q.to, value |-> Value(q)]

\* The balances of the two Account objects a handler holds in memory.
Image == [from : Int, to : Int]
NoImage == [from |-> 0, to |-> 0]
=============================================================================
