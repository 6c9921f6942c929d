--------------------------- MODULE MCCTransactions ---------------------------
(****************************************************************************)
(* Two customers and the bank.  u1 has a Regular and a Savings account in   *)
(* one currency, u2 a Regular account; they have saved each other.          *)
(****************************************************************************)
EXTENDS CTransactions, TLC

CONSTANTS bank, a1, a2, b1, u0, u1, u2, eur

MCAccounts == {bank, a1, a2, b1}
MCOwner == (bank :> u0) @@ (a1 :> u1) @@ (a2 :> u1) @@ (b1 :> u2)
MCCurrency == [a \in MCAccounts |-> eur]
MCAffiliates == (u0 :> {}) @@ (u1 :> {u2}) @@ (u2 :> {u1})
MCOpening == (bank :> 3) @@ (a1 :> 2) @@ (a2 :> 0) @@ (b1 :> 3)

\* A request, with the account the handler fills in.
Ask(kind, user, from, to, amount) ==
  [kind |-> kind, user |-> user, from |-> from, to |-> to, amount |-> amount]

\* Every request of u1, and what u2 needs to race with it: all refusals occur
\* (another's account, a Savings recipient, no affiliate, no funds, a full
\* account, amount 0, an amount too large in cents, from = to).
AllRequests ==
  {Ask("Deposit", u1, bank, a, n) : a \in MCAccounts, n \in 0..2}
    \cup {Ask(k, u1, a, bank, n) :
            k \in {"Withdrawal", "Payment"}, a \in MCAccounts, n \in 0..2}
    \cup {Ask(k, u1, a, b, n) :
            k \in {"Send", "Transfer"}, a \in MCAccounts, b \in MCAccounts,
            n \in 0..2}
    \cup {Ask("Send", u2, b1, a1, 1)}

\* For two processes: one request of each shape, able to meet on one account,
\* to deadlock, and to be refused.
RacingRequests ==
  {Ask("Deposit", u1, bank, a1, 1),
   Ask("Withdrawal", u1, a1, bank, 1),
   Ask("Transfer", u1, a1, a2, 1),
   Ask("Transfer", u1, a2, a1, 1),
   Ask("Send", u2, b1, a1, 1),
   Ask("Payment", u2, a1, bank, 1)}
=============================================================================
