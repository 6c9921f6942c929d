-------------------------- MODULE MCRustTransactions --------------------------
(****************************************************************************)
(* Two customers and the bank.  u1 has two accounts in one currency, u2 one *)
(* Regular account; they have saved each other.                             *)
(****************************************************************************)
EXTENDS RustTransactions, TLC

CONSTANTS bank, a1, a2, b1, u0, u1, u2, eur

MCAccounts == {bank, a1, a2, b1}
MCOwner == (bank :> u0) @@ (a1 :> u1) @@ (a2 :> u1) @@ (b1 :> u2)
MCCurrency == [a \in MCAccounts |-> eur]
MCAffiliates == (u0 :> {}) @@ (u1 :> {u2}) @@ (u2 :> {u1})
MCOpening == (bank :> 3) @@ (a1 :> 2) @@ (a2 :> 0) @@ (b1 :> 3)

Ask(kind, user, from, to, amount) ==
  [kind |-> kind, user |-> user, from |-> from, to |-> to, amount |-> amount]

\* One request of each shape, able to meet on one account, to deadlock on two,
\* and to be refused.
RacingRequests ==
  {Ask("Deposit", u1, bank, a1, 1),
   Ask("Withdrawal", u1, a1, bank, 1),
   Ask("Transfer", u1, a1, a2, 1),
   Ask("Transfer", u1, a2, a1, 1),
   Ask("Send", u2, b1, a1, 1),
   Ask("Send", u2, b1, a2, 1),
   Ask("Payment", u2, a1, bank, 1),
   Ask("Deposit", u1, bank, a1, 0)}
=============================================================================
