----------------------------- MODULE MCOnboarding -----------------------------
(****************************************************************************)
(* The bank is registered.  Tags and e-mails are fought over, and the bank  *)
(* opens an account.  There is one IBAN more than accounts.                 *)
(****************************************************************************)
EXTENDS Onboarding, TLC

CONSTANTS c1, c2, r1, r2, bank, t1, t2, e0, e1, e2, Savings, EUR,
          i0, i1, i2, i3, i4, i5

MCBackend ==
  [s \in Servers |-> IF s \in {c1, c2} THEN "C" ELSE "Rust"]

MCFirstUsers == {[tag |-> bank, email |-> e0]}
MCFirstAccounts ==
  {[user |-> bank, type |-> Regular, currency |-> RON, iban |-> i0]}

Join(tag, email, padded, flaw) ==
  [op |-> "register", tag |-> tag, email |-> email, padded |-> padded,
   flaw |-> flaw]

Open(type, currency, flaw) ==
  [op |-> "open", user |-> bank, type |-> type, currency |-> currency,
   flaw |-> flaw]

\* Two registrations that wait for each other's rows, a tag that no check
\* finds taken, and an account two servers open at once.
MCRequests ==
  {Join(t1, e1, {}, "none"), Join(t1, e2, {"tag"}, "none"),
   Join(t1, e1, {}, "late"),
   Open(Savings, EUR, "none"), Open(Savings, EUR, "early")}
=============================================================================
